--------------------------- MODULE MCTcpCfgProto ----------------------------
\* The stream parser on an alphabet of three bytes and a magic of two.
EXTENDS TcpCfgProto

MagicBytes == <<2, 1>>
=============================================================================
