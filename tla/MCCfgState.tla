----------------------------- MODULE MCCfgState -----------------------------
(***************************************************************************)
(* Four write blocks: one that changes every field, one that takes most of *)
(* them back, one with a mode that does not exist, and one for the waiting *)
(* time and the ADC only.                                                  *)
(***************************************************************************)
EXTENDS CfgState

Changed ==
    [f \in Fields |->
        CASE f = "mode" -> 2
          [] f \in {"ccd1_gain", "ccd2_gain"} -> 0
          [] f = "integtim" -> 200
          [] f = "sps" -> 65535
          [] f = "waittim" -> 7
          [] OTHER -> 1]

BlockSet ==
    {[mask |-> Registers, value |-> Changed],
     [mask |-> Registers \ {"CCD_SPS"}, value |-> Defaults],
     [mask |-> {"CCD_CONTROL", "CCD_SPS"}, value |-> [Changed EXCEPT !["mode"] = 3]],
     [mask |-> {"CCD_WAITTIM", "ADC_CONTROL"}, value |-> Changed]}

ResetWaitTims == {0, 9}
=============================================================================
