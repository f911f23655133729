----------------------------- MODULE MCCfgPath ------------------------------
(***************************************************************************)
(* The parser's small alphabet again: 2, 1 is the magic, command 1 is the  *)
(* write block, one byte of payload names one of three blocks.             *)
(***************************************************************************)
EXTENDS CfgPath

MagicBytes == <<2, 1>>

Names == {"enable", "ccd1_gain", "ccd2_gain", "mode", "sudo", "adc_mode",
          "three_channel", "init_err_clr", "integtim", "sps", "waittim"}

Changed ==
    [f \in Names |->
        CASE f = "mode" -> 2
          [] f \in {"ccd1_gain", "ccd2_gain"} -> 0
          [] f \in {"integtim", "sps", "waittim"} -> 7
          [] OTHER -> 1]

Back == [f \in Names |-> IF f \in {"ccd1_gain", "mode"} THEN 1 ELSE 0]

\* By payload: an illegal mode with the rate; all registers but the waiting
\* time back; the waiting time and the control registers.
BlockOf ==
    <<[mask |-> {"CCD_CONTROL", "CCD_SPS"}, value |-> [Changed EXCEPT !["mode"] = 3]],
      [mask |-> {"CCD_CONTROL", "CCD_INTEGTIM", "CCD_SPS", "ADC_CONTROL"}, value |-> Back],
      [mask |-> {"CCD_WAITTIM", "CCD_CONTROL", "ADC_CONTROL"}, value |-> Changed]>>

BlockSet == {BlockOf[i] : i \in 1 .. 3}
BlockDecoded(payload) == IF Len(payload) = 1 THEN BlockOf[payload[1] + 1] ELSE BlockOf[1]

ResetWaitTims == {9}

\* Two blocks, the second behind the start of a magic and a frame with another
\* command; two orders of the blocks; a false magic with an illegal length; a
\* write block that is too short.
MCStreams ==
    {<<2, 1, 1, 1, 2, 2, 2, 1, 0, 1, 0, 2, 1, 1, 1, 0>>,
     <<2, 1, 1, 1, 0, 2, 1, 1, 1, 2, 2, 1, 1, 1, 1>>,
     <<2, 1, 1, 2, 1, 1, 1, 1, 2, 1, 1, 0, 2, 1, 1, 1, 0>>}
=============================================================================
