----------------------------- MODULE Connection -----------------------------
(***************************************************************************)
(* What the TCP client promises the rest of the program: there is at most  *)
(* one connection at a time, which is tried for, may come up and may be    *)
(* lost at any moment, and on which at most one state report is accepted:  *)
(* tcp_client_send_data returns ERR_OK for it once.  No pcbs, no timers,   *)
(* no flags.                                                               *)
(***************************************************************************)
EXTENDS Naturals

VARIABLES conn,     \* "none", "trying" or "up"
          reports   \* state reports accepted (ERR_OK) on the last connection

cvars == <<conn, reports>>

Init == conn = "none" /\ reports = 0

Attempt ==
    /\ conn = "none"
    /\ conn' = "trying"
    /\ UNCHANGED reports

Up ==
    /\ conn = "trying"
    /\ conn' = "up"
    /\ reports' = 0

Down ==
    /\ conn # "none"
    /\ conn' = "none"
    /\ UNCHANGED reports

Report ==
    /\ conn = "up"
    /\ reports = 0
    /\ reports' = 1
    /\ UNCHANGED conn

Next == Attempt \/ Up \/ Down \/ Report

Spec == Init /\ [][Next]_cvars
=============================================================================
