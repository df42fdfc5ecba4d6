----------------------------- MODULE MCCallers ------------------------------
(* The tracker under the daemon, and under a program of its own, which      *)
(* tracks a file and its folder whenever it likes.                          *)
EXTENDS MCDaemon

VARIABLE caller

AttrOption == {{"AttrChange"}}

CallersInit == caller \in {"daemon", "program"} /\ DaemonInit

\* Bound: the program knows the file by its shorter name.
CallersNext ==
  \/ caller = "daemon" /\ DaemonNext /\ UNCHANGED caller
  \/ caller = "program" /\ Next /\ cname' # <<a, b>> /\ UNCHANGED <<daemonVars, caller>>

CallersSpec == CallersInit /\ [][CallersNext]_<<allVars, caller>>
=============================================================================
