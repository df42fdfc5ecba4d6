----------------------------- MODULE DaemonClaims ----------------------------
(***************************************************************************)
(* What comments and declarations of the daemon say of it and the code     *)
(* does not keep.  Each is violated in a run of its own.                   *)
(***************************************************************************)
EXTENDS MCDaemon

\* daemon_api.hpp:17 "-1 for error or connection termination": the daemon
\* leaves its loop after the client has closed the connection.
DisconnectEndsLoop == client = "closed" ~> (~Alive \/ dpc \in {"stop", "join"})
=============================================================================
