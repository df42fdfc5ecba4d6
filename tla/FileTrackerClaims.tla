------------------------- MODULE FileTrackerClaims --------------------------
(***************************************************************************)
(* What a comment of the file tracker says of it and the code does not     *)
(* keep.                                                                   *)
(***************************************************************************)
EXTENDS MCFileTracker

\* The listener is done with the event at pos.
EventHandled == (lpc = "scan" /\ lpc' = "scan") \/ (lpc = "relink" /\ lpc' = "scan")

\* file_track.hpp:21 "generate an event if file changes": an event of the kernel
\* is handled once, so the walk over a batch only ever moves forward.
EachEventOnce == [][EventHandled => pos' > pos]_vars
=============================================================================
