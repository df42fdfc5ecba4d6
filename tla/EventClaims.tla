---------------------------- MODULE EventClaims -----------------------------
(* What the header of the event queue says of it.                          *)
EXTENDS EventQueue

EventSpec == EventInit /\ [][EventNext]_eventVars

\* The entries that get_event and pop_event can come to.
Stored ==
  LET at[n \in 0 .. Len(next)] ==
        IF n = 0 THEN head ELSE IF at[n - 1] = Nullptr THEN Nullptr ELSE next[at[n - 1]]
  IN {at[n] : n \in 0 .. Len(next)} \ {Nullptr}

\* event.h:92-94 "Stores all the unhandled events": every event that was pushed and is
\* not handled yet is in the list.
EventsStored == \A entry \in popped + 1 .. Len(next) : entry \in Stored
=============================================================================
