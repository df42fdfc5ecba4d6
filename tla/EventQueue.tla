----------------------------- MODULE EventQueue ------------------------------
(***************************************************************************)
(* Guthi::EventQueue (src/src/event): a linked list of events and their    *)
(* handlers.  Entries are numbered in the order in which they are pushed   *)
(* and are never freed, so that tail may point behind the list.            *)
(***************************************************************************)
EXTENDS Naturals, Sequences

CONSTANT MaxEvents  \* bound: events pushed

ASSUME EventQueueAssumption == MaxEvents \in Nat

VARIABLES
  next,      \* EventQueueEntry::next of every entry
  head,
  tail,
  popped,    \* the entry whose handler pop_event has returned last
  crashed    \* head was followed although there is none

eventVars == <<next, head, tail, popped, crashed>>

Nullptr == 0

EventInit ==
  next = <<>> /\ head = Nullptr /\ tail = Nullptr /\ popped = Nullptr /\ crashed = FALSE

\* Faulty variant: an event that is pushed goes to the front.
PushFront ==
  /\ ~crashed /\ Len(next) < MaxEvents
  /\ next' = Append(next, head) /\ head' = Len(next) + 1
  /\ tail' = IF head = Nullptr THEN Len(next) + 1 ELSE tail
  /\ UNCHANGED <<popped, crashed>>

\* push_event: tail is not moved when there is an entry.
PushEvent ==
  /\ ~crashed /\ Len(next) < MaxEvents
  /\ LET entry == Len(next) + 1 IN
       IF head = Nullptr
       THEN next' = Append(next, Nullptr) /\ head' = entry /\ tail' = entry
       ELSE next' = [Append(next, Nullptr) EXCEPT ![tail] = entry] /\ UNCHANGED <<head, tail>>
  /\ UNCHANGED <<popped, crashed>>

PopEvent ==
  /\ ~crashed
  /\ IF head = Nullptr
     THEN crashed' = TRUE /\ UNCHANGED <<head, popped>>
     ELSE popped' = head /\ head' = next[head] /\ UNCHANGED crashed
  /\ UNCHANGED <<next, tail>>

\* get_event changes nothing.
GetEvent ==
  /\ ~crashed /\ head = Nullptr
  /\ crashed' = TRUE
  /\ UNCHANGED <<next, head, tail, popped>>

EventNext == PushEvent \/ PopEvent \/ GetEvent

\* The handlers come out in the order in which they were pushed, none twice, and
\* behind the first one waits the newest: those between are lost, because tail is
\* left behind (event.cpp:6-25).
PopsInOrder ==
  [][popped' # popped =>
       /\ popped' > popped
       /\ popped' = tail => next[popped'] \in {Nullptr, Len(next)}]_eventVars
=============================================================================
