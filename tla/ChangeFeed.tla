----------------------------- MODULE ChangeFeed -----------------------------
(***************************************************************************)
(* What a FileTracker promises whoever polls it: a first-in first-out feed *)
(* of names, each of which was tracked before its first report, with       *)
(* nothing new once the listener has ended.  A data race on the maps voids *)
(* the promise (corrupt).                                                  *)
(***************************************************************************)
EXTENDS Sequences

CONSTANT Subjects     \* everything that can be tracked: names and folders

VARIABLES tracked, pending, listening, corrupt

feedVars == <<tracked, pending, listening, corrupt>>

FeedInit ==
  /\ tracked = {}
  /\ pending = <<>>
  /\ listening = TRUE
  /\ corrupt = FALSE

Track(s) == tracked' = tracked \cup {s} /\ UNCHANGED <<pending, listening, corrupt>>

Report(s) ==
  /\ listening
  /\ s \in tracked
  /\ pending' = Append(pending, s)
  /\ UNCHANGED <<tracked, listening, corrupt>>

Take ==
  /\ pending # <<>>
  /\ pending' = Tail(pending)
  /\ UNCHANGED <<tracked, listening, corrupt>>

End == listening' = FALSE /\ UNCHANGED <<tracked, pending, corrupt>>

FeedNext == (\E s \in Subjects : Track(s) \/ Report(s)) \/ Take \/ End

FeedSpec == FeedInit /\ [][FeedNext \/ corrupt']_feedVars
=============================================================================
