------------------------------ MODULE MCDaemon -------------------------------
(* Instances of Daemon for TLC.                                            *)
EXTENDS Daemon

CONSTANTS a, b, p1, p2, d

\* One name is the beginning of the other; neither is.
NameAndLonger == {<<a>>, <<a, b>>}
TwoNames == {<<a>>, <<b>>}
OneName == {<<a>>}

PathOfDistinct == [n \in Names |-> IF n = <<a>> THEN p1 ELSE p2]
\* Two names of one file.
PathOfAliases == [n \in Names |-> p1]
FolderOfD == [p \in Paths |-> d]
WriteOption == {{"WriteChange"}}

Common == {"TrackThisFile", "EchoMessage"}

\* Other programs only write to the files, which all exist, and the client
\* does not hang up.
OnlyWrites == inode' = inode /\ DOMAIN watch \subseteq DOMAIN watch' /\ client' # "closed"
DaemonInitWrites ==
  /\ DaemonInit
  /\ \A p \in Paths : inode[p] = IF p = p1 THEN 1 ELSE 2
FairDaemonSpecWrites ==
  /\ DaemonInitWrites
  /\ [][DaemonNext /\ OnlyWrites]_allVars
  /\ WF_allVars(Main) /\ WF_allVars(ListenerThread) /\ WF_allVars(Receive)
=============================================================================
