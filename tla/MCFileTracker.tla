---------------------------- MODULE MCFileTracker ---------------------------
(* Instances of FileTracker for TLC.                                       *)
EXTENDS FileTracker

CONSTANTS n1, n2, p1, p2, d

\* Every name its own file.
PathOfDistinct == [n \in Names |-> IF n = n1 THEN p1 ELSE p2]
\* Both names lead to p1 (a relative and an absolute path, or a symbolic link).
PathOfAliases == [n \in Names |-> p1]

FolderOfD == [p \in Paths |-> d]

WriteOption == {{"WriteChange"}}

\* Callers that track files only, as runtime.cpp does.
FilesOnly == cpc' # "insert_folder"
SpecFiles == Init /\ [][Next /\ FilesOnly]_vars
FairSpecFiles == SpecFiles /\ WF_vars(Listener) /\ WF_vars(CallerInside)
                           /\ SF_vars(TryPopChangeInfo)

\* Callers that track files only, and each name once.
Once == cpc = "idle" /\ cpc' = "insert_name" => cname' \notin DOMAIN name_to_file_handle
SpecOnce == Init /\ [][Next /\ FilesOnly /\ Once /\ ~stop_listening']_vars
=============================================================================
