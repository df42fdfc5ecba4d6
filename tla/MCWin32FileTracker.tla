------------------------- MODULE MCWin32FileTracker -------------------------
(* Instances of Win32FileTracker for TLC.                                  *)
EXTENDS Win32FileTracker

CONSTANTS d1, d2, n1, n2
=============================================================================
