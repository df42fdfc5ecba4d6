---------------------------- MODULE MCFileCache ----------------------------
(* Instances of FileCache for TLC, and what the C API says of it.          *)
EXTENDS FileCache

CONSTANTS a1, a2

Bytes == {<<7>>}

\* c_api.cpp:39 "Queries if the file from this ip_addr is cached currently".
TellsIfCached ==
  answer.call = "IsFileCached" => (answer.value <=> Of(answer.name, answer.node) # {})
=============================================================================
