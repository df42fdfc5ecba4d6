---------------------------- MODULE MCNetworkFS ----------------------------
(* One sender and one receiver, for TLC, and what the code says of the tree *)
(* that is handed over, and of merges.                                      *)
EXTENDS NetworkFS

MCNames == {<<1>>, <<2, 3>>}
MCRootNames == {<<>>}
MCNodes == {<<192, 168, 0, 1>>}

\* c_api.cpp:29 asserts that the bytes SetFilesystem was given are deserialized
\* ("assert(FileSystem::NetworkFS::DeserializeToFileContent(serialized, deserialized))"):
\* what was sent whole is accepted there too.
WholeIsSet == [][SetFilesystem => status' # "aborted"]_vars
=============================================================================
