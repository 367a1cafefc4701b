------------------------- MODULE MCCollectLifecycle -------------------------
(***************************************************************************)
(* Small instances of CollectLifecycle: a process and its successor.       *)
(***************************************************************************)
EXTENDS CollectLifecycle

CONSTANTS first, second, a, b

MCProcesses == {first, second}
TwoRequests == {a, b}
BothTransports == {"http", "grpc"}
HTTPOnly == {"http"}
=============================================================================
