---------------------------- MODULE MCWriteQueue ----------------------------
(* Small instances of WriteQueue.                                          *)
EXTENDS WriteQueue

CONSTANTS j1, j2, j3, j4

MCJob4 == {j1, j2, j3, j4}
MCJob3 == {j1, j2, j3}
MCSync == {j1, j2}
=============================================================================
