----------------------------- MODULE MCShutdown -----------------------------
(* Small instances of Shutdown.                                            *)
EXTENDS Shutdown

CONSTANTS f1, f2, w1, w2, r1, none

MCFeed == {f1, f2}
MCWorker == {w1, w2}
MCOneRequest == {r1}
MCNone == {}
=============================================================================
