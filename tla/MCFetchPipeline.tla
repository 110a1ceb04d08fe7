-------------------------- MODULE MCFetchPipeline --------------------------
(* Small instances of FetchPipeline.                                       *)
EXTENDS FetchPipeline

CONSTANTS f1, w1, r1, none

MCOneFeed == {f1}
MCOneWorker == {w1}
MCOneRequest == {r1}
MCNone == {}
=============================================================================
