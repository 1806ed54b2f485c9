----------------------- MODULE MCRemediationGenerator -----------------------
(* Two emitting threads (the analyzer's worker and the log monitor on a cache *)
(* hit), one export thread, one problem: every interleaving of their reads    *)
(* and writes of one file.                                                    *)
EXTENDS RemediationGenerator

CONSTANT leak

(* one inference for two occurrences, and a cache hit                         *)
InferredAndCached ==
    {[problem |-> leak, at |-> 1, occurrences |-> 2, cached |-> FALSE],
     [problem |-> leak, at |-> 0, occurrences |-> 1, cached |-> TRUE]}
=============================================================================
