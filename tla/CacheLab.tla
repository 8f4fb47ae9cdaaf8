------------------------------ MODULE CacheLab ------------------------------
(***************************************************************************)
(* The two halves of cache_lab together: the simulator replays either any  *)
(* short trace, on small caches, or the accesses of a transpose on the     *)
(* cache it is written for ("a 1KB direct mapped cache with a block size   *)
(* of 32 bytes", trans.c:7-8).                                             *)
(***************************************************************************)
EXTENDS Trans

CONSTANTS Shapes,          \* the pairs <<M, N>> to transpose
          TraceAddrs,      \* the addresses of a trace
          MaxAccesses      \* bound: hits and misses in a trace

\* REQUIRES(M > 0) and REQUIRES(N > 0), trans.c:50-51.
ASSUME ShapesAssumption == \A shape \in Shapes : shape[1] \in Nat \ {0} /\ shape[2] \in Nat \ {0}
ASSUME TraceAddrsAssumption == TraceAddrs \subseteq Nat

Lab == [s |-> 5, E |-> 1, b |-> 5]

ASSUME LabAssumption == Lab \in Args

vars == <<csimVars, transVars>>

Tracing == M = 0

Init == /\ \/ /\ M = 0 /\ N = 0 /\ args \in Args \ {Lab}
           \/ /\ \E shape \in Shapes : M = shape[1] /\ N = shape[2]
              /\ args = Lab
        /\ ConstructCacheIns
        /\ type = "I" /\ addr = 0
        /\ Begin

\* One iteration of DoSim's loop, over a trace that may hold anything.
DoSim == /\ Tracing
         /\ cache.hitCount + cache.missCount < MaxAccesses
         /\ \E t \in Types, a \in TraceAddrs : SimOneInstruction(t, a)
         /\ UNCHANGED transVars

\* The trace is at its end, or the transpose has returned.
Finished == /\ todo = <<>>
            /\ Tracing => cache.hitCount + cache.missCount >= MaxAccesses
            /\ UNCHANGED vars

Next == DoSim \/ AccessOne \/ Finished

Spec == Init /\ [][Next]_vars

\* The transposes are straight-line code: they do not stop half-way.
FairSpec == Spec /\ WF_vars(AccessOne)

=============================================================================
