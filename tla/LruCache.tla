------------------------------ MODULE LruCache ------------------------------
(***************************************************************************)
(* What proxy_lab/cache.c is when one worker uses it: a least-recently-    *)
(* used cache that holds an object at most once, hits whenever the object  *)
(* is there, and evicts from the old end.                                  *)
(***************************************************************************)
EXTENDS Naturals, Sequences, SequencesExt

CONSTANTS Tags, Sizes, Nil, MaxCacheSize, MaxObjectSize

VARIABLES order,   \* the [tag, size] of the stored objects, most recently used first
          call     \* the worker's call

lruVars == <<order, call>>

Used == FoldLeft(LAMBDA sum, object : sum + object.size, 0, order)

Init == order = <<>> /\ call = [phase |-> "idle", tag |-> Nil, size |-> 0]

Lookup(t) == /\ call.phase = "idle"
             /\ call' = [phase |-> "looking", tag |-> t, size |-> 0]
             /\ UNCHANGED order

Hit == /\ call.phase = "looking"
       /\ \E i \in 1 .. Len(order) : /\ order[i].tag = call.tag
                                     /\ order' = <<order[i]>> \o RemoveAt(order, i)
       /\ call' = [call EXCEPT !.phase = "hit"]

\* The caller receives the object the hit has brought to the front.
Return == /\ call.phase = "hit"
          /\ call' = [call EXCEPT !.phase = "idle", !.size = order[1].size]
          /\ UNCHANGED order

Miss == /\ call.phase = "looking"
        /\ \A i \in 1 .. Len(order) : order[i].tag # call.tag
        /\ call' = [call EXCEPT !.phase = "missed"]
        /\ UNCHANGED order

Offer(n) == /\ call.phase = "missed"
            /\ call' = [call EXCEPT !.phase = IF n > MaxObjectSize THEN "idle" ELSE "storing",
                                    !.size = n]
            /\ UNCHANGED order

Evict == /\ call.phase = "storing" /\ Used + call.size > MaxCacheSize
         /\ order' = Front(order)
         /\ UNCHANGED call

Store == /\ call.phase = "storing" /\ Used + call.size <= MaxCacheSize
         /\ order' = <<[tag |-> call.tag, size |-> call.size]>> \o order
         /\ call' = [call EXCEPT !.phase = "idle"]

Next == \/ \E t \in Tags : Lookup(t)
        \/ Hit \/ Return \/ Miss
        \/ \E n \in Sizes : Offer(n)
        \/ Evict \/ Store

Spec == Init /\ [][Next]_lruVars

=============================================================================
