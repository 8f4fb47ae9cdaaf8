---------------------------- MODULE ObjectCache ----------------------------
(***************************************************************************)
(* What proxy_lab/cache.c promises the proxy's workers when they use it    *)
(* together: a lookup that hits returns an object that was stored under    *)
(* its tag and has not been evicted, an object is evicted only to make     *)
(* room for one that does not fit, and the cache never outgrows its bound. *)
(* A lookup may miss whatever is stored: between read_cache's two passes   *)
(* the object may go.                                                      *)
(*                                                                         *)
(* One thing is not promised.  A lookup during which another worker evicts *)
(* may be following the evicted object, and then return anything, or ruin  *)
(* the process.                                                            *)
(***************************************************************************)
EXTENDS Naturals, FiniteSetsExt

CONSTANTS Workers, Tags, Sizes,
          Ids,      \* what tells two stored objects apart
          Nil,      \* no tag
          MaxCacheSize, MaxObjectSize

VARIABLES stored,   \* the stored objects: a function from ids to [tag, size]
          call,     \* each worker's call
          overtaken,  \* those during whose lookup another has evicted something
          ruined    \* nothing is promised any more

cacheVars == <<stored, call, overtaken, ruined>>

Used == MapThenSumSet(LAMBDA i : stored[i].size, DOMAIN stored)

Init == /\ stored = [i \in {} |-> 0]
        /\ call = [w \in Workers |-> [phase |-> "idle", tag |-> Nil, size |-> 0]]
        /\ overtaken = {} /\ ruined = FALSE

InLookup(w) == call[w].phase \in {"looking", "astray"}

Becomes(w, phase, t, n) ==
    /\ call' = [call EXCEPT ![w] = [phase |-> phase, tag |-> t, size |-> n]]
    /\ overtaken' = overtaken \ {w}

Lookup(w, t) == /\ call[w].phase = "idle"
                /\ Becomes(w, "looking", t, 0)
                /\ UNCHANGED <<stored, ruined>>

\* The lookup begins anew, with the objects there are now.
LookAgain(w) == /\ InLookup(w)
                /\ Becomes(w, "looking", call[w].tag, 0)
                /\ UNCHANGED <<stored, ruined>>

Stray(w) == /\ call[w].phase = "looking" /\ w \in overtaken
            /\ call' = [call EXCEPT ![w].phase = "astray"]
            /\ UNCHANGED <<stored, overtaken, ruined>>

Hit(w) == /\ \/ /\ call[w].phase = "looking"
                /\ \E i \in DOMAIN stored : /\ stored[i].tag = call[w].tag
                                            /\ Becomes(w, "idle", call[w].tag, stored[i].size)
             \/ /\ call[w].phase = "astray"
                /\ \E n \in Sizes : Becomes(w, "idle", call[w].tag, n)
          /\ UNCHANGED <<stored, ruined>>

Ruin(w) == /\ w \in overtaken
           /\ ruined' = TRUE
           /\ UNCHANGED <<stored, call, overtaken>>

Miss(w) == /\ InLookup(w)
           /\ Becomes(w, "missed", call[w].tag, 0)
           /\ UNCHANGED <<stored, ruined>>

\* The object fetched after a miss; too large a one is not stored.
Offer(w, n) == /\ call[w].phase = "missed"
               /\ Becomes(w, IF n > MaxObjectSize THEN "idle" ELSE "storing", call[w].tag, n)
               /\ UNCHANGED <<stored, ruined>>

Fits(w) == Used + call[w].size <= MaxCacheSize

\* Lookups under way are overtaken.
Evict(w) == /\ call[w].phase = "storing" /\ ~Fits(w)
            /\ \E i \in DOMAIN stored : stored' = [j \in DOMAIN stored \ {i} |-> stored[j]]
            /\ overtaken' = {v \in Workers : InLookup(v)}
            /\ UNCHANGED <<call, ruined>>

Store(w) == /\ call[w].phase = "storing" /\ Fits(w)
            /\ \E i \in Ids \ DOMAIN stored :
                 stored' = [j \in DOMAIN stored \cup {i} |->
                              IF j = i THEN [tag |-> call[w].tag, size |-> call[w].size] ELSE stored[j]]
            /\ Becomes(w, "idle", call[w].tag, call[w].size)
            /\ UNCHANGED ruined

Next == /\ ~ruined
        /\ \E w \in Workers : \/ \E t \in Tags : Lookup(w, t)
                              \/ LookAgain(w) \/ Stray(w) \/ Hit(w) \/ Ruin(w) \/ Miss(w)
                              \/ \E n \in Sizes : Offer(w, n)
                              \/ Evict(w) \/ Store(w)

Spec == Init /\ [][Next]_cacheVars

=============================================================================
