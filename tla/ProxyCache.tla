----------------------------- MODULE ProxyCache -----------------------------
(***************************************************************************)
(* proxy_lab/cache.c as the proxy's workers use it: each request looks its *)
(* tag up with read_cache and, on a miss, stores the object it fetched     *)
(* with write_cache.                                                       *)
(*                                                                         *)
(* One action per semaphore operation, per access to read_cnt or cp->head  *)
(* outside the lock, and per node visited by the two walks.  What          *)
(* write_cache does between P(&w_mutex) and V(&w_mutex) is one action per  *)
(* remove_oldest and one for add_to_cache_head.                            *)
(*                                                                         *)
(* Nodes live at addresses that malloc may hand out again after free.      *)
(* The walks begin at a head read before the lock and can meet a freed     *)
(* node.  The code does not notice: the tag it compares, the size and data *)
(* it copies, the link it follows and the age it writes are whatever is    *)
(* there by now, and if that is not even a pointer it faults.              *)
(***************************************************************************)
EXTENDS Integers, FiniteSets, FiniteSetsExt

CONSTANTS Workers,         \* the threads of the proxy's pool
          Tags,            \* host:port/path of the objects requested
          Sizes,           \* the sizes of the objects origin servers answer with
          Addrs,           \* where malloc may put a cache_item
          Nil,             \* the NULL pointer
          MaxCacheSize, MaxObjectSize,  \* as in cache.h
          AgeMod,          \* ages are unsigned ints: they wrap at AgeMod
          MaxRequests      \* bound: requests served in a behaviour

ASSUME NilAssumption == Nil \notin Addrs /\ Nil \notin Tags
ASSUME SizesAssumption == /\ Sizes \subseteq Nat
                          /\ MaxObjectSize \in Nat /\ MaxCacheSize \in Nat
                          /\ MaxObjectSize <= MaxCacheSize
ASSUME AgeAssumption == AgeMod \in Nat /\ AgeMod > 1
ASSUME FiniteAssumption == IsFiniteSet(Workers) /\ IsFiniteSet(Addrs) /\ MaxRequests \in Nat

VARIABLES heap,                   \* the cache_item at each address, and whether it is allocated
          head, total_size, cache_cnt,  \* *cp
          read_cnt, r_mutex, w_mutex,   \* the static variables
          pc,                     \* where each worker is
          ptr, found,             \* the locals ptr and find (in find_hit), get (in get_hit)
          tag, size,              \* the object a worker looks up, reads or stores
          requests,               \* how many requests have begun
          since,                  \* (history) what befell each worker since it last read cp->head
          ruined                  \* a worker has faulted, or has written where it should not have:
                                  \* nothing is known of the process any more

list == <<heap, head, total_size, cache_cnt>>
sems == <<read_cnt, r_mutex, w_mutex>>
vars == <<list, sems, pc, ptr, found, tag, size, requests, since, ruined>>

Points == {"idle", "readLock", "readCount", "readWait", "readUnlock", "find", "leaveCount",
           "leaveUnlock", "getHead", "getLock", "get", "fetch", "writeLock", "write", "writeUnlock"}

NoNode == [tag |-> Nil, size |-> 0, age |-> 0, next |-> Nil, live |-> FALSE]

Init == /\ heap = [a \in Addrs |-> NoNode]
        /\ head = Nil /\ total_size = 0 /\ cache_cnt = 0
        /\ read_cnt = 0 /\ r_mutex = 1 /\ w_mutex = 1
        /\ pc = [w \in Workers |-> "idle"]
        /\ ptr = [w \in Workers |-> Nil]
        /\ found = [w \in Workers |-> FALSE]
        /\ tag = [w \in Workers |-> Nil]
        /\ size = [w \in Workers |-> 0]
        /\ since = [w \in Workers |-> {}]
        /\ requests = 0 /\ ruined = FALSE

Goto(w, from, to) == /\ ~ruined
                     /\ pc[w] = from
                     /\ pc' = [pc EXCEPT ![w] = to]

\* The first nodes of the chain of next fields that starts at `start'.
Nodes(start) ==
    LET nth[k \in 0 .. Cardinality(Addrs)] ==
          IF k = 0 THEN start ELSE IF nth[k - 1] = Nil THEN Nil ELSE heap[nth[k - 1]].next
    IN  nth

Reach(start) == {Nodes(start)[k] : k \in 0 .. Cardinality(Addrs)} \ {Nil}

Older(age) == (age + 1) % AgeMod

\* A node has been evicted, or an object stored under the worker's tag, by
\* somebody else; a walk has gone by what a freed node holds.
Events == {"evicted", "stored", "strayed"}
Befalls(event, those) == since' = [v \in Workers |-> IF v \in those THEN since[v] \cup {event} ELSE since[v]]

\* The age of an object just stored or read.
FirstAge == 1

---------------------------------------------------------------------------
(* read_cache: find_hit *)

\* cp->head is read before any lock is taken.
Request(w, t) == /\ requests < MaxRequests
                 /\ Goto(w, "idle", "readLock")
                 /\ requests' = requests + 1
                 /\ tag' = [tag EXCEPT ![w] = t]
                 /\ ptr' = [ptr EXCEPT ![w] = head]
                 /\ found' = [found EXCEPT ![w] = FALSE]
                 /\ size' = [size EXCEPT ![w] = 0]
                 /\ since' = [since EXCEPT ![w] = {}]
                 /\ UNCHANGED <<list, sems, ruined>>

ReadLock(w) == /\ r_mutex > 0
               /\ r_mutex' = r_mutex - 1
               /\ Goto(w, "readLock", "readCount")
               /\ UNCHANGED <<list, read_cnt, w_mutex, ptr, found, tag, size, requests, since, ruined>>

ReadCount(w) == /\ read_cnt' = read_cnt + 1
                /\ Goto(w, "readCount", IF read_cnt' = 1 THEN "readWait" ELSE "readUnlock")
                /\ UNCHANGED <<list, r_mutex, w_mutex, ptr, found, tag, size, requests, since, ruined>>

ReadWait(w) == /\ w_mutex > 0
               /\ w_mutex' = w_mutex - 1
               /\ Goto(w, "readWait", "readUnlock")
               /\ UNCHANGED <<list, read_cnt, r_mutex, ptr, found, tag, size, requests, since, ruined>>

ReadUnlock(w) == /\ r_mutex' = r_mutex + 1
                 /\ Goto(w, "readUnlock", "find")
                 /\ UNCHANGED <<list, read_cnt, w_mutex, ptr, found, tag, size, requests, since, ruined>>

\* A walk dereferences the node its ptr points to.  Of a freed one it may read
\* any tag and any size, and the link free left in it or nothing.
Visits(w, point) == ~ruined /\ pc[w] = point /\ ptr[w] # Nil
OnFreed(w) == ~heap[ptr[w]].live
Looks(w) == Befalls("strayed", IF OnFreed(w) THEN {w} ELSE {})
Matches(w) == OnFreed(w) \/ heap[ptr[w]].tag = tag[w]
Differs(w) == OnFreed(w) \/ heap[ptr[w]].tag # tag[w]
SizesRead(w) == IF OnFreed(w) THEN Sizes ELSE {heap[ptr[w]].size}
LinksRead(w) == {heap[ptr[w]].next} \cup (IF OnFreed(w) THEN {Nil} ELSE {})
Advance(w) == \E next \in LinksRead(w) : ptr' = [ptr EXCEPT ![w] = next]

FindMatch(w) == /\ Visits(w, "find") /\ ~found[w]
                /\ Matches(w)
                /\ found' = [found EXCEPT ![w] = TRUE]
                /\ Looks(w)
                /\ UNCHANGED <<list, sems, pc, ptr, tag, size, requests, ruined>>

FindNext(w) == /\ Visits(w, "find") /\ ~found[w]
               /\ Differs(w)
               /\ Advance(w)
               /\ Looks(w)
               /\ UNCHANGED <<list, sems, pc, found, tag, size, requests, ruined>>

\* The walk of find_hit ends at a match or at the end of the list.
LeaveLock(w) == /\ found[w] \/ ptr[w] = Nil
                /\ r_mutex > 0
                /\ r_mutex' = r_mutex - 1
                /\ Goto(w, "find", "leaveCount")
                /\ UNCHANGED <<list, read_cnt, w_mutex, ptr, found, tag, size, requests, since, ruined>>

\* Mutants: the last reader but one opens w_mutex; nobody opens it.
LeaveCountEarly(w) == /\ read_cnt' = read_cnt - 1
                      /\ w_mutex' = IF read_cnt' <= 1 THEN w_mutex + 1 ELSE w_mutex
                      /\ Goto(w, "leaveCount", "leaveUnlock")
                      /\ UNCHANGED <<list, r_mutex, ptr, found, tag, size, requests, since, ruined>>

LeaveCountLocked(w) == /\ read_cnt' = read_cnt - 1
                       /\ Goto(w, "leaveCount", "leaveUnlock")
                       /\ UNCHANGED <<list, r_mutex, w_mutex, ptr, found, tag, size, requests, since, ruined>>

LeaveCount(w) == /\ read_cnt' = read_cnt - 1
                 /\ w_mutex' = IF read_cnt' = 0 THEN w_mutex + 1 ELSE w_mutex
                 /\ Goto(w, "leaveCount", "leaveUnlock")
                 /\ UNCHANGED <<list, r_mutex, ptr, found, tag, size, requests, since, ruined>>

LeaveUnlock(w) == /\ r_mutex' = r_mutex + 1
                  /\ Goto(w, "leaveUnlock", IF found[w] THEN "getHead" ELSE "fetch")
                  /\ UNCHANGED <<list, read_cnt, w_mutex, ptr, found, tag, size, requests, since, ruined>>

---------------------------------------------------------------------------
(* read_cache: get_hit *)

\* cp->head is again read before the lock is taken.
GetHead(w) == /\ Goto(w, "getHead", "getLock")
              /\ ptr' = [ptr EXCEPT ![w] = head]
              /\ found' = [found EXCEPT ![w] = FALSE]
              /\ since' = [since EXCEPT ![w] = {}]
              /\ UNCHANGED <<list, sems, tag, size, requests, ruined>>

GetLock(w) == /\ w_mutex > 0
              /\ w_mutex' = w_mutex - 1
              /\ Goto(w, "getLock", "get")
              /\ UNCHANGED <<list, read_cnt, r_mutex, ptr, found, tag, size, requests, since, ruined>>

\* The walk goes on after a match: of two nodes with the tag the last is read.
GetMatch(w) == /\ Visits(w, "get")
               /\ Matches(w)
               /\ found' = [found EXCEPT ![w] = TRUE]
               /\ \E n \in SizesRead(w) : size' = [size EXCEPT ![w] = n]
               /\ heap' = [heap EXCEPT ![ptr[w]].age = FirstAge]
               /\ Advance(w)
               /\ Looks(w)
               /\ UNCHANGED <<head, total_size, cache_cnt, sems, pc, tag, requests, ruined>>

GetNext(w) == /\ Visits(w, "get")
              /\ Differs(w)
              /\ heap' = [heap EXCEPT ![ptr[w]].age = Older(@)]
              /\ Advance(w)
              /\ Looks(w)
              /\ UNCHANGED <<head, total_size, cache_cnt, sems, pc, found, tag, size, requests, ruined>>

\* Mutant: read_cache returns 1 whatever get_hit returns.
GetUnlockHit(w) == /\ ptr[w] = Nil
                   /\ w_mutex' = w_mutex + 1
                   /\ Goto(w, "get", "idle")
                   /\ UNCHANGED <<list, read_cnt, r_mutex, ptr, found, tag, size, requests, since, ruined>>

GetUnlock(w) == /\ ptr[w] = Nil
                /\ w_mutex' = w_mutex + 1
                /\ Goto(w, "get", IF found[w] THEN "idle" ELSE "fetch")
                /\ UNCHANGED <<list, read_cnt, r_mutex, ptr, found, tag, size, requests, since, ruined>>

\* What is left of a freed node is no pointer, and the walk faults, here or
\* where it leads; or it is of another's memory, and what get_hit copies, or
\* the age it writes, is too long or in the wrong place.
Ruin(w) == /\ (Visits(w, "find") /\ ~found[w]) \/ Visits(w, "get")
           /\ OnFreed(w)
           /\ ruined' = TRUE
           /\ UNCHANGED <<list, sems, pc, ptr, found, tag, size, requests, since>>

---------------------------------------------------------------------------
(* write_cache *)

\* The object fetched has size n; one above MaxObjectSize is not stored.
Fetch(w, n) == /\ Goto(w, "fetch", IF n > MaxObjectSize THEN "idle" ELSE "writeLock")
               /\ size' = [size EXCEPT ![w] = n]
               /\ UNCHANGED <<list, sems, ptr, found, tag, requests, since, ruined>>

WriteLock(w) == /\ w_mutex > 0
                /\ w_mutex' = w_mutex - 1
                /\ Goto(w, "writeLock", "write")
                /\ UNCHANGED <<list, read_cnt, r_mutex, ptr, found, tag, size, requests, since, ruined>>

Full(w) == size[w] + total_size > MaxCacheSize

\* Mutant: the least age is chosen.
Youngest(k) == /\ Nodes(head)[k] # Nil
               /\ \A a \in Reach(head) : heap[a].age >= heap[Nodes(head)[k]].age

\* remove_oldest's choice: of the greatest age above zero, the node met first.
Oldest(k) == LET node == Nodes(head)
             IN  /\ node[k] # Nil /\ heap[node[k]].age > 0
                 /\ \A j \in 0 .. Cardinality(Addrs) :
                      node[j] # Nil => \/ heap[node[j]].age < heap[node[k]].age
                                       \/ heap[node[j]].age = heap[node[k]].age /\ j >= k

\* Mutants: the head, or the node before, still leads to the node freed.
UnlinkKeepsHead(k) ==
    /\ heap' = [heap EXCEPT ![Nodes(head)[k]].live = FALSE]
    /\ UNCHANGED head

UnlinkHeadOnly(k) ==
    /\ head' = IF k = 0 THEN heap[head].next ELSE head
    /\ heap' = [heap EXCEPT ![Nodes(head)[k]].live = FALSE]

\* The k-th node is taken out of the list and freed.
Unlink(k) ==
    LET old == Nodes(head)[k] IN
    /\ head' = IF k = 0 THEN heap[old].next ELSE head
    /\ heap' = [a \in Addrs |->
                  IF a = old THEN [heap[a] EXCEPT !.live = FALSE]
                  ELSE IF k > 0 /\ a = Nodes(head)[k - 1]
                       THEN [heap[a] EXCEPT !.next = heap[old].next]
                       ELSE heap[a]]

RemoveOldest(w) ==
    /\ ~ruined /\ pc[w] = "write" /\ Full(w)
    /\ \E k \in 0 .. Cardinality(Addrs) :
         /\ Oldest(k)
         /\ Unlink(k)
         /\ total_size' = total_size - heap[Nodes(head)[k]].size
         /\ cache_cnt' = cache_cnt - 1
    /\ Befalls("evicted", Workers \ {w})
    /\ UNCHANGED <<sems, pc, ptr, found, tag, size, requests, ruined>>

AddToCacheHead(w) ==
    /\ Goto(w, "write", "writeUnlock")
    /\ ~Full(w)
    /\ \E a \in Addrs :
         /\ ~heap[a].live
         /\ heap' = [b \in Addrs |->
                       IF b = a THEN [tag |-> tag[w], size |-> size[w], age |-> FirstAge, next |-> head, live |-> TRUE]
                       ELSE IF b \in Reach(head) THEN [heap[b] EXCEPT !.age = Older(@)]
                       ELSE heap[b]]
         /\ head' = a
    /\ total_size' = total_size + size[w]
    /\ cache_cnt' = cache_cnt + 1
    /\ Befalls("stored", {v \in Workers \ {w} : tag[v] = tag[w]})
    /\ UNCHANGED <<sems, ptr, found, tag, size, requests, ruined>>

WriteUnlock(w) == /\ w_mutex' = w_mutex + 1
                  /\ Goto(w, "writeUnlock", "idle")
                  /\ UNCHANGED <<list, read_cnt, r_mutex, ptr, found, tag, size, requests, since, ruined>>

---------------------------------------------------------------------------
FindHit(w) == \/ ReadLock(w) \/ ReadCount(w) \/ ReadWait(w) \/ ReadUnlock(w)
              \/ FindMatch(w) \/ FindNext(w)
              \/ LeaveLock(w) \/ LeaveCount(w) \/ LeaveUnlock(w)
GetHit(w) == GetHead(w) \/ GetLock(w) \/ GetMatch(w) \/ GetNext(w) \/ GetUnlock(w)
WriteCache(w) == WriteLock(w) \/ RemoveOldest(w) \/ AddToCacheHead(w) \/ WriteUnlock(w)

Step(w) == FindHit(w) \/ GetHit(w) \/ Ruin(w) \/ (\E n \in Sizes : Fetch(w, n)) \/ WriteCache(w)

\* The bound is reached and every worker is back, or nothing is known.
Ended == /\ ruined \/ (requests = MaxRequests /\ \A w \in Workers : pc[w] = "idle")
         /\ UNCHANGED vars

Next == \/ \E w \in Workers : (\E t \in Tags : Request(w, t)) \/ Step(w)
        \/ Ended

Spec == Init /\ [][Next]_vars

\* A worker that can take its next step keeps running.
FairSpec == Spec /\ \A w \in Workers : WF_vars(Step(w))

---------------------------------------------------------------------------
(* Safety *)

Cached == Reach(head)
At(points) == {w \in Workers : pc[w] \in points}

Node == [tag : Tags \cup {Nil}, size : Nat, age : 0 .. AgeMod - 1, next : Addrs \cup {Nil}, live : BOOLEAN]

TypeOK == /\ heap \in [Addrs -> Node]
          /\ head \in Addrs \cup {Nil} /\ total_size \in 0 .. MaxCacheSize /\ cache_cnt \in 0 .. Cardinality(Addrs)
          /\ read_cnt \in 0 .. Cardinality(Workers) /\ r_mutex \in {0, 1} /\ w_mutex \in {0, 1}
          /\ pc \in [Workers -> Points]
          /\ ptr \in [Workers -> Addrs \cup {Nil}] /\ found \in [Workers -> BOOLEAN]
          /\ tag \in [Workers -> Tags \cup {Nil}] /\ size \in [Workers -> Nat]
          /\ requests \in 0 .. MaxRequests /\ ruined \in BOOLEAN
          /\ since \in [Workers -> SUBSET Events]

\* The list reaches every allocated node and no other, ends, and total_size
\* and cache_cnt are what its nodes add up to.
LedgerMatchesList ==
    /\ Cached = {a \in Addrs : heap[a].live}
    /\ Nodes(head)[Cardinality(Addrs)] = Nil
    /\ total_size = MapThenSumSet(LAMBDA a : heap[a].size, Cached)
    /\ cache_cnt = Cardinality(Cached)

Counted == At({"readWait", "readUnlock", "find", "leaveCount"})
Reading == At({"readUnlock", "find", "leaveCount"})
Writing == At({"get", "write", "writeUnlock"})

\* read_cnt counts the readers whoever of them came first or leaves last, and
\* nobody reads the list while another thread may change it.
ReadersExcludeWriters ==
    /\ read_cnt = Cardinality(Counted)
    /\ w_mutex + Cardinality(Writing) + (IF Reading # {} THEN 1 ELSE 0) = 1
    /\ r_mutex + Cardinality(At({"readCount", "readWait", "readUnlock", "leaveCount", "leaveUnlock"})) = 1

\* When space is short there is a node to evict: the loop of write_cache,
\* which holds w_mutex, does not spin.
EvictionProgresses ==
    \A w \in Workers : ~ruined /\ pc[w] = "write" /\ Full(w) => \E a \in Cached : heap[a].age > 0

\* The list, its totals and its ages fit together whoever is where.
ListSound == TypeOK /\ LedgerMatchesList /\ EvictionProgresses

\* What a lock taken before a list is read is for: no walk stands on a node
\* that has been freed.  It does not hold, as cp->head is read before the lock.
WalksLiveNodes ==
    \A w \in Workers : Visits(w, "find") \/ Visits(w, "get") => ~OnFreed(w)

\* What does hold: a walk stands on a freed node only if another worker has
\* evicted something since this one read cp->head,
StraysOnlyIfOvertaken ==
    \A w \in Workers : "evicted" \notin since[w] =>
        /\ "strayed" \notin since[w]
        /\ Visits(w, "find") \/ Visits(w, "get") => ~OnFreed(w)

\* and an object is stored beside one with its tag only if another worker has
\* stored that one, or evicted something, since the walk that missed began.
StoresTwiceOnlyInRace ==
    \A w \in Workers : pc[w] \in {"fetch", "writeLock", "write"} /\ since[w] \cap {"evicted", "stored"} = {} =>
        \A a \in Cached : heap[a].tag # tag[w]

\* A lookup is as good as one by a lone worker unless another's eviction or
\* store falls between its reading of cp->head, outside the lock, and its end.
OnlyRacesGoWrong == StraysOnlyIfOvertaken /\ StoresTwiceOnlyInRace

---------------------------------------------------------------------------
(* Refinement: what concurrent workers may rely on.  A hit takes effect when *)
(* get_hit lets go of w_mutex, a store when the node is linked.            *)

\* The size of a hit is the caller's only once get_hit returns.
ObjectPhase(w) ==
    CASE pc[w] \in {"idle", "writeUnlock"} -> "idle"
      [] pc[w] = "fetch" -> "missed"
      [] pc[w] \in {"writeLock", "write"} -> "storing"
      [] OTHER -> IF "strayed" \in since[w] THEN "astray" ELSE "looking"

LookingUp(w) == ObjectPhase(w) \in {"looking", "astray"}

ObjectCall == [w \in Workers |-> [phase |-> ObjectPhase(w), tag |-> tag[w],
                                  size |-> IF LookingUp(w) \/ ObjectPhase(w) = "missed" THEN 0 ELSE size[w]]]

Overtaken == {w \in Workers : LookingUp(w) /\ "evicted" \in since[w]}

Objects == INSTANCE ObjectCache
             WITH Ids <- Addrs,
                  stored <- [a \in Cached |-> [tag |-> heap[a].tag, size |-> heap[a].size]],
                  call <- ObjectCall,
                  overtaken <- Overtaken

\* Every behaviour of the list and its locks is one of the abstract cache:
\* what is wrong with a hit comes of an eviction during the lookup, and of
\* nothing else.
ImplementsObjectCache == Objects!Spec

---------------------------------------------------------------------------
(* Refinement: with one worker, strict LRU.                                *)

\* The age a node will have once a walk of get_hit under way is over.
AgeAfterWalk(a) ==
    IF \E w \in Workers : pc[w] = "get" /\ a \in Reach(ptr[w])
    THEN IF \E w \in Workers : pc[w] = "get" /\ heap[a].tag = tag[w] THEN FirstAge ELSE Older(heap[a].age)
    ELSE heap[a].age

\* The cached objects, youngest first.
ByAge == [k \in 1 .. Cardinality(Cached) |->
            LET a == CHOOSE b \in Cached :
                       Cardinality({c \in Cached : AgeAfterWalk(c) <= AgeAfterWalk(b)}) = k
            IN  [tag |-> heap[a].tag, size |-> heap[a].size]]

Solo == CHOOSE w \in Workers : TRUE

LruPhase == IF pc[Solo] = "get" THEN "hit" ELSE ObjectPhase(Solo)

Lru == INSTANCE LruCache
         WITH order <- ByAge,
              call <- [phase |-> LruPhase, tag |-> tag[Solo],
                       size |-> IF LruPhase \in {"looking", "missed", "hit"} THEN 0 ELSE size[Solo]]

\* What a lone worker sees is an LRU cache.
ImplementsLru == Lru!Spec

---------------------------------------------------------------------------
(* Liveness *)

\* A request that has begun is answered, unless a freed node undoes it: no one
\* waits for ever on a semaphore nobody will release.
RequestsAnswered == \A w \in Workers : pc[w] # "idle" ~> pc[w] = "idle" \/ ruined

=============================================================================
