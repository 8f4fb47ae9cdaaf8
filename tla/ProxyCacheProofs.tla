-------------------------- MODULE ProxyCacheProofs --------------------------
(***************************************************************************)
(* The locks, the list and the promise of ProxyCache, for any number of    *)
(* workers, tags, addresses and sizes.                                     *)
(*                                                                         *)
(* The argument has six parts, each on top of those before it.             *)
(*   - IInv: readers exclude writers.  It looks at the semaphores, at      *)
(*     read_cnt and at where the workers are, and at nothing else.         *)
(*   - CInv: head leads to the live nodes, each once, and the totals match *)
(*     them.  Only the holder of w_mutex changes any of these.             *)
(*   - AInv: how far ages can grow.  A request ages a node twice at most.  *)
(*   - SInv: a walk is in the list until another worker evicts, and has    *)
(*     ahead of it what it looks for until another stores or evicts.       *)
(*   - HInv: what a hit copies is in the list unless the walk strayed;     *)
(*     this, CInv and SInv make every step one of ObjectCache or a stutter.*)
(*   - OInv, FInv, LInv: with one worker nothing of that befalls it, and   *)
(*     the ages, as they will be once a walk                               *)
(*     under way is over, put the nodes in the order of their last use;    *)
(*     this makes every step one of LruCache or a stutter.                 *)
(***************************************************************************)
EXTENDS ProxyCache, Foundations, FiniteSetTheorems, SequenceTheorems

CountedAt == {"readWait", "readUnlock", "find", "leaveCount"}
ReadingAt == {"readUnlock", "find", "leaveCount"}
WritingAt == {"get", "write", "writeUnlock"}
InsideAt == {"readCount", "readWait", "readUnlock", "leaveCount", "leaveUnlock"}

\* The workers between P(&r_mutex) and V(&r_mutex).
Inside == At(InsideAt)

LocksTyped == /\ pc \in [Workers -> Points]
              /\ read_cnt \in Nat /\ r_mutex \in Nat /\ w_mutex \in Nat

\* Inductive as it stands, once the semaphores are known not to be negative.
IInv == LocksTyped /\ ReadersExcludeWriters

\* What moving one worker from a point to another adds to the number of
\* workers at any of the given points.
Delta(points, from, to) == (IF to \in points THEN 1 ELSE 0) - (IF from \in points THEN 1 ELSE 0)

---------------------------------------------------------------------------
\* Workers are finitely many, so those at a point can be counted.
LEMMA CountIsNat ==
    ASSUME NEW points
    PROVE  /\ IsFiniteSet(At(points)) /\ Cardinality(At(points)) \in Nat
           /\ Cardinality(At(points)) = 0 <=> At(points) = {}
<1>1. At(points) \in SUBSET Workers  BY DEF At
<1>2. IsFiniteSet(At(points))  BY <1>1, FiniteAssumption, FS_Subset
<1> QED  BY <1>2, FS_CardinalityType, FS_EmptySet

\* One worker's move changes a count by one at most.
LEMMA MoveCount ==
    ASSUME LocksTyped, NEW w \in Workers, NEW from, NEW to, NEW points, Goto(w, from, to)
    PROVE  Cardinality(At(points)') = Cardinality(At(points)) + Delta(points, from, to)
<1> DEFINE S == At(points)
<1>1. pc[w] = from /\ \A u \in Workers : pc'[u] = IF u = w THEN to ELSE pc[u]
  BY DEF Goto, LocksTyped
<1>2. w \in S <=> from \in points  BY <1>1 DEF At
<1>3. S' = IF to \in points THEN S \cup {w} ELSE S \ {w}  BY <1>1 DEF At
<1>4. IsFiniteSet(S) /\ Cardinality(S) \in Nat  BY CountIsNat
<1>5. Cardinality(S \cup {w}) = IF w \in S THEN Cardinality(S) ELSE Cardinality(S) + 1
  BY <1>4, FS_AddElement
<1>6. Cardinality(S \ {w}) = IF w \in S THEN Cardinality(S) - 1 ELSE Cardinality(S)
  BY <1>4, FS_RemoveElement
<1> HIDE DEF S
<1>7. Cardinality(S') = Cardinality(S) + Delta(points, from, to)
  BY <1>2, <1>3, <1>4, <1>5, <1>6 DEF Delta
<1> QED  BY <1>7 DEF S

\* r_mutex keeps all but one worker out.
LEMMA OneInside == IInv => \A u, v \in Inside : u = v
<1>1. SUFFICES ASSUME IInv PROVE \A u, v \in Inside : u = v
  OBVIOUS
<1>2. IsFiniteSet(Inside) /\ Cardinality(Inside) \in Nat  BY CountIsNat DEF Inside
<1>3. r_mutex + Cardinality(Inside) = 1 /\ r_mutex \in Nat
  BY <1>1 DEF IInv, ReadersExcludeWriters, LocksTyped, Inside, InsideAt
<1>4. Cardinality(Inside) = 0 \/ Cardinality(Inside) = 1  BY <1>2, <1>3
<1> QED  BY <1>2, <1>4, FS_EmptySet, FS_Singleton

\* Where a move leaves the four sets the invariant counts.
LEMMA Moves ==
    ASSUME IInv, NEW w \in Workers, NEW from, NEW to, Goto(w, from, to), to \in Points
    PROVE  /\ pc' \in [Workers -> Points] /\ pc[w] = from
           /\ \A u \in Workers : pc'[u] = IF u = w THEN to ELSE pc[u]
           /\ Cardinality(Counted') = Cardinality(Counted) + Delta(CountedAt, from, to)
           /\ Cardinality(Writing') = Cardinality(Writing) + Delta(WritingAt, from, to)
           /\ Cardinality(Inside') = Cardinality(Inside) + Delta(InsideAt, from, to)
           /\ Reading' = IF to \in ReadingAt THEN Reading \cup {w} ELSE Reading \ {w}
           /\ Cardinality(Counted) \in Nat /\ Cardinality(Writing) \in Nat /\ Cardinality(Inside) \in Nat
<1>1. LocksTyped  BY DEF IInv
<1>2. /\ pc' \in [Workers -> Points] /\ pc[w] = from
      /\ \A u \in Workers : pc'[u] = IF u = w THEN to ELSE pc[u]
  BY <1>1 DEF Goto, LocksTyped
<1>3. Cardinality(Counted') = Cardinality(Counted) + Delta(CountedAt, from, to)
  BY <1>1, MoveCount DEF Counted, CountedAt
<1>4. Cardinality(Writing') = Cardinality(Writing) + Delta(WritingAt, from, to)
  BY <1>1, MoveCount DEF Writing, WritingAt
<1>5. Cardinality(Inside') = Cardinality(Inside) + Delta(InsideAt, from, to)
  BY <1>1, MoveCount DEF Inside
<1>6. Reading' = IF to \in ReadingAt THEN Reading \cup {w} ELSE Reading \ {w}
  BY <1>2 DEF Reading, ReadingAt, At
<1>7. Cardinality(Counted) \in Nat /\ Cardinality(Writing) \in Nat /\ Cardinality(Inside) \in Nat
  BY CountIsNat DEF Counted, Writing, Inside
<1> QED  BY <1>2, <1>3, <1>4, <1>5, <1>6, <1>7

\* The three conjuncts of ReadersExcludeWriters, with names for the sets.
LEMMA LocksUnfold ==
    ReadersExcludeWriters <=> /\ read_cnt = Cardinality(Counted)
                              /\ w_mutex + Cardinality(Writing) + (IF Reading # {} THEN 1 ELSE 0) = 1
                              /\ r_mutex + Cardinality(Inside) = 1
BY DEF ReadersExcludeWriters, Inside, InsideAt

---------------------------------------------------------------------------
\* A move that makes nobody a reader and no reader leave, and that takes and
\* gives back the semaphores it passes.
Quiet(w, from, to) ==
    /\ Goto(w, from, to) /\ to \in Points
    /\ from # "readWait" /\ to # "readWait"
    /\ from \in ReadingAt <=> to \in ReadingAt
    /\ from \in CountedAt <=> to \in CountedAt
    /\ read_cnt' = read_cnt
    /\ r_mutex' \in Nat /\ r_mutex' = r_mutex - Delta(InsideAt, from, to)
    /\ w_mutex' \in Nat /\ w_mutex' = w_mutex - Delta(WritingAt, from, to)

\* A step that leaves the readers and their count as they are.
LEMMA QuietKeeps ==
    ASSUME IInv, NEW w \in Workers, NEW from, NEW to, Quiet(w, from, to)
    PROVE  IInv'
<1>1. LocksTyped  BY DEF IInv
<1>2. /\ pc' \in [Workers -> Points] /\ pc[w] = from
      /\ \A u \in Workers : pc'[u] = IF u = w THEN to ELSE pc[u]
      /\ Cardinality(Counted') = Cardinality(Counted) + Delta(CountedAt, from, to)
      /\ Cardinality(Writing') = Cardinality(Writing) + Delta(WritingAt, from, to)
      /\ Cardinality(Inside') = Cardinality(Inside) + Delta(InsideAt, from, to)
      /\ Reading' = IF to \in ReadingAt THEN Reading \cup {w} ELSE Reading \ {w}
      /\ Cardinality(Counted) \in Nat /\ Cardinality(Writing) \in Nat /\ Cardinality(Inside) \in Nat
  BY Moves DEF Quiet
<1>3. Reading' = Reading  BY <1>2 DEF Quiet, Reading, ReadingAt, At
<1>4. Delta(CountedAt, from, to) = 0  BY DEF Quiet, Delta
<1>5. Delta(WritingAt, from, to) \in Int /\ Delta(InsideAt, from, to) \in Int  BY DEF Delta
<1>6. LocksTyped'  BY <1>1, <1>2 DEF LocksTyped, Quiet
<1>8. /\ read_cnt = Cardinality(Counted)
      /\ w_mutex + Cardinality(Writing) + (IF Reading # {} THEN 1 ELSE 0) = 1
      /\ r_mutex + Cardinality(Inside) = 1
  BY LocksUnfold DEF IInv
<1>9. read_cnt' = Cardinality(Counted')  BY <1>2, <1>4, <1>8 DEF Quiet
<1>10. w_mutex' + Cardinality(Writing') + (IF Reading' # {} THEN 1 ELSE 0) = 1
  BY <1>1, <1>2, <1>3, <1>5, <1>8 DEF Quiet, LocksTyped
<1>11. r_mutex' + Cardinality(Inside') = 1
  BY <1>1, <1>2, <1>5, <1>8 DEF Quiet, LocksTyped
<1>12. ReadersExcludeWriters'
  BY <1>9, <1>10, <1>11 DEF ReadersExcludeWriters, Inside, InsideAt
<1> QED  BY <1>6, <1>12 DEF IInv

\* A worker inside finds no other at readWait.
LEMMA NobodyElseWaits ==
    ASSUME IInv, NEW w \in Workers, pc[w] \in InsideAt
    PROVE  \A u \in Workers : pc[u] = "readWait" => u = w
<1>1. \A u \in Workers : pc[u] = "readWait" => u \in Inside  BY DEF Inside, InsideAt, At
<1>2. w \in Inside  BY DEF Inside, At
<1> QED  BY <1>1, <1>2, OneInside

\* With nobody waiting, those counted are those reading.
LEMMA ReadingIsCounted ==
    ASSUME IInv, \A u \in Workers : pc[u] # "readWait"
    PROVE  Reading # {} <=> read_cnt > 0
<1>1. Reading = Counted  BY DEF Reading, Counted, At
<1>2. read_cnt = Cardinality(Counted)  BY LocksUnfold DEF IInv
<1>3. Cardinality(Counted) \in Nat /\ (Cardinality(Counted) = 0 <=> Counted = {})
  BY CountIsNat DEF Counted
<1> QED  BY <1>1, <1>2, <1>3

\* A reader is counted; the first one goes on to wait for writers.
LEMMA ReadCountKeeps == ASSUME IInv, NEW w \in Workers, ReadCount(w) PROVE IInv'
<1> DEFINE to == IF read_cnt' = 1 THEN "readWait" ELSE "readUnlock"
<1>1. /\ Goto(w, "readCount", to) /\ to \in Points
      /\ read_cnt' = read_cnt + 1 /\ r_mutex' = r_mutex /\ w_mutex' = w_mutex
  BY DEF ReadCount, Points
<1>2. LocksTyped  BY DEF IInv
<1>3. /\ pc' \in [Workers -> Points] /\ pc[w] = "readCount"
      /\ \A u \in Workers : pc'[u] = IF u = w THEN to ELSE pc[u]
      /\ Cardinality(Counted') = Cardinality(Counted) + Delta(CountedAt, "readCount", to)
      /\ Cardinality(Writing') = Cardinality(Writing) + Delta(WritingAt, "readCount", to)
      /\ Cardinality(Inside') = Cardinality(Inside) + Delta(InsideAt, "readCount", to)
      /\ Reading' = IF to \in ReadingAt THEN Reading \cup {w} ELSE Reading \ {w}
      /\ Cardinality(Counted) \in Nat /\ Cardinality(Writing) \in Nat /\ Cardinality(Inside) \in Nat
  BY <1>1, Moves
<1>4. /\ Delta(CountedAt, "readCount", to) = 1 /\ Delta(WritingAt, "readCount", to) = 0
      /\ Delta(InsideAt, "readCount", to) = 0
  BY DEF Delta, CountedAt, WritingAt, InsideAt
<1>5. \A u \in Workers : pc[u] = "readWait" => u = w
  BY <1>3, NobodyElseWaits DEF InsideAt
<1>6. \A u \in Workers : pc[u] # "readWait"  BY <1>3, <1>5
<1>7. Reading # {} <=> read_cnt > 0  BY <1>6, ReadingIsCounted
<1>8. Reading' # {} <=> Reading # {}
  <2>1. w \notin Reading  BY <1>3 DEF Reading, At
  <2>2. CASE read_cnt' = 1  BY <1>3, <2>1, <2>2 DEF ReadingAt
  <2>3. CASE read_cnt' # 1
    <3>1. read_cnt > 0  BY <1>1, <1>2, <2>3 DEF LocksTyped
    <3> QED  BY <1>3, <1>7, <2>3, <3>1 DEF ReadingAt
  <2> QED  BY <2>2, <2>3
<1>9. LocksTyped'  BY <1>1, <1>2, <1>3 DEF LocksTyped
<1>11. /\ read_cnt = Cardinality(Counted)
       /\ w_mutex + Cardinality(Writing) + (IF Reading # {} THEN 1 ELSE 0) = 1
       /\ r_mutex + Cardinality(Inside) = 1
  BY LocksUnfold DEF IInv
<1>12. read_cnt' = Cardinality(Counted')  BY <1>1, <1>3, <1>4, <1>11
<1>13. w_mutex' + Cardinality(Writing') + (IF Reading' # {} THEN 1 ELSE 0) = 1
  BY <1>1, <1>3, <1>4, <1>8, <1>11
<1>14. r_mutex' + Cardinality(Inside') = 1  BY <1>1, <1>3, <1>4, <1>11
<1>15. ReadersExcludeWriters'
  BY <1>12, <1>13, <1>14 DEF ReadersExcludeWriters, Inside, InsideAt
<1> QED  BY <1>9, <1>15 DEF IInv

\* The first reader takes w_mutex, still holding r_mutex.
LEMMA ReadWaitKeeps == ASSUME IInv, NEW w \in Workers, ReadWait(w) PROVE IInv'
<1>1. /\ Goto(w, "readWait", "readUnlock") /\ "readUnlock" \in Points
      /\ read_cnt' = read_cnt /\ r_mutex' = r_mutex /\ w_mutex > 0 /\ w_mutex' = w_mutex - 1
  BY DEF ReadWait, Points
<1>2. LocksTyped  BY DEF IInv
<1>3. /\ pc' \in [Workers -> Points] /\ pc[w] = "readWait"
      /\ \A u \in Workers : pc'[u] = IF u = w THEN "readUnlock" ELSE pc[u]
      /\ Cardinality(Counted') = Cardinality(Counted) + Delta(CountedAt, "readWait", "readUnlock")
      /\ Cardinality(Writing') = Cardinality(Writing) + Delta(WritingAt, "readWait", "readUnlock")
      /\ Cardinality(Inside') = Cardinality(Inside) + Delta(InsideAt, "readWait", "readUnlock")
      /\ Reading' = IF "readUnlock" \in ReadingAt THEN Reading \cup {w} ELSE Reading \ {w}
      /\ Cardinality(Counted) \in Nat /\ Cardinality(Writing) \in Nat /\ Cardinality(Inside) \in Nat
  BY <1>1, Moves
<1>4. /\ Delta(CountedAt, "readWait", "readUnlock") = 0 /\ Delta(WritingAt, "readWait", "readUnlock") = 0
      /\ Delta(InsideAt, "readWait", "readUnlock") = 0
  BY DEF Delta, CountedAt, WritingAt, InsideAt
<1>5. /\ read_cnt = Cardinality(Counted)
      /\ w_mutex + Cardinality(Writing) + (IF Reading # {} THEN 1 ELSE 0) = 1
      /\ r_mutex + Cardinality(Inside) = 1
  BY LocksUnfold DEF IInv
\* w_mutex is free, so nobody reads.
<1>6. Reading = {} /\ w_mutex = 1 /\ Cardinality(Writing) = 0
  BY <1>1, <1>2, <1>3, <1>5 DEF LocksTyped
<1>7. Reading' # {}  BY <1>3 DEF ReadingAt
<1>8. LocksTyped'  BY <1>1, <1>2, <1>3 DEF LocksTyped
<1>10. read_cnt' = Cardinality(Counted')  BY <1>1, <1>3, <1>4, <1>5
<1>11. w_mutex' + Cardinality(Writing') + (IF Reading' # {} THEN 1 ELSE 0) = 1
  BY <1>1, <1>3, <1>4, <1>6, <1>7
<1>12. r_mutex' + Cardinality(Inside') = 1  BY <1>1, <1>3, <1>4, <1>5
<1>13. ReadersExcludeWriters'
  BY <1>10, <1>11, <1>12 DEF ReadersExcludeWriters, Inside, InsideAt
<1> QED  BY <1>8, <1>13 DEF IInv

\* A reader is no longer counted; the last one lets writers in.
LEMMA LeaveCountKeeps == ASSUME IInv, NEW w \in Workers, LeaveCount(w) PROVE IInv'
<1>1. /\ Goto(w, "leaveCount", "leaveUnlock") /\ "leaveUnlock" \in Points
      /\ read_cnt' = read_cnt - 1 /\ r_mutex' = r_mutex
      /\ w_mutex' = IF read_cnt' = 0 THEN w_mutex + 1 ELSE w_mutex
  BY DEF LeaveCount, Points
<1>2. LocksTyped  BY DEF IInv
<1>3. /\ pc' \in [Workers -> Points] /\ pc[w] = "leaveCount"
      /\ \A u \in Workers : pc'[u] = IF u = w THEN "leaveUnlock" ELSE pc[u]
      /\ Cardinality(Counted') = Cardinality(Counted) + Delta(CountedAt, "leaveCount", "leaveUnlock")
      /\ Cardinality(Writing') = Cardinality(Writing) + Delta(WritingAt, "leaveCount", "leaveUnlock")
      /\ Cardinality(Inside') = Cardinality(Inside) + Delta(InsideAt, "leaveCount", "leaveUnlock")
      /\ Cardinality(Counted) \in Nat /\ Cardinality(Writing) \in Nat /\ Cardinality(Inside) \in Nat
  BY <1>1, Moves
<1>4. /\ Delta(CountedAt, "leaveCount", "leaveUnlock") = -1 /\ Delta(WritingAt, "leaveCount", "leaveUnlock") = 0
      /\ Delta(InsideAt, "leaveCount", "leaveUnlock") = 0
  BY DEF Delta, CountedAt, WritingAt, InsideAt
<1>5. \A u \in Workers : pc[u] = "readWait" => u = w
  BY <1>3, NobodyElseWaits DEF InsideAt
<1>6. \A u \in Workers : pc[u] # "readWait" /\ pc'[u] # "readWait"  BY <1>3, <1>5
<1>7. /\ read_cnt = Cardinality(Counted)
      /\ w_mutex + Cardinality(Writing) + (IF Reading # {} THEN 1 ELSE 0) = 1
      /\ r_mutex + Cardinality(Inside) = 1
  BY LocksUnfold DEF IInv
<1>8. Reading # {}  BY <1>3 DEF Reading, At
<1>9. read_cnt' = Cardinality(Counted') /\ read_cnt' \in Nat
  <2>1. read_cnt > 0  BY <1>6, <1>8, ReadingIsCounted
  <2> QED  BY <1>1, <1>2, <1>3, <1>4, <1>7, <2>1 DEF LocksTyped
\* The last to leave opens the list.
<1>10. Reading' # {} <=> read_cnt' # 0
  <2>1. Reading' = Counted'  BY <1>6 DEF Reading, Counted, At
  <2>2. Counted' \in SUBSET Workers  BY DEF Counted, At
  <2>3. IsFiniteSet(Counted')  BY <2>2, FiniteAssumption, FS_Subset
  <2>4. Cardinality(Counted') = 0 <=> Counted' = {}  BY <2>3, FS_EmptySet
  <2> QED  BY <1>9, <2>1, <2>4
<1>11. LocksTyped'  BY <1>1, <1>2, <1>3, <1>9 DEF LocksTyped
<1>13. w_mutex' + Cardinality(Writing') + (IF Reading' # {} THEN 1 ELSE 0) = 1
  <2>1. w_mutex = 0 /\ Cardinality(Writing) = 0
    BY <1>2, <1>3, <1>7, <1>8 DEF LocksTyped
  <2>2. Cardinality(Writing') = 0  BY <1>3, <1>4, <2>1
  <2>3. w_mutex' = IF Reading' # {} THEN 0 ELSE 1  BY <1>1, <1>10, <2>1
  <2> QED  BY <2>2, <2>3
<1>14. r_mutex' + Cardinality(Inside') = 1  BY <1>1, <1>3, <1>4, <1>7
<1>15. ReadersExcludeWriters'
  BY <1>9, <1>13, <1>14 DEF ReadersExcludeWriters, Inside, InsideAt
<1> QED  BY <1>11, <1>15 DEF IInv

---------------------------------------------------------------------------
\* No worker has begun.
LEMMA InitIInv == Init => IInv
<1>1. SUFFICES ASSUME Init PROVE IInv
  OBVIOUS
<1>2. LocksTyped  BY <1>1 DEF Init, LocksTyped, Points
<1>3. Counted = {} /\ Reading = {} /\ Writing = {} /\ Inside = {}
  BY <1>1 DEF Init, Counted, Reading, Writing, Inside, InsideAt, At
<1>4. ReadersExcludeWriters
  BY <1>1, <1>3, LocksUnfold, FS_EmptySet DEF Init
<1> QED  BY <1>2, <1>4 DEF IInv

\* The walks, evictions and faults leave the locks and the workers alone.
LEMMA StillKeeps == ASSUME IInv, UNCHANGED <<pc, sems>> PROVE IInv'
<1>1. /\ Counted' = Counted /\ Reading' = Reading /\ Writing' = Writing /\ Inside' = Inside
      /\ read_cnt' = read_cnt /\ r_mutex' = r_mutex /\ w_mutex' = w_mutex /\ pc' = pc
  BY DEF sems, Counted, Reading, Writing, Inside, At
<1>2. LocksTyped'  BY <1>1 DEF IInv, LocksTyped
<1>3. ReadersExcludeWriters'
  BY <1>1, LocksUnfold DEF IInv, ReadersExcludeWriters, Inside, InsideAt
<1> QED  BY <1>2, <1>3 DEF IInv

\* Every step of a worker keeps the invariant.
LEMMA StepIInv == IInv /\ [Next]_vars => IInv'
<1> SUFFICES ASSUME IInv, [Next]_vars PROVE IInv'  OBVIOUS
<1>t. /\ read_cnt \in Nat /\ r_mutex \in Nat /\ w_mutex \in Nat  BY DEF IInv, LocksTyped
<1>1. ASSUME NEW w \in Workers, NEW t \in Tags, Request(w, t) PROVE IInv'
  <2>1. Quiet(w, "idle", "readLock")
    BY <1>t, <1>1 DEF Request, Quiet, Delta, Points, list, sems, ReadingAt, CountedAt, InsideAt, WritingAt
  <2> QED  BY <2>1, QuietKeeps
<1>2. ASSUME NEW w \in Workers, ReadLock(w) PROVE IInv'
  <2>1. Quiet(w, "readLock", "readCount")
    BY <1>t, <1>2 DEF ReadLock, Quiet, Delta, Points, list, sems, ReadingAt, CountedAt, InsideAt, WritingAt
  <2> QED  BY <2>1, QuietKeeps
<1>3. ASSUME NEW w \in Workers, ReadUnlock(w) PROVE IInv'
  <2>1. Quiet(w, "readUnlock", "find")
    BY <1>t, <1>3 DEF ReadUnlock, Quiet, Delta, Points, list, sems, ReadingAt, CountedAt, InsideAt, WritingAt
  <2> QED  BY <2>1, QuietKeeps
<1>4. ASSUME NEW w \in Workers, LeaveLock(w) PROVE IInv'
  <2>1. Quiet(w, "find", "leaveCount")
    BY <1>t, <1>4 DEF LeaveLock, Quiet, Delta, Points, list, sems, ReadingAt, CountedAt, InsideAt, WritingAt
  <2> QED  BY <2>1, QuietKeeps
<1>5. ASSUME NEW w \in Workers, LeaveUnlock(w) PROVE IInv'
  <2> DEFINE to == IF found[w] THEN "getHead" ELSE "fetch"
  <2>1. Quiet(w, "leaveUnlock", to)
    BY <1>t, <1>5 DEF LeaveUnlock, Quiet, Delta, Points, list, sems, ReadingAt, CountedAt, InsideAt, WritingAt
  <2> QED  BY <2>1, QuietKeeps
<1>6. ASSUME NEW w \in Workers, GetHead(w) PROVE IInv'
  <2>1. Quiet(w, "getHead", "getLock")
    BY <1>t, <1>6 DEF GetHead, Quiet, Delta, Points, list, sems, ReadingAt, CountedAt, InsideAt, WritingAt
  <2> QED  BY <2>1, QuietKeeps
<1>7. ASSUME NEW w \in Workers, GetLock(w) PROVE IInv'
  <2>1. Quiet(w, "getLock", "get")
    BY <1>t, <1>7 DEF GetLock, Quiet, Delta, Points, list, sems, ReadingAt, CountedAt, InsideAt, WritingAt
  <2> QED  BY <2>1, QuietKeeps
<1>8. ASSUME NEW w \in Workers, GetUnlock(w) PROVE IInv'
  <2> DEFINE to == IF found[w] THEN "idle" ELSE "fetch"
  <2>1. Quiet(w, "get", to)
    BY <1>t, <1>8 DEF GetUnlock, Quiet, Delta, Points, list, sems, ReadingAt, CountedAt, InsideAt, WritingAt
  <2> QED  BY <2>1, QuietKeeps
<1>9. ASSUME NEW w \in Workers, NEW n \in Sizes, Fetch(w, n) PROVE IInv'
  <2> DEFINE to == IF n > MaxObjectSize THEN "idle" ELSE "writeLock"
  <2>1. Quiet(w, "fetch", to)
    BY <1>t, <1>9 DEF Fetch, Quiet, Delta, Points, list, sems, ReadingAt, CountedAt, InsideAt, WritingAt
  <2> QED  BY <2>1, QuietKeeps
<1>10. ASSUME NEW w \in Workers, WriteLock(w) PROVE IInv'
  <2>1. Quiet(w, "writeLock", "write")
    BY <1>t, <1>10 DEF WriteLock, Quiet, Delta, Points, list, sems, ReadingAt, CountedAt, InsideAt, WritingAt
  <2> QED  BY <2>1, QuietKeeps
<1>11. ASSUME NEW w \in Workers, AddToCacheHead(w) PROVE IInv'
  <2>1. Quiet(w, "write", "writeUnlock")
    BY <1>t, <1>11 DEF AddToCacheHead, Quiet, Delta, Points, list, sems, ReadingAt, CountedAt, InsideAt, WritingAt
  <2> QED  BY <2>1, QuietKeeps
<1>12. ASSUME NEW w \in Workers, WriteUnlock(w) PROVE IInv'
  <2>1. Quiet(w, "writeUnlock", "idle")
    BY <1>t, <1>12 DEF WriteUnlock, Quiet, Delta, Points, list, sems, ReadingAt, CountedAt, InsideAt, WritingAt
  <2> QED  BY <2>1, QuietKeeps
<1>13. ASSUME NEW w \in Workers, FindMatch(w) \/ FindNext(w) \/ GetMatch(w) \/ GetNext(w) \/ Ruin(w)
                                \/ RemoveOldest(w)
       PROVE IInv'
  <2>1. UNCHANGED <<pc, sems>>
    BY <1>13 DEF FindMatch, FindNext, GetMatch, GetNext, Ruin, RemoveOldest, sems
  <2> QED  BY <2>1, StillKeeps
<1>14. CASE UNCHANGED vars  BY <1>14, StillKeeps DEF vars
<1> QED
  BY <1>1, <1>2, <1>3, <1>4, <1>5, <1>6, <1>7, <1>8, <1>9, <1>10, <1>11, <1>12, <1>13, <1>14,
     ReadCountKeeps, ReadWaitKeeps, LeaveCountKeeps
  DEF Next, Step, FindHit, GetHit, WriteCache, Ended

\* The lock of cache.c, for any number of workers: read_cnt is the number of
\* readers, and no reader is in the list together with a thread that may
\* change it, nor two such threads.
THEOREM LockExcludes == Spec => []ReadersExcludeWriters
<1>1. Spec => []IInv  BY InitIInv, StepIInv, PTL DEF Spec
<1>2. IInv => ReadersExcludeWriters  BY DEF IInv
<1> QED  BY <1>1, <1>2, PTL

---------------------------------------------------------------------------
(* Chains of next fields, as functions of a heap h *)

Last == Cardinality(Addrs)
Pointers == Addrs \cup {Nil}

Chain(c, h, start) ==
    /\ c \in [0 .. Last -> Pointers] /\ c[0] = start
    /\ \A k \in 1 .. Last : c[k] = IF c[k - 1] = Nil THEN Nil ELSE h[c[k - 1]].next

\* The pointers that a chain holds, but for NULL.
On(c) == {c[k] : k \in 0 .. Last} \ {Nil}

\* A list: no node is met twice, and it ends.
ListLike(c) == /\ \A j, k \in 0 .. Last : c[j] = c[k] /\ c[j] # Nil => j = k
               /\ c[Last] = Nil

\* Addresses are finitely many.
LEMMA LastIsNat == Last \in Nat /\ IsFiniteSet(Addrs)
BY FiniteAssumption, FS_CardinalityType DEF Last

\* There is one chain.
LEMMA ChainUnique ==
    ASSUME NEW h, NEW start, NEW c, NEW d, Chain(c, h, start), Chain(d, h, start)
    PROVE  c = d
<1> DEFINE Same == {k \in 0 .. Last : c[k] = d[k]}
<1>0. Last \in Nat  BY LastIsNat
<1>1. 0 \in Same  BY <1>0 DEF Chain
<1>2. ASSUME NEW k \in 0 .. Last - 1, k \in Same PROVE k + 1 \in Same
  <2>1. k + 1 \in 1 .. Last /\ (k + 1) - 1 = k  BY <1>0
  <2>2. c[k + 1] = IF c[k] = Nil THEN Nil ELSE h[c[k]].next  BY <2>1 DEF Chain
  <2>3. d[k + 1] = IF d[k] = Nil THEN Nil ELSE h[d[k]].next  BY <2>1 DEF Chain
  <2> QED  BY <1>0, <1>2, <2>2, <2>3
<1>3. Same = 0 .. Last
  <2>1. Same \in SUBSET (0 .. Last) /\ \A k \in 0 .. Last - 1 : k \in Same => k + 1 \in Same
    BY <1>2
  <2> HIDE DEF Same
  <2> QED  BY <1>0, <1>1, <2>1, BoundedInd
<1>4. \A k \in 0 .. Last : c[k] = d[k]  BY <1>3
<1>5. c \in [0 .. Last -> Pointers] /\ d \in [0 .. Last -> Pointers]  BY DEF Chain
<1>6. c = [k \in 0 .. Last |-> c[k]] /\ d = [k \in 0 .. Last |-> d[k]]  BY <1>5
<1>7. [k \in 0 .. Last |-> c[k]] = [k \in 0 .. Last |-> d[k]]  BY <1>4
<1> QED  BY <1>6, <1>7, Zenon

\* It exists when the nodes of the heap point to nodes or nowhere.
LEMMA ChainExists ==
    ASSUME NEW h, \A a \in Addrs : h[a].next \in Pointers, NEW start \in Pointers
    PROVE  \E c : Chain(c, h, start)
<1> DEFINE step == [p \in (1 .. Last) \X Pointers |-> IF p[2] = Nil THEN Nil ELSE h[p[2]].next]
<1>1. step \in Steps(Pointers, Last)  BY DEF Steps, Pointers
<1>2. PICK c : Follows(c, Pointers, start, Last, step)
  <2> HIDE DEF step
  <2> QED  BY <1>1, LastIsNat, RecursionExists
<1>3. /\ c \in [0 .. Last -> Pointers] /\ c[0] = start
      /\ \A k \in 1 .. Last : c[k] = step[<<k, c[k - 1]>>]
  <2> HIDE DEF step
  <2> QED  BY <1>2 DEF Follows
<1>4. ASSUME NEW k \in 1 .. Last PROVE c[k] = IF c[k - 1] = Nil THEN Nil ELSE h[c[k - 1]].next
  <2>1. c[k - 1] \in Pointers  BY <1>3, LastIsNat
  <2>2. <<k, c[k - 1]>> \in (1 .. Last) \X Pointers  BY <2>1
  <2>3. step[<<k, c[k - 1]>>] = IF c[k - 1] = Nil THEN Nil ELSE h[c[k - 1]].next  BY <2>2
  <2>4. c[k] = step[<<k, c[k - 1]>>]  BY <1>3
  <2> QED  BY <2>3, <2>4
<1> QED  BY <1>3, <1>4 DEF Chain

\* The recursive definition of Nodes.
Walks(c, h, start) ==
    c = [k \in 0 .. Last |-> IF k = 0 THEN start ELSE IF c[k - 1] = Nil THEN Nil ELSE h[c[k - 1]].next]

\* It defines the chain.
LEMMA WalksIsChain ==
    ASSUME NEW h, \A a \in Addrs : h[a].next \in Pointers, NEW start \in Pointers
    PROVE  Chain(CHOOSE c : Walks(c, h, start), h, start)
<1>1. PICK c : Chain(c, h, start)  BY ChainExists
<1>2. Walks(c, h, start)
  <2>1. c = [k \in 0 .. Last |-> c[k]]  BY <1>1 DEF Chain
  <2>2. \A k \in 0 .. Last : c[k] = IF k = 0 THEN start ELSE IF c[k - 1] = Nil THEN Nil ELSE h[c[k - 1]].next
    BY <1>1, LastIsNat DEF Chain
  <2>3. [k \in 0 .. Last |-> c[k]] = [k \in 0 .. Last |-> IF k = 0 THEN start ELSE IF c[k - 1] = Nil THEN Nil ELSE h[c[k - 1]].next]
    BY <2>2
  <2> QED  BY <2>1, <2>3, Zenon DEF Walks
<1> DEFINE d == CHOOSE x : Walks(x, h, start)
<1>3. Walks(d, h, start)  BY <1>2, Zenon
<1> HIDE DEF d
<1>4. d = [k \in 0 .. Last |-> IF k = 0 THEN start ELSE IF d[k - 1] = Nil THEN Nil ELSE h[d[k - 1]].next]
  BY <1>3, Zenon DEF Walks
<1>5. d[0] = start /\ \A k \in 1 .. Last : d[k] = IF d[k - 1] = Nil THEN Nil ELSE h[d[k - 1]].next
  <2>1. 0 \in 0 .. Last /\ \A k \in 1 .. Last : k \in 0 .. Last /\ k # 0  BY LastIsNat
  <2> QED  BY <1>4, <2>1, Zenon
<1>6. d \in [0 .. Last -> Pointers]
  <2> DEFINE Typed == {k \in 0 .. Last : d[k] \in Pointers}
  <2>1. 0 \in Typed  BY <1>5, LastIsNat
  <2>2. ASSUME NEW k \in 0 .. Last - 1, k \in Typed PROVE k + 1 \in Typed
    <3>1. k + 1 \in 1 .. Last /\ (k + 1) - 1 = k /\ k + 1 \in 0 .. Last  BY LastIsNat
    <3>2. d[k + 1] = IF d[k] = Nil THEN Nil ELSE h[d[k]].next  BY <1>5, <3>1
    <3> QED  BY <2>2, <3>1, <3>2 DEF Pointers
  <2>3. Typed = 0 .. Last
    <3>1. Typed \in SUBSET (0 .. Last) /\ \A k \in 0 .. Last - 1 : k \in Typed => k + 1 \in Typed
      BY <2>2
    <3> HIDE DEF Typed
    <3> QED  BY <2>1, <3>1, LastIsNat, BoundedInd
  <2>4. \A k \in 0 .. Last : d[k] \in Pointers  BY <2>3
  <2>5. d = [k \in 0 .. Last |-> d[k]]  BY <1>4
  <2> QED  BY <2>4, <2>5
<1>7. Chain(d, h, start)  BY <1>5, <1>6 DEF Chain
<1> QED  BY <1>7 DEF d

\* Once a chain has ended it stays ended.
LEMMA ChainEnds ==
    ASSUME NEW h, NEW start, NEW c, Chain(c, h, start)
    PROVE  \A k \in 0 .. Last : c[k] = Nil => \A j \in k .. Last : c[j] = Nil
<1> SUFFICES ASSUME NEW k \in 0 .. Last, c[k] = Nil PROVE \A j \in k .. Last : c[j] = Nil
  OBVIOUS
<1> DEFINE Ended0 == {j \in 0 .. Last : j >= k => c[j] = Nil}
<1>0. Last \in Nat  BY LastIsNat
<1>1. 0 \in Ended0  BY <1>0
<1>2. ASSUME NEW j \in 0 .. Last - 1, j \in Ended0 PROVE j + 1 \in Ended0
  <2>1. j + 1 \in 1 .. Last /\ (j + 1) - 1 = j /\ j + 1 \in 0 .. Last  BY <1>0
  <2>2. c[j + 1] = IF c[j] = Nil THEN Nil ELSE h[c[j]].next  BY <2>1 DEF Chain
  <2>3. CASE j + 1 = k  BY <2>1, <2>3
  <2>4. CASE j + 1 # k /\ j + 1 >= k
    <3>1. j >= k  BY <2>4, <1>0
    <3> QED  BY <1>2, <2>1, <2>2, <3>1
  <2> QED  BY <1>0, <2>1, <2>3, <2>4
<1>3. Ended0 = 0 .. Last
  <2>1. Ended0 \in SUBSET (0 .. Last) /\ \A j \in 0 .. Last - 1 : j \in Ended0 => j + 1 \in Ended0
    BY <1>2
  <2> HIDE DEF Ended0
  <2> QED  BY <1>0, <1>1, <2>1, BoundedInd
<1>4. ASSUME NEW j \in k .. Last PROVE c[j] = Nil
  <2>1. j \in 0 .. Last /\ j >= k  BY <1>0
  <2> QED  BY <1>3, <2>1
<1> QED  BY <1>4

\* A chain that meets no node twice ends: there are no more nodes than that.
LEMMA DistinctEnds ==
    ASSUME NEW h, NEW start, NEW c, Chain(c, h, start),
           \A j, k \in 0 .. Last : c[j] = c[k] /\ c[j] # Nil => j = k
    PROVE  c[Last] = Nil
<1> SUFFICES ASSUME c[Last] # Nil PROVE FALSE  OBVIOUS
<1>0. Last \in Nat  BY LastIsNat
<1>1. ASSUME NEW k \in 0 .. Last PROVE c[k] \in Addrs
  <2>1. c[k] # Nil  BY <1>0, ChainEnds
  <2> QED  BY <2>1 DEF Chain, Pointers
<1>2. c \in [0 .. Last -> Addrs]
  <2>1. c = [k \in 0 .. Last |-> c[k]]  BY DEF Chain
  <2> QED  BY <1>1, <2>1
<1>3. IsFiniteSet(0 .. Last) /\ Cardinality(0 .. Last) = Last + 1  BY <1>0, FS_Interval
<1>4. IsFiniteSet(Addrs) /\ Cardinality(Addrs) < Cardinality(0 .. Last)  BY <1>0, <1>3, LastIsNat DEF Last
<1>5. \E j, k \in 0 .. Last : j # k /\ c[j] = c[k]  BY <1>2, <1>3, <1>4, FS_PigeonHole
<1> QED  BY <1>1, <1>5, NilAssumption

\* What a node put before the head of a list does to it.
Pushed(h, h2, a, start) == /\ a \in Addrs /\ h2[a].next = start
                           /\ \A b \in Addrs \ {a} : h2[b].next = h[b].next

LEMMA ChainPush ==
    ASSUME NEW h, NEW start, NEW c, Chain(c, h, start), ListLike(c),
           NEW h2, NEW a, Pushed(h, h2, a, start), a \notin On(c),
           NEW d, Chain(d, h2, a)
    PROVE  /\ ListLike(d) /\ On(d) = On(c) \cup {a}
           /\ \A k \in 0 .. Last : c[k] # Nil => k + 1 \in 0 .. Last /\ d[k + 1] = c[k]
<1> DEFINE e == [k \in 0 .. Last |-> IF k = 0 THEN a ELSE c[k - 1]]
<1>0. Last \in Nat /\ a \in Addrs /\ a # Nil  BY LastIsNat, NilAssumption DEF Pushed
<1>1. /\ c \in [0 .. Last -> Pointers] /\ c[0] = start
      /\ \A k \in 1 .. Last : c[k] = IF c[k - 1] = Nil THEN Nil ELSE h[c[k - 1]].next
      /\ c[Last] = Nil
  BY DEF Chain, ListLike
<1>2. \A k \in 0 .. Last : c[k] # a  BY <1>0 DEF On
<1>3. \A k \in 0 .. Last : k # 0 => k - 1 \in 0 .. Last /\ k - 1 < Last  BY <1>0
<1>4. e \in [0 .. Last -> Pointers]  BY <1>0, <1>1, <1>3 DEF Pointers
<1>5. e[0] = a /\ \A k \in 1 .. Last : e[k] = c[k - 1]  BY <1>0
<1> HIDE DEF e
<1>6. ASSUME NEW k \in 1 .. Last PROVE e[k] = IF e[k - 1] = Nil THEN Nil ELSE h2[e[k - 1]].next
  <2>1. CASE k = 1  BY <1>0, <1>1, <1>5, <2>1 DEF Pushed
  <2>2. CASE k # 1
    <3>1. k - 1 \in 1 .. Last  BY <1>0, <2>2
    <3>2. e[k] = c[k - 1] /\ e[k - 1] = c[(k - 1) - 1]  BY <1>5, <3>1
    <3>3. (k - 1) - 1 \in 0 .. Last  BY <1>0, <3>1
    <3>4. c[(k - 1) - 1] # a /\ c[(k - 1) - 1] \in Pointers  BY <1>1, <1>2, <3>3
    <3>5. c[(k - 1) - 1] # Nil => h2[c[(k - 1) - 1]].next = h[c[(k - 1) - 1]].next
      BY <3>4 DEF Pushed, Pointers
    <3> QED  BY <1>1, <3>1, <3>2, <3>5
  <2> QED  BY <2>1, <2>2
<1>7. d = e
  <2>1. Chain(e, h2, a)  BY <1>4, <1>5, <1>6 DEF Chain
  <2> QED  BY <2>1, ChainUnique
<1>8. \A j, k \in 0 .. Last : e[j] = e[k] /\ e[j] # Nil => j = k
  <2> SUFFICES ASSUME NEW j \in 0 .. Last, NEW k \in 0 .. Last, e[j] = e[k], e[j] # Nil PROVE j = k
    OBVIOUS
  <2>1. CASE j = 0 \/ k = 0  BY <1>2, <1>3, <1>5, <2>1
  <2>2. CASE j # 0 /\ k # 0
    <3>1. c[j - 1] = c[k - 1] /\ c[j - 1] # Nil  BY <1>5, <2>2
    <3>2. j - 1 = k - 1  BY <1>3, <2>2, <3>1 DEF ListLike
    <3> QED  BY <1>0, <3>2
  <2> QED  BY <2>1, <2>2
<1>9. e[Last] = Nil  BY <1>7, <1>8, DistinctEnds
<1>10. On(e) = On(c) \cup {a}
  <2>1. \A x \in On(e) : x \in On(c) \cup {a}  BY <1>3, <1>5 DEF On
  <2>2. a \in On(e)  BY <1>0, <1>5 DEF On
  <2>3. ASSUME NEW k \in 0 .. Last, c[k] # Nil PROVE c[k] \in On(e)
    <3>1. k # Last  BY <1>1, <2>3
    <3>2. k + 1 \in 1 .. Last /\ (k + 1) - 1 = k /\ k + 1 \in 0 .. Last  BY <1>0, <3>1
    <3>3. e[k + 1] = c[k]  BY <1>5, <3>2
    <3> QED  BY <2>3, <3>2, <3>3 DEF On
  <2> QED  BY <2>1, <2>2, <2>3 DEF On
<1>11. ASSUME NEW k \in 0 .. Last, c[k] # Nil PROVE k + 1 \in 0 .. Last /\ e[k + 1] = c[k]
  <2>1. k # Last  BY <1>1, <1>11
  <2>2. k + 1 \in 1 .. Last /\ (k + 1) - 1 = k /\ k + 1 \in 0 .. Last  BY <1>0, <2>1
  <2> QED  BY <1>5, <2>2
<1> QED  BY <1>7, <1>8, <1>9, <1>10, <1>11 DEF ListLike

\* What taking the k-th node out of a list does to it.
Cut(h, h2, c, k) == /\ k > 0 => h2[c[k - 1]].next = h[c[k]].next
                    /\ \A b \in Addrs : (k > 0 /\ b = c[k - 1]) \/ h2[b].next = h[b].next

LEMMA ChainCut ==
    ASSUME NEW h, NEW start, NEW c, Chain(c, h, start), ListLike(c),
           NEW k \in 0 .. Last, c[k] # Nil, NEW h2, Cut(h, h2, c, k),
           NEW d, Chain(d, h2, IF k = 0 THEN h[c[k]].next ELSE start)
    PROVE  ListLike(d) /\ On(d) = On(c) \ {c[k]}
<1> DEFINE e == [j \in 0 .. Last |-> IF j < k THEN c[j] ELSE IF j < Last THEN c[j + 1] ELSE Nil]
<1>0. Last \in Nat /\ k \in Nat  BY LastIsNat
<1>1. /\ c \in [0 .. Last -> Pointers] /\ c[0] = start
      /\ \A j \in 1 .. Last : c[j] = IF c[j - 1] = Nil THEN Nil ELSE h[c[j - 1]].next
      /\ c[Last] = Nil
      /\ \A i, j \in 0 .. Last : c[i] = c[j] /\ c[i] # Nil => i = j
  BY DEF Chain, ListLike
<1>2. k < Last  BY <1>0, <1>1
<1>3. e \in [0 .. Last -> Pointers]
  <2>1. \A j \in 0 .. Last : j < Last => j + 1 \in 0 .. Last  BY <1>0
  <2> QED  BY <1>1, <2>1 DEF Pointers
<1>4. /\ \A j \in 0 .. k - 1 : e[j] = c[j]
      /\ \A j \in k .. Last - 1 : e[j] = c[j + 1]
      /\ e[Last] = Nil
  BY <1>0, <1>2
<1> HIDE DEF e
<1>5. \A j \in 0 .. k : c[j] # Nil
  <2> SUFFICES ASSUME NEW j \in 0 .. k, c[j] = Nil PROVE FALSE  OBVIOUS
  <2>1. j \in 0 .. Last /\ k \in j .. Last  BY <1>0
  <2> QED  BY <2>1, ChainEnds
<1>6. \A j \in 0 .. Last : c[j] # Nil /\ j # k - 1 => h2[c[j]].next = h[c[j]].next
  <2> SUFFICES ASSUME NEW j \in 0 .. Last, c[j] # Nil, j # k - 1 PROVE h2[c[j]].next = h[c[j]].next
    OBVIOUS
  <2>1. c[j] \in Addrs  BY <1>1 DEF Pointers
  <2>2. ~(k > 0 /\ c[j] = c[k - 1])
    <3> SUFFICES ASSUME k > 0, c[j] = c[k - 1] PROVE FALSE  OBVIOUS
    <3>1. k - 1 \in 0 .. Last  BY <1>0
    <3> QED  BY <1>1, <3>1
  <2> QED  BY <2>1, <2>2 DEF Cut
<1>7. ASSUME NEW j \in 1 .. Last PROVE e[j] = IF e[j - 1] = Nil THEN Nil ELSE h2[e[j - 1]].next
  <2>1. CASE j < k
    <3>1. j \in 0 .. k - 1 /\ j - 1 \in 0 .. k - 1 /\ j - 1 \in 0 .. Last /\ j - 1 # k - 1  BY <1>0, <2>1
    <3> QED  BY <1>1, <1>4, <1>6, <3>1
  <2>2. CASE j = k
    <3>1. j \in k .. Last - 1 /\ j - 1 \in 0 .. k - 1 /\ j - 1 \in 0 .. k /\ k + 1 \in 1 .. Last /\ (k + 1) - 1 = k
      BY <1>0, <1>2, <2>2
    <3>2. e[j] = c[k + 1] /\ e[j - 1] = c[k - 1]  BY <1>4, <2>2, <3>1
    <3>3. c[k + 1] = h[c[k]].next  BY <1>1, <3>1
    <3>4. h2[c[k - 1]].next = h[c[k]].next  BY <1>0, <2>2 DEF Cut
    <3>5. c[k - 1] # Nil  BY <1>5, <2>2, <3>1
    <3> QED  BY <3>2, <3>3, <3>4, <3>5
  <2>3. CASE j > k /\ j < Last
    <3>1. j \in k .. Last - 1 /\ j - 1 \in k .. Last - 1 /\ j + 1 \in 1 .. Last /\ (j - 1) + 1 = j /\ (j + 1) - 1 = j
          /\ j \in 0 .. Last /\ j # k - 1
      BY <1>0, <2>3
    <3>2. e[j] = c[j + 1] /\ e[j - 1] = c[j]
      <4>1. e[j - 1] = c[(j - 1) + 1]  BY <1>4, <3>1
      <4> QED  BY <1>4, <3>1, <4>1
    <3>3. c[j + 1] = IF c[j] = Nil THEN Nil ELSE h[c[j]].next
      <4>1. c[j + 1] = IF c[(j + 1) - 1] = Nil THEN Nil ELSE h[c[(j + 1) - 1]].next  BY <1>1, <3>1
      <4> QED  BY <3>1, <4>1
    <3> QED  BY <1>6, <3>1, <3>2, <3>3
  <2>4. CASE j = Last
    <3>1. j - 1 \in k .. Last - 1 /\ (j - 1) + 1 = Last  BY <1>0, <1>2, <2>4
    <3>2. e[j - 1] = c[(j - 1) + 1]  BY <1>4, <3>1
    <3>3. e[j - 1] = Nil  BY <1>1, <3>1, <3>2
    <3> QED  BY <1>4, <2>4, <3>3
  <2> QED  BY <1>0, <2>1, <2>2, <2>3, <2>4
<1>8. e[0] = IF k = 0 THEN h[c[k]].next ELSE start
  <2>1. CASE k = 0
    <3>1. 0 \in k .. Last - 1 /\ 1 \in 1 .. Last /\ 1 - 1 = 0  BY <1>0, <1>2, <2>1
    <3>2. e[0] = c[0 + 1]  BY <1>4, <3>1
    <3>3. c[1] = h[c[0]].next  BY <1>1, <2>1, <3>1
    <3> QED  BY <2>1, <3>2, <3>3
  <2>2. CASE k # 0
    <3>1. 0 \in 0 .. k - 1  BY <1>0, <2>2
    <3> QED  BY <1>1, <1>4, <2>2, <3>1
  <2> QED  BY <2>1, <2>2
<1>9. d = e
  <2>1. Chain(e, h2, IF k = 0 THEN h[c[k]].next ELSE start)  BY <1>3, <1>7, <1>8 DEF Chain
  <2> QED  BY <2>1, ChainUnique
\* Where a pointer of the new chain was in the old one.
<1>10. \A j \in 0 .. Last : e[j] # Nil =>
          \E i \in 0 .. Last : e[j] = c[i] /\ i # k /\ ((i < k /\ j = i) \/ (i > k /\ j = i - 1))
  <2> SUFFICES ASSUME NEW j \in 0 .. Last, e[j] # Nil
               PROVE  \E i \in 0 .. Last : e[j] = c[i] /\ i # k /\ ((i < k /\ j = i) \/ (i > k /\ j = i - 1))
    OBVIOUS
  <2>1. CASE j < k
    <3>1. e[j] = c[j]  BY <1>0, <1>4, <2>1
    <3> QED  BY <1>0, <2>1, <3>1
  <2>2. CASE ~(j < k)
    <3>1. j # Last  BY <1>4, <2>2
    <3>2. j \in k .. Last - 1 /\ j + 1 \in 0 .. Last /\ j + 1 > k /\ (j + 1) - 1 = j  BY <1>0, <2>2, <3>1
    <3>3. e[j] = c[j + 1]  BY <1>4, <3>2
    <3> QED  BY <1>0, <3>2, <3>3
  <2> QED  BY <2>1, <2>2
<1>11. \A i, j \in 0 .. Last : e[i] = e[j] /\ e[i] # Nil => i = j
  <2> SUFFICES ASSUME NEW i \in 0 .. Last, NEW j \in 0 .. Last, e[i] = e[j], e[i] # Nil PROVE i = j
    OBVIOUS
  <2>1. PICK p \in 0 .. Last : e[i] = c[p] /\ p # k /\ ((p < k /\ i = p) \/ (p > k /\ i = p - 1))
    BY <1>10
  <2>2. PICK q \in 0 .. Last : e[j] = c[q] /\ q # k /\ ((q < k /\ j = q) \/ (q > k /\ j = q - 1))
    BY <1>10
  <2>3. p = q  BY <1>1, <2>1, <2>2
  <2> QED  BY <1>0, <2>1, <2>2, <2>3
<1>12. On(e) = On(c) \ {c[k]}
  <2>1. \A x \in On(e) : x \in On(c) \ {c[k]}  BY <1>1, <1>10 DEF On
  <2>2. ASSUME NEW i \in 0 .. Last, c[i] # Nil, c[i] # c[k] PROVE c[i] \in On(e)
    <3>1. CASE i < k
      <4>1. e[i] = c[i]  BY <1>0, <1>4, <3>1
      <4> QED  BY <2>2, <4>1 DEF On
    <3>2. CASE i > k
      <4>1. i - 1 \in k .. Last - 1 /\ i - 1 \in 0 .. Last /\ (i - 1) + 1 = i  BY <1>0, <3>2
      <4>2. e[i - 1] = c[i]
        <5>1. e[i - 1] = c[(i - 1) + 1]  BY <1>4, <4>1
        <5> QED  BY <4>1, <5>1
      <4> QED  BY <2>2, <4>1, <4>2 DEF On
    <3> QED  BY <1>0, <2>2, <3>1, <3>2
  <2> QED  BY <2>1, <2>2 DEF On
<1> QED  BY <1>4, <1>9, <1>11, <1>12 DEF ListLike

---------------------------------------------------------------------------
(* The list and its totals *)

\* What the nodes in R add up to.
Total(h, R) == MapThenSumSet(LAMBDA a : h[a].size, R)

Typed == /\ heap \in [Addrs -> Node] /\ head \in Pointers
         /\ total_size \in 0 .. MaxCacheSize /\ cache_cnt \in Nat
         /\ ptr \in [Workers -> Pointers] /\ found \in [Workers -> BOOLEAN]
         /\ tag \in [Workers -> Tags \cup {Nil}] /\ size \in [Workers -> Nat]
         /\ requests \in 0 .. MaxRequests /\ ruined \in BOOLEAN
         /\ since \in [Workers -> SUBSET Events]

ListInv == ListLike(Nodes(head)) /\ LedgerMatchesList

CInv == IInv /\ Typed /\ ListInv

\* Nodes is the chain of the heap.
LEMMA NodesAreChain ==
    ASSUME heap \in [Addrs -> Node], head \in Pointers
    PROVE  Chain(Nodes(head), heap, head) /\ Cached = On(Nodes(head))
<1>1. \A a \in Addrs : heap[a].next \in Pointers  BY DEF Node, Pointers
<1>2. Nodes(head) = CHOOSE c : Walks(c, heap, head)  BY Zenon DEF Nodes, Walks, Last
<1>3. Chain(CHOOSE c : Walks(c, heap, head), heap, head)  BY <1>1, WalksIsChain
<1>4. Cached = On(Nodes(head))  BY Zenon DEF Cached, Reach, On, Last
<1> QED  BY <1>2, <1>3, <1>4

\* The same of the next state.
LEMMA NodesAreChainPrime ==
    ASSUME heap' \in [Addrs -> Node], head' \in Pointers
    PROVE  Chain(Nodes(head)', heap', head') /\ Cached' = On(Nodes(head)')
<1>1. \A a \in Addrs : heap'[a].next \in Pointers  BY DEF Node, Pointers
<1>2. Nodes(head)' = CHOOSE c : Walks(c, heap', head')  BY Zenon DEF Nodes, Walks, Last
<1>3. Chain(CHOOSE c : Walks(c, heap', head'), heap', head')  BY <1>1, WalksIsChain
<1>4. Cached' = On(Nodes(head)')  BY Zenon DEF Cached, Reach, On, Last
<1> QED  BY <1>2, <1>3, <1>4

\* The ledgers, in these terms.
LEMMA LedgerUnfolds ==
    LedgerMatchesList <=> /\ Cached = {a \in Addrs : heap[a].live}
                          /\ Nodes(head)[Last] = Nil
                          /\ total_size = Total(heap, Cached)
                          /\ cache_cnt = Cardinality(Cached)
BY Zenon DEF LedgerMatchesList, Total, Last

\* The same of the next state.
LEMMA LedgerUnfoldsPrime ==
    LedgerMatchesList' <=> /\ Cached' = {a \in Addrs : heap'[a].live}
                           /\ Nodes(head)'[Last] = Nil
                           /\ total_size' = Total(heap', Cached')
                           /\ cache_cnt' = Cardinality(Cached')
BY Zenon DEF LedgerMatchesList, Total, Last, MapThenSumSet, MapThenFoldSet

Weight(h) == [a \in Addrs |-> h[a].size]

\* The sizes in R of what k holds are those of h.
SizesOf(k, h, R) == \A a \in R : k[a].size = h[a].size

\* A total is the sum of the weights.
LEMMA TotalIsSum ==
    ASSUME NEW h, \A a \in Addrs : h[a].size \in Nat
    PROVE  \E f : /\ Sums(f, Weight(h), Addrs)
                  /\ \A R \in SUBSET Addrs : \A k : SizesOf(k, h, R) => Total(k, R) = f[R]
<1>1. Weight(h) \in [Addrs -> Nat]  BY DEF Weight
<1>2. PICK f : Sums(f, Weight(h), Addrs)  BY <1>1, LastIsNat, SumsExist
<1>3. ASSUME NEW R \in SUBSET Addrs, NEW k, SizesOf(k, h, R) PROVE Total(k, R) = f[R]
  <2> DEFINE body(g) == [T \in SUBSET R |-> IF T = {} THEN 0 ELSE k[First(T)].size + g[T \ {First(T)}]]
             S == CHOOSE g : g = body(g)
             r == [T \in SUBSET R |-> f[T]]
  <2>1. Total(k, R) = S[R]
    BY Zenon DEF Total, MapThenSumSet, MapThenFoldSet, First
  <2>2. \A T \in SUBSET R : T # {} => Weight(h)[First(T)] = k[First(T)].size
    BY <1>3, FirstIsMember DEF Weight, SizesOf
  <2>3. r = body(r)
    <3>1. \A T \in SUBSET R : f[T] = IF T = {} THEN 0 ELSE k[First(T)].size + f[T \ {First(T)}]
      BY <1>2, <2>2 DEF Sums
    <3>2. \A T \in SUBSET R : T \ {First(T)} \in SUBSET R  OBVIOUS
    <3> QED  BY <3>1, <3>2
  <2>4. S = body(S)  BY <2>3, Zenon
  <2>5. IsFold(S, Weight(h), R)
    <3>1. \A g : body(g) = [T \in SUBSET R |-> IF T = {} THEN 0 ELSE Weight(h)[First(T)] + g[T \ {First(T)}]]
      BY <2>2
    <3> HIDE DEF S
    <3> QED  BY <2>4, <3>1, Zenon DEF IsFold
  <2> HIDE DEF S
  <2>6. SameOn(Weight(h), Weight(h), R)  BY DEF SameOn
  <2>7. S[R] = f[R]  BY <1>2, <2>5, <2>6, LastIsNat, SumsAgree
  <2> QED  BY <2>1, <2>7
<1> QED  BY <1>2, <1>3

\* Totals of the same sizes are the same.
LEMMA TotalSame ==
    ASSUME NEW h, \A a \in Addrs : h[a].size \in Nat, NEW R \in SUBSET Addrs, NEW k, SizesOf(k, h, R)
    PROVE  Total(k, R) = Total(h, R)
<1>1. PICK f : /\ Sums(f, Weight(h), Addrs)
               /\ \A T \in SUBSET Addrs : \A g : SizesOf(g, h, T) => Total(g, T) = f[T]
  BY TotalIsSum
<1>2. SizesOf(h, h, R)  BY DEF SizesOf
<1> QED  BY <1>1, <1>2

\* One node of a set adds its size.
LEMMA TotalTakes ==
    ASSUME NEW h, \A a \in Addrs : h[a].size \in Nat, NEW R \in SUBSET Addrs, NEW a \in R
    PROVE  /\ Total(h, R) = h[a].size + Total(h, R \ {a})
           /\ Total(h, R) \in Nat /\ Total(h, R \ {a}) \in Nat
<1>1. PICK f : Sums(f, Weight(h), Addrs) /\ \A T \in SUBSET Addrs : Total(h, T) = f[T]
  BY TotalIsSum DEF SizesOf
<1>2. Weight(h) \in [Addrs -> Nat] /\ Weight(h)[a] = h[a].size  BY DEF Weight
<1>3. f[R] = Weight(h)[a] + f[R \ {a}]  BY <1>1, <1>2, LastIsNat, SumTakes
<1>4. R \ {a} \in SUBSET Addrs  OBVIOUS
<1>5. f[R] \in Nat /\ f[R \ {a}] \in Nat  BY <1>1, <1>4 DEF Sums
<1> QED  BY <1>1, <1>2, <1>3, <1>4, <1>5

\* No node adds up to nothing.
LEMMA TotalEmpty == ASSUME NEW h, \A a \in Addrs : h[a].size \in Nat PROVE Total(h, {}) = 0
<1>1. PICK f : Sums(f, Weight(h), Addrs) /\ \A T \in SUBSET Addrs : Total(h, T) = f[T]
  BY TotalIsSum DEF SizesOf
<1>2. {} \in SUBSET Addrs  OBVIOUS
<1> QED  BY <1>1, <1>2 DEF Sums

---------------------------------------------------------------------------
\* What the invariant says of the list now.
LEMMA ListFacts ==
    ASSUME CInv
    PROVE  /\ heap \in [Addrs -> Node] /\ head \in Pointers
           /\ \A a \in Addrs : heap[a].size \in Nat /\ heap[a].next \in Pointers
           /\ Chain(Nodes(head), heap, head) /\ ListLike(Nodes(head))
           /\ Cached = On(Nodes(head)) /\ Cached = {a \in Addrs : heap[a].live}
           /\ total_size = Total(heap, Cached) /\ cache_cnt = Cardinality(Cached)
<1>1. heap \in [Addrs -> Node] /\ head \in Pointers  BY DEF CInv, Typed
<1>2. \A a \in Addrs : heap[a].size \in Nat /\ heap[a].next \in Pointers  BY <1>1 DEF Node, Pointers
<1>3. LedgerMatchesList /\ ListLike(Nodes(head))  BY DEF CInv, ListInv
<1> QED  BY <1>1, <1>2, <1>3, NodesAreChain, LedgerUnfolds

\* What there is to show of the list afterwards.
LEMMA ListFactsPrime ==
    ASSUME heap' \in [Addrs -> Node], head' \in Pointers,
           ListLike(Nodes(head)'), Cached' = {a \in Addrs : heap'[a].live},
           total_size' = Total(heap', Cached'), cache_cnt' = Cardinality(Cached')
    PROVE  ListInv'
<1>1. Nodes(head)'[Last] = Nil  BY DEF ListLike
<1>2. LedgerMatchesList'  BY <1>1, LedgerUnfoldsPrime
<1>3. ListLike(Nodes(head))'  BY DEF ListLike
<1> QED  BY <1>2, <1>3 DEF ListInv

\* The nodes keep their places, sizes and owners.
SameLinks(h, h2) == \A a \in Addrs : /\ h2[a].next = h[a].next /\ h2[a].size = h[a].size
                                     /\ h2[a].live = h[a].live

\* Then the list is the same and its totals stay right.
LEMMA SameLinksKeep ==
    ASSUME CInv, heap' \in [Addrs -> Node], SameLinks(heap, heap'),
           UNCHANGED <<head, total_size, cache_cnt>>
    PROVE  ListInv' /\ Nodes(head)' = Nodes(head) /\ Cached' = Cached
<1> DEFINE c == Nodes(head)
           d == Nodes(head)'
<1>1. /\ heap \in [Addrs -> Node] /\ head \in Pointers
      /\ \A a \in Addrs : heap[a].size \in Nat /\ heap[a].next \in Pointers
      /\ Chain(c, heap, head) /\ ListLike(c)
      /\ Cached = On(c) /\ Cached = {a \in Addrs : heap[a].live}
      /\ total_size = Total(heap, Cached) /\ cache_cnt = Cardinality(Cached)
  BY ListFacts
<1>2. Chain(d, heap', head) /\ Cached' = On(d)  BY <1>1, NodesAreChainPrime
<1> HIDE DEF c, d
<1>3. Chain(c, heap', head)
  <2>1. ASSUME NEW k \in 1 .. Last PROVE c[k] = IF c[k - 1] = Nil THEN Nil ELSE heap'[c[k - 1]].next
    <3>1. c[k - 1] \in Pointers  BY <1>1, LastIsNat DEF Chain
    <3>2. c[k] = IF c[k - 1] = Nil THEN Nil ELSE heap[c[k - 1]].next  BY <1>1 DEF Chain
    <3> QED  BY <3>1, <3>2 DEF SameLinks, Pointers
  <2> QED  BY <1>1, <2>1 DEF Chain
<1>4. d = c  BY <1>2, <1>3, ChainUnique
<1>5. Cached' = Cached  BY <1>1, <1>2, <1>4
<1>6. Cached' = {a \in Addrs : heap'[a].live}  BY <1>1, <1>5 DEF SameLinks
<1>7. Total(heap', Cached) = Total(heap, Cached)
  <2>1. Cached \in SUBSET Addrs  BY <1>1
  <2>2. SizesOf(heap', heap, Cached)  BY <1>1 DEF SameLinks, SizesOf
  <2> QED  BY <1>1, <2>1, <2>2, TotalSame
<1>8. total_size' = Total(heap', Cached') /\ cache_cnt' = Cardinality(Cached')  BY <1>1, <1>5, <1>7
<1>9. ListLike(Nodes(head)')  BY <1>1, <1>4 DEF d
<1>10. ListInv'  BY <1>1, <1>6, <1>8, <1>9, ListFactsPrime
<1> QED  BY <1>4, <1>5, <1>10 DEF c, d

\* A list that nobody touches.
LEMMA ListUnchanged ==
    ASSUME CInv, UNCHANGED list
    PROVE  ListInv' /\ Nodes(head)' = Nodes(head) /\ Cached' = Cached
<1>1. heap' \in [Addrs -> Node] /\ SameLinks(heap, heap') /\ UNCHANGED <<head, total_size, cache_cnt>>
  BY DEF list, SameLinks, CInv, Typed
<1> QED  BY <1>1, SameLinksKeep

\* One node's age changes.
LEMMA AgeChanges ==
    ASSUME heap \in [Addrs -> Node], NEW a \in Addrs, NEW age \in 0 .. AgeMod - 1,
           heap' = [heap EXCEPT ![a].age = age]
    PROVE  /\ heap' \in [Addrs -> Node] /\ SameLinks(heap, heap')
           /\ \A b \in Addrs : heap'[b].tag = heap[b].tag
           /\ \A b \in Addrs : heap'[b].age = IF b = a THEN age ELSE heap[b].age
<1>1. \A b \in Addrs : heap'[b] = IF b = a THEN [heap[a] EXCEPT !.age = age] ELSE heap[b]
  OBVIOUS
<1>2. heap[a] \in Node /\ [heap[a] EXCEPT !.age = age] \in Node  BY DEF Node
<1>3. LET n == [heap[a] EXCEPT !.age = age]
      IN  /\ n.next = heap[a].next /\ n.size = heap[a].size /\ n.live = heap[a].live
          /\ n.tag = heap[a].tag /\ n.age = age
  BY <1>2 DEF Node
<1>4. heap' \in [Addrs -> Node]  BY <1>1, <1>2
<1> QED  BY <1>1, <1>3, <1>4 DEF SameLinks

\* Ages stay in their range, as they are taken modulo AgeMod.
LEMMA OlderIsAge == \A n \in Nat : Older(n) \in 0 .. AgeMod - 1 /\ (n + 1 < AgeMod => Older(n) = n + 1)
BY AgeAssumption DEF Older

---------------------------------------------------------------------------
\* The heap and the totals once the node at place k is out of the list.
Removed(k) == /\ k \in 0 .. Last /\ Nodes(head)[k] # Nil
              /\ Unlink(k)
              /\ total_size' = total_size - heap[Nodes(head)[k]].size
              /\ cache_cnt' = cache_cnt - 1

\* Unlink takes one node out, frees it and leaves the others as they are.
LEMMA UnlinkFacts ==
    ASSUME CInv, NEW k, Removed(k)
    PROVE  LET old == Nodes(head)[k]
           IN  /\ old \in Cached /\ heap' \in [Addrs -> Node] /\ head' \in Pointers
               /\ head' = IF k = 0 THEN heap[old].next ELSE head
               /\ Cut(heap, heap', Nodes(head), k)
               /\ \A a \in Addrs : heap'[a].live = (heap[a].live /\ a # old)
               /\ \A a \in Addrs : heap'[a].size = heap[a].size /\ heap'[a].tag = heap[a].tag
                                   /\ heap'[a].age = heap[a].age
<1> DEFINE c == Nodes(head)
           old == c[k]
<1>1. /\ heap \in [Addrs -> Node] /\ head \in Pointers
      /\ \A a \in Addrs : heap[a].size \in Nat /\ heap[a].next \in Pointers
      /\ Chain(c, heap, head) /\ ListLike(c)
      /\ Cached = On(c) /\ Cached = {a \in Addrs : heap[a].live}
  BY ListFacts
<1>2. k \in 0 .. Last /\ c[k] # Nil /\ Last \in Nat  BY LastIsNat DEF Removed
<1>3. head' = IF k = 0 THEN heap[old].next ELSE head
  BY DEF Removed, Unlink
<1>4. \A a \in Addrs : heap'[a] = IF a = old THEN [heap[a] EXCEPT !.live = FALSE]
                                  ELSE IF k > 0 /\ a = c[k - 1]
                                       THEN [heap[a] EXCEPT !.next = heap[old].next]
                                       ELSE heap[a]
  BY DEF Removed, Unlink
<1>5. heap' = [a \in Addrs |-> heap'[a]]
  BY DEF Removed, Unlink
<1> HIDE DEF c, old
<1>6. old \in Cached /\ old \in Addrs  BY <1>1, <1>2 DEF On, old
<1>7. heap[old].next \in Pointers  BY <1>1, <1>6
<1>8. ASSUME NEW a \in Addrs
      PROVE  /\ heap'[a] \in Node
             /\ heap'[a].next = IF a # old /\ k > 0 /\ a = c[k - 1] THEN heap[old].next ELSE heap[a].next
             /\ heap'[a].live = (heap[a].live /\ a # old)
             /\ heap'[a].size = heap[a].size /\ heap'[a].tag = heap[a].tag /\ heap'[a].age = heap[a].age
  <2>1. heap[a] \in Node  BY <1>1
  <2>2. CASE a = old
    <3>1. heap'[a] = [heap[a] EXCEPT !.live = FALSE]  BY <1>4, <2>2
    <3> QED  BY <2>1, <2>2, <3>1 DEF Node
  <2>3. CASE a # old /\ k > 0 /\ a = c[k - 1]
    <3>1. heap'[a] = [heap[a] EXCEPT !.next = heap[old].next]  BY <1>4, <2>3
    <3> QED  BY <1>7, <2>1, <2>3, <3>1 DEF Node, Pointers
  <2>4. CASE a # old /\ ~(k > 0 /\ a = c[k - 1])
    <3>1. heap'[a] = heap[a]  BY <1>4, <2>4
    <3> QED  BY <2>1, <2>4, <3>1 DEF Node
  <2> QED  BY <2>2, <2>3, <2>4
<1>9. heap' \in [Addrs -> Node]  BY <1>5, <1>8
<1>10. head' \in Pointers  BY <1>1, <1>3, <1>7
<1>11. Cut(heap, heap', c, k)
  <2>1. k > 0 => heap'[c[k - 1]].next = heap[c[k]].next
    <3> SUFFICES ASSUME k > 0 PROVE heap'[c[k - 1]].next = heap[c[k]].next  OBVIOUS
    <3>1. k - 1 \in 0 .. Last /\ k \in (k - 1) .. Last /\ k - 1 # k  BY <1>2
    <3>2. c[k - 1] # Nil  BY <1>1, <1>2, <3>1, ChainEnds
    <3>3. c[k - 1] \in Addrs  BY <1>1, <3>1, <3>2 DEF Chain, Pointers
    <3>4. c[k - 1] # old  BY <1>1, <1>2, <3>1, <3>2 DEF ListLike, old
    <3> QED  BY <1>8, <3>3, <3>4 DEF old
  <2>2. \A b \in Addrs : (k > 0 /\ b = c[k - 1]) \/ heap'[b].next = heap[b].next  BY <1>8
  <2> QED  BY <2>1, <2>2 DEF Cut
<1> QED  BY <1>3, <1>6, <1>8, <1>9, <1>10, <1>11 DEF old, c

\* Then the list has lost that node and the totals are right again.
LEMMA RemovedKeeps ==
    ASSUME CInv, NEW k, Removed(k)
    PROVE  /\ ListInv' /\ Cached' = Cached \ {Nodes(head)[k]}
           /\ total_size' \in 0 .. MaxCacheSize /\ cache_cnt' \in Nat
<1> DEFINE c == Nodes(head)
           d == Nodes(head)'
           old == c[k]
<1>1. /\ heap \in [Addrs -> Node] /\ head \in Pointers
      /\ \A a \in Addrs : heap[a].size \in Nat /\ heap[a].next \in Pointers
      /\ Chain(c, heap, head) /\ ListLike(c)
      /\ Cached = On(c) /\ Cached = {a \in Addrs : heap[a].live}
      /\ total_size = Total(heap, Cached) /\ cache_cnt = Cardinality(Cached)
  BY ListFacts
<1>2. /\ old \in Cached /\ heap' \in [Addrs -> Node] /\ head' \in Pointers
      /\ head' = IF k = 0 THEN heap[old].next ELSE head
      /\ Cut(heap, heap', c, k)
      /\ \A a \in Addrs : heap'[a].live = (heap[a].live /\ a # old)
      /\ \A a \in Addrs : heap'[a].size = heap[a].size
  BY UnlinkFacts
<1>3. k \in 0 .. Last /\ c[k] # Nil  BY DEF Removed
<1>4. Chain(d, heap', head') /\ Cached' = On(d)  BY <1>2, NodesAreChainPrime
<1>5. /\ total_size' = total_size - heap[old].size /\ cache_cnt' = cache_cnt - 1  BY DEF Removed
<1> HIDE DEF c, d
<1>6. ListLike(d) /\ On(d) = On(c) \ {c[k]}
  <2>1. head' = IF k = 0 THEN heap[c[k]].next ELSE head  BY <1>2
  <2>2. Chain(d, heap', IF k = 0 THEN heap[c[k]].next ELSE head)  BY <1>4, <2>1
  <2>3. Chain(c, heap, head) /\ ListLike(c)  BY <1>1
  <2>4. k \in 0 .. Last /\ c[k] # Nil /\ Cut(heap, heap', c, k)  BY <1>2, <1>3
  <2> QED  BY ONLY <2>2, <2>3, <2>4, ChainCut
<1> HIDE DEF old
<1>7. Cached' = Cached \ {old}  BY <1>1, <1>4, <1>6 DEF old
<1>8. Cached' = {a \in Addrs : heap'[a].live}  BY <1>1, <1>2, <1>7
<1>9. Cached \in SUBSET Addrs /\ IsFiniteSet(Cached)
  <2>1. Cached \in SUBSET Addrs  BY <1>1
  <2> QED  BY <2>1, LastIsNat, FS_Subset
<1>10. /\ Total(heap, Cached) = heap[old].size + Total(heap, Cached \ {old})
       /\ Total(heap, Cached) \in Nat /\ Total(heap, Cached \ {old}) \in Nat
  BY <1>1, <1>2, <1>9, TotalTakes
<1>11. Total(heap', Cached') = Total(heap, Cached \ {old})
  <2>1. Cached \ {old} \in SUBSET Addrs  BY <1>9
  <2>2. SizesOf(heap', heap, Cached \ {old})  BY <1>2, <1>9 DEF SizesOf
  <2> QED  BY <1>1, <1>7, <2>1, <2>2, TotalSame
<1>12. heap[old].size \in Nat /\ total_size \in 0 .. MaxCacheSize  BY <1>1, <1>2, <1>9 DEF CInv, Typed
<1>13. total_size' = Total(heap', Cached') /\ total_size' \in 0 .. MaxCacheSize
  <2>1. MaxCacheSize \in Nat  BY SizesAssumption
  <2> QED  BY <1>1, <1>5, <1>10, <1>11, <1>12, <2>1
<1>14. cache_cnt' = Cardinality(Cached') /\ cache_cnt' \in Nat
  <2>1. Cardinality(Cached \ {old}) = Cardinality(Cached) - 1  BY <1>2, <1>9, FS_RemoveElement
  <2>2. IsFiniteSet(Cached \ {old})  BY <1>9, FS_Subset
  <2>3. Cardinality(Cached \ {old}) \in Nat  BY <2>2, FS_CardinalityType
  <2> QED  BY <1>1, <1>5, <1>7, <2>1, <2>3
<1>15. ListInv'  BY <1>2, <1>6, <1>8, <1>13, <1>14, ListFactsPrime DEF d
<1> QED  BY <1>7, <1>13, <1>14, <1>15 DEF old, c

\* The heap and the totals once w has put its object at a before the list.
Added(w, a) == /\ w \in Workers /\ ~Full(w) /\ a \in Addrs /\ ~heap[a].live
               /\ heap' = [b \in Addrs |->
                             IF b = a THEN [tag |-> tag[w], size |-> size[w], age |-> FirstAge, next |-> head, live |-> TRUE]
                             ELSE IF b \in Cached THEN [heap[b] EXCEPT !.age = Older(@)]
                             ELSE heap[b]]
               /\ head' = a
               /\ total_size' = total_size + size[w]
               /\ cache_cnt' = cache_cnt + 1

\* The node is new and the others but age.
LEMMA AddFacts ==
    ASSUME CInv, NEW w, NEW a, Added(w, a)
    PROVE  /\ heap' \in [Addrs -> Node] /\ Pushed(heap, heap', a, head) /\ a \notin Cached
           /\ heap'[a].size = size[w] /\ heap'[a].age = 1 /\ heap'[a].live /\ heap'[a].tag = tag[w]
           /\ \A b \in Addrs \ {a} :
                 /\ heap'[b].size = heap[b].size /\ heap'[b].live = heap[b].live /\ heap'[b].tag = heap[b].tag
                 /\ heap'[b].age = IF b \in Cached THEN Older(heap[b].age) ELSE heap[b].age
<1>1. /\ heap \in [Addrs -> Node] /\ head \in Pointers /\ Cached = {b \in Addrs : heap[b].live}
  BY ListFacts
<1>2. w \in Workers /\ a \in Addrs /\ ~heap[a].live  BY DEF Added
<1>3. tag[w] \in Tags \cup {Nil} /\ size[w] \in Nat  BY <1>2 DEF CInv, Typed
<1>4. FirstAge = 1 /\ FirstAge \in 0 .. AgeMod - 1  BY AgeAssumption DEF FirstAge
<1>5. heap'[a] = [tag |-> tag[w], size |-> size[w], age |-> FirstAge, next |-> head, live |-> TRUE]
  BY <1>2 DEF Added
<1>6. heap'[a] \in Node  BY <1>1, <1>3, <1>4, <1>5 DEF Node, Pointers
<1>7. ASSUME NEW b \in Addrs \ {a}
      PROVE  /\ heap'[b] \in Node /\ heap'[b].next = heap[b].next
             /\ heap'[b].size = heap[b].size /\ heap'[b].live = heap[b].live /\ heap'[b].tag = heap[b].tag
             /\ heap'[b].age = IF b \in Cached THEN Older(heap[b].age) ELSE heap[b].age
  <2>1. heap[b] \in Node  BY <1>1
  <2>2. CASE b \in Cached
    <3>1. heap'[b] = [heap[b] EXCEPT !.age = Older(heap[b].age)]  BY <2>2 DEF Added
    <3>2. heap[b].age \in Nat  BY <2>1, AgeAssumption DEF Node
    <3>3. Older(heap[b].age) \in 0 .. AgeMod - 1  BY <3>2, OlderIsAge
    <3> QED  BY <2>1, <2>2, <3>1, <3>3 DEF Node
  <2>3. CASE b \notin Cached
    <3>1. heap'[b] = heap[b]  BY <2>3 DEF Added
    <3> QED  BY <2>1, <2>3, <3>1 DEF Node
  <2> QED  BY <2>2, <2>3
<1>8. heap' \in [Addrs -> Node]
  <2>1. heap' = [b \in Addrs |-> heap'[b]]  BY DEF Added
  <2> QED  BY <1>6, <1>7, <2>1
<1>9. heap'[a].next = head /\ heap'[a].size = size[w] /\ heap'[a].age = 1 /\ heap'[a].live /\ heap'[a].tag = tag[w]
  BY <1>4, <1>5
<1>10. Pushed(heap, heap', a, head)  BY <1>2, <1>7, <1>9 DEF Pushed
<1>11. a \notin Cached  BY <1>1, <1>2
<1> QED  BY <1>7, <1>8, <1>9, <1>10, <1>11

\* Then the list has that node too and the totals are right again.
LEMMA AddedKeeps ==
    ASSUME CInv, NEW w, NEW a, Added(w, a)
    PROVE  /\ ListInv' /\ Cached' = Cached \cup {a}
           /\ total_size' \in 0 .. MaxCacheSize /\ cache_cnt' \in Nat /\ head' \in Pointers
<1> DEFINE c == Nodes(head)
           d == Nodes(head)'
<1>1. /\ heap \in [Addrs -> Node] /\ head \in Pointers
      /\ \A b \in Addrs : heap[b].size \in Nat /\ heap[b].next \in Pointers
      /\ Chain(c, heap, head) /\ ListLike(c)
      /\ Cached = On(c) /\ Cached = {b \in Addrs : heap[b].live}
      /\ total_size = Total(heap, Cached) /\ cache_cnt = Cardinality(Cached)
  BY ListFacts
<1>2. /\ heap' \in [Addrs -> Node] /\ Pushed(heap, heap', a, head) /\ a \notin Cached
      /\ heap'[a].size = size[w] /\ heap'[a].live
      /\ \A b \in Addrs \ {a} : heap'[b].size = heap[b].size /\ heap'[b].live = heap[b].live
  BY AddFacts
<1>3. w \in Workers /\ ~Full(w) /\ a \in Addrs /\ head' = a
      /\ total_size' = total_size + size[w] /\ cache_cnt' = cache_cnt + 1
  BY DEF Added
<1>4. head' \in Pointers  BY <1>3 DEF Pointers
<1>5. Chain(d, heap', a) /\ Cached' = On(d)  BY <1>2, <1>3, <1>4, NodesAreChainPrime
<1> HIDE DEF c, d
<1>6. ListLike(d) /\ On(d) = On(c) \cup {a}
  <2>1. Chain(c, heap, head) /\ ListLike(c)  BY <1>1
  <2>2. Pushed(heap, heap', a, head) /\ a \notin On(c)  BY <1>1, <1>2
  <2>3. Chain(d, heap', a)  BY <1>5
  <2> QED  BY ONLY <2>1, <2>2, <2>3, ChainPush
<1>7. Cached' = Cached \cup {a}  BY <1>1, <1>5, <1>6
<1>8. Cached' = {b \in Addrs : heap'[b].live}  BY <1>1, <1>2, <1>3, <1>7
<1>9. Cached \in SUBSET Addrs /\ IsFiniteSet(Cached)
  <2>1. Cached \in SUBSET Addrs  BY <1>1
  <2> QED  BY <2>1, LastIsNat, FS_Subset
<1>10. \A b \in Addrs : heap'[b].size \in Nat
  <2>1. \A b \in Addrs : heap'[b] \in Node  BY <1>2
  <2> QED  BY <2>1 DEF Node
<1>11. Total(heap', Cached) = Total(heap, Cached)
  <2>1. SizesOf(heap', heap, Cached)  BY <1>2, <1>9 DEF SizesOf
  <2> QED  BY <1>1, <1>9, <2>1, TotalSame
<1>12. Total(heap', Cached') = size[w] + Total(heap, Cached)
  <2> DEFINE R == Cached \cup {a}
  <2>1. R \in SUBSET Addrs /\ a \in R /\ R \ {a} = Cached  BY <1>2, <1>3, <1>9
  <2> HIDE DEF R
  <2>2. Total(heap', R) = heap'[a].size + Total(heap', R \ {a})  BY <1>10, <2>1, TotalTakes
  <2> QED  BY <1>2, <1>7, <1>11, <2>1, <2>2 DEF R
<1>13. total_size' = Total(heap', Cached') /\ total_size' \in 0 .. MaxCacheSize
  <2>1. MaxCacheSize \in Nat /\ size[w] \in Nat /\ total_size \in 0 .. MaxCacheSize
    BY <1>3, SizesAssumption DEF CInv, Typed
  <2>2. ~(size[w] + total_size > MaxCacheSize)  BY <1>3 DEF Full
  <2> QED  BY <1>1, <1>3, <1>12, <2>1, <2>2
<1>14. cache_cnt' = Cardinality(Cached') /\ cache_cnt' \in Nat
  <2>1. Cardinality(Cached \cup {a}) = Cardinality(Cached) + 1  BY <1>2, <1>9, FS_AddElement
  <2>2. cache_cnt \in Nat  BY DEF CInv, Typed
  <2> QED  BY <1>1, <1>3, <1>7, <2>1, <2>2
<1>15. ListInv'  BY <1>2, <1>4, <1>6, <1>8, <1>13, <1>14, ListFactsPrime DEF d
<1> QED  BY <1>4, <1>7, <1>13, <1>14, <1>15
---------------------------------------------------------------------------
\* No node is cached at first.
LEMMA InitCInv == Init => CInv
<1> SUFFICES ASSUME Init PROVE CInv  OBVIOUS
<1> DEFINE c == Nodes(head)
           e == [k \in 0 .. Last |-> Nil]
<1>1. NoNode \in Node  BY AgeAssumption DEF NoNode, Node
<1>2. /\ heap \in [Addrs -> Node] /\ head = Nil /\ head \in Pointers
      /\ \A a \in Addrs : heap[a] = NoNode /\ ~heap[a].live
  BY <1>1 DEF Init, Pointers, NoNode
<1>3. Typed
  <2>1. total_size \in 0 .. MaxCacheSize /\ cache_cnt \in Nat /\ requests \in 0 .. MaxRequests /\ ruined \in BOOLEAN
    <3>1. MaxCacheSize \in Nat /\ MaxRequests \in Nat  BY SizesAssumption, FiniteAssumption
    <3>2. total_size = 0 /\ cache_cnt = 0 /\ requests = 0 /\ ruined = FALSE  BY DEF Init
    <3>3. total_size \in 0 .. MaxCacheSize /\ cache_cnt \in Nat /\ requests \in 0 .. MaxRequests
      BY ONLY <3>1, <3>2
    <3>4. ruined \in BOOLEAN  BY <3>2
    <3> QED  BY <3>3, <3>4
  <2>2. ptr \in [Workers -> Pointers] /\ found \in [Workers -> BOOLEAN]  BY DEF Init, Pointers
  <2>3. tag \in [Workers -> Tags \cup {Nil}] /\ size \in [Workers -> Nat] /\ since \in [Workers -> SUBSET Events]
    BY DEF Init
  <2> QED  BY <1>2, <2>1, <2>2, <2>3 DEF Typed
<1>4. Chain(c, heap, head) /\ Cached = On(c)  BY <1>2, NodesAreChain
<1> HIDE DEF c
<1>5. c = e
  <2>1. /\ e \in [0 .. Last -> Pointers] /\ e[0] = Nil
        /\ \A k \in 1 .. Last : e[k] = Nil /\ e[k - 1] = Nil
    BY LastIsNat DEF Pointers
  <2> HIDE DEF e
  <2>2. Chain(e, heap, head)  BY <1>2, <2>1 DEF Chain
  <2> QED  BY <1>4, <2>2, ChainUnique
<1>6. ListLike(c) /\ On(c) = {} /\ c[Last] = Nil  BY <1>5, LastIsNat DEF ListLike, On
<1>7. Cached = {} /\ Cached = {a \in Addrs : heap[a].live}  BY <1>2, <1>4, <1>6
<1>8. Total(heap, {}) = 0
  <2>1. \A a \in Addrs : heap[a].size \in Nat  BY <1>2 DEF Node
  <2> QED  BY <2>1, TotalEmpty
<1>9. total_size = 0 /\ cache_cnt = 0 /\ Cardinality(Cached) = 0  BY <1>7, FS_EmptySet DEF Init
<1>10. ListInv  BY <1>6, <1>7, <1>8, <1>9, LedgerUnfolds DEF ListInv, c
<1> QED  BY <1>3, <1>10, InitIInv DEF CInv

\* Most steps leave the list alone.
LEMMA LocalKeeps ==
    ASSUME CInv, [Next]_vars, UNCHANGED list,
           ptr' \in [Workers -> Pointers], found' \in [Workers -> BOOLEAN],
           tag' \in [Workers -> Tags \cup {Nil}], size' \in [Workers -> Nat],
           requests' \in 0 .. MaxRequests, ruined' \in BOOLEAN, since' \in [Workers -> SUBSET Events]
    PROVE  CInv'
<1>1. IInv'  BY StepIInv DEF CInv
<1>2. ListInv'  BY ListUnchanged
<1>3. Typed'  BY DEF CInv, Typed, list
<1> QED  BY <1>1, <1>2, <1>3 DEF CInv

\* A walk goes where its node leads, or from a freed one perhaps nowhere.
LEMMA Advances ==
    ASSUME CInv, NEW w \in Workers, ptr[w] # Nil, Advance(w)
    PROVE  /\ ptr[w] \in Addrs /\ ptr' \in [Workers -> Pointers]
           /\ \A u \in Workers : u # w => ptr'[u] = ptr[u]
           /\ heap[ptr[w]].live => ptr'[w] = heap[ptr[w]].next
<1>1. ptr \in [Workers -> Pointers] /\ ptr[w] \in Addrs  BY DEF CInv, Typed, Pointers
<1>2. heap[ptr[w]].next \in Pointers /\ Nil \in Pointers  BY <1>1, ListFacts DEF Pointers
<1>3. PICK next \in LinksRead(w) : ptr' = [ptr EXCEPT ![w] = next]  BY DEF Advance
<1>4. next \in Pointers /\ (heap[ptr[w]].live => next = heap[ptr[w]].next)  BY <1>2, <1>3 DEF LinksRead, OnFreed
<1> QED  BY <1>1, <1>3, <1>4

\* What befalls some workers.
LEMMA Befallen ==
    ASSUME CInv, NEW event \in Events, NEW those, Befalls(event, those)
    PROVE  /\ since' \in [Workers -> SUBSET Events]
           /\ \A u \in Workers : since'[u] = IF u \in those THEN since[u] \cup {event} ELSE since[u]
<1>1. since \in [Workers -> SUBSET Events]  BY DEF CInv, Typed
<1>2. \A u \in Workers : since[u] \cup {event} \in SUBSET Events  BY <1>1
<1> QED  BY <1>1, <1>2 DEF Befalls

\* A walk strays where it looks at a freed node.
LEMMA Looked ==
    ASSUME CInv, NEW w \in Workers, Looks(w)
    PROVE  /\ since' \in [Workers -> SUBSET Events]
           /\ \A u \in Workers : u # w => since'[u] = since[u]
           /\ since'[w] = IF heap[ptr[w]].live THEN since[w] ELSE since[w] \cup {"strayed"}
<1>1. "strayed" \in Events  BY DEF Events
<1>2. Befalls("strayed", IF OnFreed(w) THEN {w} ELSE {})  BY DEF Looks
<1> DEFINE those == IF OnFreed(w) THEN {w} ELSE {}
<1>3. /\ since' \in [Workers -> SUBSET Events]
      /\ \A u \in Workers : since'[u] = IF u \in those THEN since[u] \cup {"strayed"} ELSE since[u]
  BY <1>1, <1>2, Befallen
<1> QED  BY <1>3 DEF OnFreed

\* The steps of get_hit's walk change one node's age.
LEMMA GetKeeps ==
    ASSUME CInv, [Next]_vars, NEW w \in Workers, GetMatch(w) \/ GetNext(w)
    PROVE  /\ CInv' /\ Nodes(head)' = Nodes(head) /\ Cached' = Cached
           /\ heap' \in [Addrs -> Node] /\ SameLinks(heap, heap')
           /\ \A b \in Addrs : heap'[b].tag = heap[b].tag
           /\ \A b \in Addrs : heap'[b].age = IF b # ptr[w] THEN heap[b].age
                                              ELSE IF GetMatch(w) THEN 1 ELSE Older(heap[b].age)
<1>1. heap \in [Addrs -> Node] /\ \A a \in Addrs : heap[a].size \in Nat /\ heap[a].next \in Pointers
  BY ListFacts
<1>2. ptr[w] \in Addrs  BY DEF GetMatch, GetNext, Visits, CInv, Typed, Pointers
<1>3. heap[ptr[w]].age \in Nat
  <2>1. heap[ptr[w]] \in Node  BY <1>1, <1>2
  <2> QED  BY <2>1, AgeAssumption DEF Node
<1> DEFINE age == IF GetMatch(w) THEN 1 ELSE Older(heap[ptr[w]].age)
<1>4. age \in 0 .. AgeMod - 1
  BY <1>3, OlderIsAge, AgeAssumption
<1>5. heap' = [heap EXCEPT ![ptr[w]].age = age]
  <2>1. CASE GetMatch(w)  BY <2>1 DEF GetMatch, FirstAge
  <2>2. CASE ~GetMatch(w)  BY <2>2 DEF GetNext
  <2> QED  BY <2>1, <2>2
<1> HIDE DEF age
<1>6. /\ heap' \in [Addrs -> Node] /\ SameLinks(heap, heap')
      /\ \A b \in Addrs : heap'[b].tag = heap[b].tag
      /\ \A b \in Addrs : heap'[b].age = IF b = ptr[w] THEN age ELSE heap[b].age
  BY <1>1, <1>2, <1>4, <1>5, AgeChanges
<1>7. UNCHANGED <<head, total_size, cache_cnt, tag, requests, ruined>>
  BY DEF GetMatch, GetNext
<1>8. ListInv' /\ Nodes(head)' = Nodes(head) /\ Cached' = Cached  BY <1>6, <1>7, SameLinksKeep
<1>9. /\ ptr' \in [Workers -> Pointers] /\ found' \in [Workers -> BOOLEAN]
      /\ size' \in [Workers -> Nat] /\ since' \in [Workers -> SUBSET Events]
  <2>1. ptr[w] # Nil /\ Advance(w) /\ Looks(w)  BY DEF GetMatch, GetNext, Visits
  <2>2. ptr' \in [Workers -> Pointers] /\ since' \in [Workers -> SUBSET Events]  BY <2>1, Advances, Looked
  <2>3. found' \in [Workers -> BOOLEAN]  BY DEF GetMatch, GetNext, CInv, Typed
  <2>4. SizesRead(w) \subseteq Nat  BY <1>1, <1>2, SizesAssumption DEF SizesRead
  <2>5. size' \in [Workers -> Nat]  BY <2>4 DEF GetMatch, GetNext, CInv, Typed
  <2> QED  BY <2>2, <2>3, <2>5
<1>10. Typed'  BY <1>6, <1>7, <1>9 DEF CInv, Typed
<1>11. CInv'  BY <1>8, <1>10, StepIInv DEF CInv
<1> QED  BY <1>6, <1>8, <1>11 DEF age

\* An eviction takes one node out.
LEMMA EvictKeeps ==
    ASSUME CInv, [Next]_vars, NEW w \in Workers, RemoveOldest(w)
    PROVE  CInv' /\ \E k : Removed(k)
<1>1. PICK k \in 0 .. Cardinality(Addrs) :
         /\ Oldest(k) /\ Unlink(k)
         /\ total_size' = total_size - heap[Nodes(head)[k]].size
         /\ cache_cnt' = cache_cnt - 1
  BY DEF RemoveOldest
<1>2. Removed(k)  BY <1>1 DEF Removed, Oldest, Last
<1>3. ListInv' /\ total_size' \in 0 .. MaxCacheSize /\ cache_cnt' \in Nat  BY <1>2, RemovedKeeps
<1>4. heap' \in [Addrs -> Node] /\ head' \in Pointers  BY <1>2, UnlinkFacts
<1>5. UNCHANGED <<ptr, found, tag, size, requests, ruined>>  BY DEF RemoveOldest
<1>6. since' \in [Workers -> SUBSET Events]  BY Befallen DEF RemoveOldest, Events
<1>7. Typed'  BY <1>3, <1>4, <1>5, <1>6 DEF CInv, Typed
<1> QED  BY <1>2, <1>3, <1>7, StepIInv DEF CInv

\* A store puts one node in.
LEMMA StoreKeeps ==
    ASSUME CInv, [Next]_vars, NEW w \in Workers, AddToCacheHead(w)
    PROVE  CInv' /\ \E a : Added(w, a)
<1>1. PICK a \in Addrs :
         /\ ~heap[a].live
         /\ heap' = [b \in Addrs |->
                       IF b = a THEN [tag |-> tag[w], size |-> size[w], age |-> FirstAge, next |-> head, live |-> TRUE]
                       ELSE IF b \in Reach(head) THEN [heap[b] EXCEPT !.age = Older(@)]
                       ELSE heap[b]]
         /\ head' = a
  BY DEF AddToCacheHead
<1>2. /\ ~Full(w) /\ total_size' = total_size + size[w] /\ cache_cnt' = cache_cnt + 1
      /\ UNCHANGED <<ptr, found, tag, size, requests, ruined>>
  BY DEF AddToCacheHead
<1>3. Added(w, a)  BY <1>1, <1>2 DEF Added, Cached
<1>4. ListInv' /\ total_size' \in 0 .. MaxCacheSize /\ cache_cnt' \in Nat /\ head' \in Pointers
  BY <1>3, AddedKeeps
<1>5. heap' \in [Addrs -> Node]  BY <1>3, AddFacts
<1>6. since' \in [Workers -> SUBSET Events]  BY Befallen DEF AddToCacheHead, Events
<1>7. Typed'  BY <1>2, <1>4, <1>5, <1>6 DEF CInv, Typed
<1> QED  BY <1>3, <1>4, <1>7, StepIInv DEF CInv

\* Every step of a worker keeps the list sound.
LEMMA StepCInv == CInv /\ [Next]_vars => CInv'
<1> SUFFICES ASSUME CInv, [Next]_vars PROVE CInv'  OBVIOUS
<1>t. /\ ptr \in [Workers -> Pointers] /\ found \in [Workers -> BOOLEAN]
      /\ tag \in [Workers -> Tags \cup {Nil}] /\ size \in [Workers -> Nat]
      /\ requests \in 0 .. MaxRequests /\ ruined \in BOOLEAN /\ head \in Pointers
      /\ since \in [Workers -> SUBSET Events]
  BY DEF CInv, Typed
<1>n. MaxRequests \in Nat  BY FiniteAssumption
<1>1. ASSUME NEW w \in Workers, NEW t \in Tags, Request(w, t) PROVE CInv'
  <2>1. UNCHANGED list /\ UNCHANGED ruined  BY <1>1 DEF Request
  <2>2. /\ ptr' \in [Workers -> Pointers] /\ found' \in [Workers -> BOOLEAN]
        /\ tag' \in [Workers -> Tags \cup {Nil}] /\ size' \in [Workers -> Nat]
        /\ since' \in [Workers -> SUBSET Events]
    BY <1>t, <1>1 DEF Request
  <2>3. requests' \in 0 .. MaxRequests  BY <1>t, <1>n, <1>1 DEF Request
  <2> QED  BY <1>t, <2>1, <2>2, <2>3, LocalKeeps
<1>2. ASSUME NEW w \in Workers,
             \/ ReadLock(w) \/ ReadCount(w) \/ ReadWait(w) \/ ReadUnlock(w)
             \/ LeaveLock(w) \/ LeaveCount(w) \/ LeaveUnlock(w)
             \/ GetLock(w) \/ GetUnlock(w) \/ WriteLock(w) \/ WriteUnlock(w)
      PROVE CInv'
  <2>1. UNCHANGED <<list, ptr, found, tag, size, requests, since, ruined>>
    BY <1>2 DEF ReadLock, ReadCount, ReadWait, ReadUnlock, LeaveLock, LeaveCount, LeaveUnlock,
                GetLock, GetUnlock, WriteLock, WriteUnlock
  <2> QED  BY <1>t, <2>1, LocalKeeps
<1>3. ASSUME NEW w \in Workers, FindMatch(w) PROVE CInv'
  <2>1. UNCHANGED <<list, ptr, tag, size, requests, ruined>> /\ found' \in [Workers -> BOOLEAN] /\ Looks(w)
    BY <1>t, <1>3 DEF FindMatch
  <2>2. since' \in [Workers -> SUBSET Events]  BY <2>1, Looked
  <2> QED  BY <1>t, <2>1, <2>2, LocalKeeps
<1>4. ASSUME NEW w \in Workers, FindNext(w) PROVE CInv'
  <2>1. UNCHANGED <<list, found, tag, size, requests, ruined>> /\ ptr[w] # Nil /\ Advance(w) /\ Looks(w)
    BY <1>4 DEF FindNext, Visits
  <2>2. ptr' \in [Workers -> Pointers] /\ since' \in [Workers -> SUBSET Events]  BY <2>1, Advances, Looked
  <2> QED  BY <1>t, <2>1, <2>2, LocalKeeps
<1>5. ASSUME NEW w \in Workers, GetHead(w) PROVE CInv'
  <2>1. UNCHANGED <<list, tag, size, requests, ruined>>  BY <1>5 DEF GetHead
  <2>2. /\ ptr' \in [Workers -> Pointers] /\ found' \in [Workers -> BOOLEAN]
        /\ since' \in [Workers -> SUBSET Events]
    BY <1>t, <1>5 DEF GetHead
  <2> QED  BY <1>t, <2>1, <2>2, LocalKeeps
<1>6. ASSUME NEW w \in Workers, NEW n \in Sizes, Fetch(w, n) PROVE CInv'
  <2>1. UNCHANGED <<list, ptr, found, tag, requests, since, ruined>>  BY <1>6 DEF Fetch
  <2>2. size' \in [Workers -> Nat]  BY <1>t, <1>6, SizesAssumption DEF Fetch
  <2> QED  BY <1>t, <2>1, <2>2, LocalKeeps
<1>7. ASSUME NEW w \in Workers, Ruin(w) PROVE CInv'
  <2>1. UNCHANGED <<list, ptr, found, tag, size, requests, since>> /\ ruined' = TRUE  BY <1>7 DEF Ruin
  <2> QED  BY <1>t, <2>1, LocalKeeps
<1>8. CASE UNCHANGED vars
  <2>1. UNCHANGED <<list, ptr, found, tag, size, requests, since, ruined>>  BY <1>8 DEF vars
  <2> QED  BY <1>t, <2>1, LocalKeeps
<1> QED
  BY <1>1, <1>2, <1>3, <1>4, <1>5, <1>6, <1>7, <1>8, GetKeeps, EvictKeeps, StoreKeeps
  DEF Next, Step, FindHit, GetHit, WriteCache, Ended

\* The variables have their types: a semaphore is 0 or 1, as no one posts one
\* that he does not hold, and the counters are within their bounds.
LEMMA CInvTypes == CInv => TypeOK
<1> SUFFICES ASSUME CInv PROVE TypeOK  OBVIOUS
<1>1. IInv /\ LocksTyped /\ Typed  BY DEF CInv, IInv
<1>2. /\ read_cnt = Cardinality(Counted)
      /\ w_mutex + Cardinality(Writing) + (IF Reading # {} THEN 1 ELSE 0) = 1
      /\ r_mutex + Cardinality(Inside) = 1
  BY <1>1, LocksUnfold DEF IInv
<1>3. Cardinality(Writing) \in Nat /\ Cardinality(Inside) \in Nat  BY CountIsNat DEF Writing, Inside
<1>4. r_mutex \in {0, 1} /\ w_mutex \in {0, 1}  BY <1>1, <1>2, <1>3 DEF LocksTyped
<1>5. read_cnt \in 0 .. Cardinality(Workers)
  <2>1. Counted \in SUBSET Workers  BY DEF Counted, At
  <2>2. Cardinality(Counted) <= Cardinality(Workers) /\ Cardinality(Workers) \in Nat
    BY <2>1, FiniteAssumption, FS_Subset, FS_CardinalityType
  <2> QED  BY <1>1, <1>2, <2>2 DEF LocksTyped
<1>6. cache_cnt \in 0 .. Cardinality(Addrs)
  <2>1. Cached \in SUBSET Addrs /\ cache_cnt = Cardinality(Cached)  BY ListFacts
  <2>2. Cardinality(Cached) <= Cardinality(Addrs) /\ Cardinality(Addrs) \in Nat
    BY <2>1, FiniteAssumption, FS_Subset, FS_CardinalityType
  <2> QED  BY <1>1, <2>1, <2>2 DEF Typed
<1> QED  BY <1>1, <1>4, <1>5, <1>6 DEF TypeOK, Typed, LocksTyped, Pointers

\* The cache's list, for any number of workers, addresses and requests: it
\* reaches the allocated nodes and no other, meets none twice, and its totals
\* are what the nodes add up to.
THEOREM ListMatchesItsTotals == Spec => [](TypeOK /\ LedgerMatchesList)
<1>1. Spec => []CInv  BY InitCInv, StepCInv, PTL DEF Spec
<1>2. CInv => TypeOK /\ LedgerMatchesList  BY CInvTypes DEF CInv, ListInv
<1> QED  BY <1>1, <1>2, PTL
---------------------------------------------------------------------------
(* Ages.  Each request ages a node twice at most, once in the walk of       *)
(* get_hit and once when it stores its object, so no age comes to AgeMod    *)
(* while that is more than twice the requests.  The invariant counts what   *)
(* the requests under way may still add.                                    *)

\* Where a request may still store its object, and where its walk of get_hit
\* may still begin.
AddsAhead == {"readLock", "readCount", "readWait", "readUnlock", "find", "leaveCount", "leaveUnlock",
              "getHead", "getLock", "get", "fetch", "writeLock", "write"}
WalksAhead == {"readLock", "readCount", "readWait", "readUnlock", "find", "leaveCount", "leaveUnlock",
               "getHead", "getLock"}

Budget == Cardinality(At(AddsAhead)) + Cardinality(At(WalksAhead))

\* The walk of w has yet to pass a; it may pass any node when it stands on one
\* that has been freed.
Ahead(w, a) == /\ pc[w] = "get" /\ ptr[w] # Nil
               /\ heap[ptr[w]].live => \E i, j \in 0 .. Last : /\ j <= i
                                                               /\ Nodes(head)[j] = ptr[w]
                                                               /\ Nodes(head)[i] = a

Due(a) == IF \E w \in Workers : Ahead(w, a) THEN 1 ELSE 0

AInv == /\ Budget <= 2 * requests
        /\ \A a \in Addrs : heap[a].live => /\ heap[a].age >= 1
                                            /\ heap[a].age + Due(a) + Budget <= 1 + 2 * requests
        /\ \A w \in Workers : pc[w] \in {"writeLock", "write"} => size[w] <= MaxObjectSize

\* w_mutex keeps all but one worker out.
LEMMA OneWriting == IInv => \A u, v \in Writing : u = v
<1>1. SUFFICES ASSUME IInv PROVE \A u, v \in Writing : u = v
  OBVIOUS
<1>2. IsFiniteSet(Writing) /\ Cardinality(Writing) \in Nat  BY CountIsNat DEF Writing
<1>3. w_mutex + Cardinality(Writing) + (IF Reading # {} THEN 1 ELSE 0) = 1 /\ w_mutex \in Nat
  BY <1>1, LocksUnfold DEF IInv, LocksTyped
<1>4. Cardinality(Writing) = 0 \/ Cardinality(Writing) = 1  BY <1>2, <1>3
<1> QED  BY <1>2, <1>4, FS_EmptySet, FS_Singleton

\* A thread that changes the list walks alone.
LEMMA NoWalkMeanwhile ==
    ASSUME IInv, NEW w \in Workers, pc[w] \in WritingAt
    PROVE  \A u \in Workers : pc[u] = "get" => u = w
<1>1. w \in Writing /\ \A u \in Workers : pc[u] = "get" => u \in Writing
  BY DEF Writing, WritingAt, At
<1> QED  BY <1>1, OneWriting

\* How a move changes the budget.
LEMMA BudgetMoves ==
    ASSUME IInv, NEW w \in Workers, NEW from, NEW to, Goto(w, from, to)
    PROVE  /\ Budget' = Budget + Delta(AddsAhead, from, to) + Delta(WalksAhead, from, to)
           /\ \A u \in Workers : pc'[u] = IF u = w THEN to ELSE pc[u]
<1>1. LocksTyped  BY DEF IInv
<1>2. Cardinality(At(AddsAhead)') = Cardinality(At(AddsAhead)) + Delta(AddsAhead, from, to)  BY <1>1, MoveCount
<1>3. Cardinality(At(WalksAhead)') = Cardinality(At(WalksAhead)) + Delta(WalksAhead, from, to)  BY <1>1, MoveCount
<1>4. Cardinality(At(AddsAhead)) \in Nat /\ Cardinality(At(WalksAhead)) \in Nat  BY CountIsNat
<1>5. Delta(AddsAhead, from, to) \in Int /\ Delta(WalksAhead, from, to) \in Int  BY DEF Delta
<1>6. Budget' = Cardinality(At(AddsAhead)') + Cardinality(At(WalksAhead)')  BY DEF Budget
<1>7. Budget' = Budget + Delta(AddsAhead, from, to) + Delta(WalksAhead, from, to)
  BY <1>2, <1>3, <1>4, <1>5, <1>6 DEF Budget
<1>8. \A u \in Workers : pc'[u] = IF u = w THEN to ELSE pc[u]  BY <1>1 DEF Goto, LocksTyped
<1> QED  BY <1>7, <1>8

\* It is a number.
LEMMA BudgetIsNat == Budget \in Nat
<1>1. Cardinality(At(AddsAhead)) \in Nat /\ Cardinality(At(WalksAhead)) \in Nat  BY CountIsNat
<1> QED  BY <1>1 DEF Budget

\* And it stays where it is while nobody moves.
LEMMA BudgetStays == ASSUME UNCHANGED pc PROVE Budget' = Budget
BY DEF Budget, At

\* The ages a state allows, and those the next allows.
LEMMA AgeFacts ==
    ASSUME CInv, AInv
    PROVE  /\ Budget \in Nat /\ requests \in Nat /\ requests <= MaxRequests /\ Budget <= 2 * requests
           /\ \A a \in Addrs : heap[a].age \in Nat /\ Due(a) \in {0, 1}
           /\ \A a \in Addrs : heap[a].live => /\ heap[a].age >= 1
                                               /\ heap[a].age + Due(a) + Budget <= 1 + 2 * requests
           /\ \A w \in Workers : pc[w] \in {"writeLock", "write"} => size[w] <= MaxObjectSize
<1>1. Budget \in Nat  BY BudgetIsNat
<1>2. requests \in Nat /\ requests <= MaxRequests  BY FiniteAssumption DEF CInv, Typed
<1>3. \A a \in Addrs : heap[a].age \in Nat /\ Due(a) \in {0, 1}
  <2>1. heap \in [Addrs -> Node]  BY ListFacts
  <2>2. \A a \in Addrs : heap[a].age \in Nat  BY <2>1, AgeAssumption DEF Node
  <2> QED  BY <2>2 DEF Due
<1> QED  BY <1>1, <1>2, <1>3 DEF AInv

\* How a budget grows with what it is bounded by.
LEMMA BudgetGrows ==
    ASSUME NEW b \in Nat, NEW c \in Int, NEW r \in Nat, NEW s \in Nat, b <= 2 * r, c + 2 * r <= b + 2 * s
    PROVE  c <= 2 * s
OBVIOUS

\* Steps that leave the list alone and bring nobody to its walk: a request
\* that begins adds its two to the budget.
LEMMA AgesStill ==
    ASSUME CInv, AInv, UNCHANGED list, requests' \in Nat,
           \A u \in Workers : pc'[u] = "get" => pc[u] = "get" /\ ptr'[u] = ptr[u],
           Budget' \in Int, Budget' + 2 * requests <= Budget + 2 * requests',
           \A u \in Workers : pc'[u] \in {"writeLock", "write"} => size'[u] <= MaxObjectSize
    PROVE  AInv'
<1>1. /\ Budget \in Nat /\ requests \in Nat /\ Budget <= 2 * requests
      /\ \A a \in Addrs : heap[a].age \in Nat /\ Due(a) \in {0, 1}
      /\ \A a \in Addrs : heap[a].live => /\ heap[a].age >= 1
                                          /\ heap[a].age + Due(a) + Budget <= 1 + 2 * requests
  BY AgeFacts
<1>2. heap' = heap /\ Nodes(head)' = Nodes(head)  BY ListUnchanged DEF list
<1>3. ASSUME NEW a \in Addrs PROVE Due(a)' \in {0, 1} /\ Due(a)' <= Due(a)
  <2>1. \A u \in Workers : Ahead(u, a)' => Ahead(u, a)  BY <1>2 DEF Ahead
  <2>2. Due(a)' = IF \E u \in Workers : Ahead(u, a)' THEN 1 ELSE 0  BY DEF Due
  <2> QED  BY <2>1, <2>2 DEF Due
<1>4. Budget' <= 2 * requests'  BY <1>1, BudgetGrows
<1>5. ASSUME NEW a \in Addrs, heap'[a].live
      PROVE  heap'[a].age >= 1 /\ heap'[a].age + Due(a)' + Budget' <= 1 + 2 * requests'
  <2>1. heap[a].age >= 1 /\ heap[a].age + Due(a) + Budget <= 1 + 2 * requests  BY <1>1, <1>2, <1>5
  <2>2. heap'[a].age = heap[a].age /\ heap[a].age \in Nat /\ Due(a) \in {0, 1}  BY <1>1, <1>2
  <2>3. Due(a)' \in {0, 1} /\ Due(a)' <= Due(a)  BY <1>3
  <2>4. /\ Budget \in Nat /\ requests \in Nat /\ Budget' \in Int /\ requests' \in Nat
        /\ Budget' + 2 * requests <= Budget + 2 * requests'
    BY <1>1
  <2> HIDE DEF Budget, Due
  <2>5. heap[a].age + Due(a)' + Budget' <= 1 + 2 * requests'  BY ONLY <2>1, <2>2, <2>3, <2>4
  <2> QED  BY <2>1, <2>2, <2>5
<1> QED  BY <1>4, <1>5 DEF AInv

\* The walk of get_hit begins: what it may age the nodes leaves the budget.
LEMMA GetLockAges == ASSUME CInv, AInv, NEW w \in Workers, GetLock(w) PROVE AInv'
<1>1. /\ Budget \in Nat /\ requests \in Nat /\ Budget <= 2 * requests
      /\ \A a \in Addrs : heap[a].age \in Nat /\ Due(a) \in {0, 1}
      /\ \A a \in Addrs : heap[a].live => /\ heap[a].age >= 1
                                          /\ heap[a].age + Due(a) + Budget <= 1 + 2 * requests
      /\ \A u \in Workers : pc[u] \in {"writeLock", "write"} => size[u] <= MaxObjectSize
  BY AgeFacts
<1>2. Goto(w, "getLock", "get") /\ UNCHANGED <<list, size, requests>>  BY DEF GetLock
<1>3. /\ Budget' = Budget + Delta(AddsAhead, "getLock", "get") + Delta(WalksAhead, "getLock", "get")
      /\ \A u \in Workers : pc'[u] = IF u = w THEN "get" ELSE pc[u]
  BY <1>2, BudgetMoves DEF CInv
<1>4. Delta(AddsAhead, "getLock", "get") = 0 /\ Delta(WalksAhead, "getLock", "get") = -1
  BY DEF Delta, AddsAhead, WalksAhead
<1>5. Budget' = Budget - 1  BY <1>1, <1>3, <1>4
<1>6. \A a \in Addrs : Due(a)' \in {0, 1}  BY DEF Due
<1>7. ASSUME NEW a \in Addrs, heap'[a].live
      PROVE  heap'[a].age >= 1 /\ heap'[a].age + Due(a)' + Budget' <= 1 + 2 * requests'
  <2>1. heap' = heap /\ requests' = requests  BY <1>2 DEF list
  <2>2. heap[a].age >= 1 /\ heap[a].age + Due(a) + Budget <= 1 + 2 * requests  BY <1>1, <1>7, <2>1
  <2>3. heap[a].age \in Nat /\ Due(a) \in {0, 1} /\ Due(a)' \in {0, 1}  BY <1>1, <1>6
  <2> QED  BY <1>1, <1>5, <2>1, <2>2, <2>3
<1>8. Budget' <= 2 * requests'  BY <1>1, <1>2, <1>5
<1>9. \A u \in Workers : pc'[u] \in {"writeLock", "write"} => size'[u] <= MaxObjectSize  BY <1>1, <1>2, <1>3
<1> QED  BY <1>7, <1>8, <1>9 DEF AInv

\* A step of the walk leaves one node fewer ahead.
LEMMA WalkPasses ==
    ASSUME CInv, [Next]_vars, NEW w \in Workers, GetMatch(w) \/ GetNext(w),
           NEW a \in Addrs, heap[a].live
    PROVE  /\ Due(a) \in {0, 1} /\ Due(a)' \in {0, 1} /\ Due(a)' <= Due(a)
           /\ a = ptr[w] => Due(a) = 1 /\ Due(a)' = 0
<1> DEFINE c == Nodes(head)
           p == ptr[w]
<1>1. /\ Chain(c, heap, head) /\ ListLike(c)
      /\ Cached = On(c) /\ Cached = {b \in Addrs : heap[b].live}
  BY ListFacts
<1>2. Nodes(head)' = c /\ SameLinks(heap, heap')  BY GetKeeps
<1>3. pc[w] = "get" /\ p # Nil /\ p \in Addrs /\ UNCHANGED pc /\ Advance(w)
  BY DEF GetMatch, GetNext, Visits, CInv, Typed, Pointers
<1>4. \A u \in Workers : pc[u] = "get" => u = w  BY <1>3, NoWalkMeanwhile DEF CInv, WritingAt
<1>5. heap[p].live => ptr'[w] = heap[p].next  BY <1>3, Advances
<1>6. Due(a) = IF Ahead(w, a) THEN 1 ELSE 0  BY <1>4 DEF Due, Ahead
<1>7. Due(a)' = IF Ahead(w, a)' THEN 1 ELSE 0
  <2>1. Due(a)' = IF \E u \in Workers : Ahead(u, a)' THEN 1 ELSE 0  BY DEF Due
  <2>2. \A u \in Workers : Ahead(u, a)' => u = w  BY <1>3, <1>4 DEF Ahead
  <2> QED  BY <2>1, <2>2
<1>8. heap[p].live => (Ahead(w, a)' <=> /\ heap[p].next # Nil
                                        /\ heap'[heap[p].next].live =>
                                             \E i, j \in 0 .. Last : j <= i /\ c[j] = heap[p].next /\ c[i] = a)
  BY <1>2, <1>3, <1>5 DEF Ahead
<1>9. Ahead(w, a) <=> (heap[p].live => \E i, j \in 0 .. Last : j <= i /\ c[j] = p /\ c[i] = a)
  BY <1>3 DEF Ahead
<1> HIDE DEF c, p
<1>10. CASE ~heap[p].live
  <2>1. a # p /\ Ahead(w, a)  BY <1>9, <1>10
  <2> QED  BY <1>6, <1>7, <2>1 DEF p
<1>11. CASE heap[p].live
  <2>1. PICK k \in 0 .. Last : c[k] = p  BY <1>1, <1>3, <1>11 DEF On
  <2>2. k + 1 \in 1 .. Last /\ (k + 1) - 1 = k /\ k + 1 \in 0 .. Last
    <3>1. k # Last  BY <1>1, <1>3, <2>1 DEF ListLike
    <3> QED  BY <3>1, LastIsNat
  <2>3. c[k + 1] = heap[p].next
    <3>1. c[k + 1] = IF c[k] = Nil THEN Nil ELSE heap[c[k]].next  BY <1>1, <2>2 DEF Chain
    <3> QED  BY <1>3, <2>1, <3>1
  <2>4. ASSUME Ahead(w, a)' PROVE Ahead(w, a) /\ a # p
    <3>1. heap[p].next # Nil  BY <1>8, <1>11, <2>4
    <3>2. heap[p].next \in Addrs /\ heap[heap[p].next].live
      <4>1. heap[p].next \in On(c)  BY <2>2, <2>3, <3>1 DEF On
      <4> QED  BY <1>1, <4>1
    <3>3. heap'[heap[p].next].live  BY <1>2, <3>2 DEF SameLinks
    <3>4. PICK i \in 0 .. Last, j \in 0 .. Last : j <= i /\ c[j] = heap[p].next /\ c[i] = a
      BY <1>8, <1>11, <2>4, <3>3
    <3>5. j = k + 1  BY <1>1, <2>2, <2>3, <3>1, <3>4 DEF ListLike
    <3>6. k <= i /\ i # k  BY <3>4, <3>5
    <3>7. Ahead(w, a)  BY <1>9, <2>1, <3>4, <3>6
    <3>8. a # p  BY <1>1, <1>3, <2>1, <3>4, <3>6 DEF ListLike
    <3> QED  BY <3>7, <3>8
  <2>5. a = p => Ahead(w, a)  BY <1>9, <2>1
  <2> QED  BY <1>6, <1>7, <2>4, <2>5 DEF p
<1> QED  BY <1>10, <1>11

\* The walk ages each node once.
LEMMA WalkAges ==
    ASSUME AgeMod > 2 * MaxRequests + 1,
           CInv, AInv, [Next]_vars, NEW w \in Workers, GetMatch(w) \/ GetNext(w)
    PROVE  AInv'
<1>1. /\ Budget \in Nat /\ requests \in Nat /\ requests <= MaxRequests /\ Budget <= 2 * requests
      /\ \A a \in Addrs : heap[a].age \in Nat /\ Due(a) \in {0, 1}
      /\ \A a \in Addrs : heap[a].live => /\ heap[a].age >= 1
                                          /\ heap[a].age + Due(a) + Budget <= 1 + 2 * requests
      /\ \A u \in Workers : pc[u] \in {"writeLock", "write"} => size[u] <= MaxObjectSize
  BY AgeFacts
<1>2. /\ SameLinks(heap, heap')
      /\ \A b \in Addrs : heap'[b].age = IF b # ptr[w] THEN heap[b].age
                                         ELSE IF GetMatch(w) THEN 1 ELSE Older(heap[b].age)
  BY GetKeeps
<1>3. UNCHANGED <<pc, requests>> /\ pc[w] = "get"  BY DEF GetMatch, GetNext, Visits
<1>4. Budget' = Budget  BY <1>3, BudgetStays
<1>5. ASSUME NEW a \in Addrs, heap'[a].live
      PROVE  heap'[a].age >= 1 /\ heap'[a].age + Due(a)' + Budget' <= 1 + 2 * requests'
  <2>1. heap[a].live  BY <1>2, <1>5 DEF SameLinks
  <2>2. /\ Due(a) \in {0, 1} /\ Due(a)' \in {0, 1} /\ Due(a)' <= Due(a)
        /\ a = ptr[w] => Due(a) = 1 /\ Due(a)' = 0
    BY <2>1, WalkPasses
  <2>3. /\ heap[a].age >= 1 /\ heap[a].age + Due(a) + Budget <= 1 + 2 * requests
        /\ heap[a].age \in Nat
    BY <1>1, <2>1
  <2>4. CASE a # ptr[w]
    <3>1. heap'[a].age = heap[a].age  BY <1>2, <2>4
    <3> QED  BY <1>1, <1>3, <1>4, <2>2, <2>3, <3>1
  <2>5. CASE a = ptr[w] /\ GetMatch(w)
    <3>1. heap'[a].age = 1  BY <1>2, <2>5
    <3> QED  BY <1>1, <1>3, <1>4, <2>2, <2>5, <3>1
  <2>6. CASE a = ptr[w] /\ ~GetMatch(w)
    <3>1. heap'[a].age = Older(heap[a].age)  BY <1>2, <2>6
    <3>2. Due(a) = 1 /\ Due(a)' = 0  BY <2>2, <2>6
    <3>3. heap[a].age + 1 < AgeMod
      <4>1. heap[a].age + 1 <= 1 + 2 * requests  BY <1>1, <2>3, <3>2
      <4>2. 1 + 2 * requests <= 2 * MaxRequests + 1 /\ MaxRequests \in Nat  BY <1>1, FiniteAssumption
      <4> QED  BY <1>1, <2>3, <4>1, <4>2, AgeAssumption
    <3>4. heap'[a].age = heap[a].age + 1  BY <2>3, <3>1, <3>3, OlderIsAge
    <3> QED  BY <1>1, <1>3, <1>4, <2>3, <3>2, <3>4
  <2> QED  BY <2>4, <2>5, <2>6
<1>6. \A u \in Workers : pc'[u] \in {"writeLock", "write"} => size'[u] <= MaxObjectSize
  <2>1. \A u \in Workers : u # w => size'[u] = size[u]  BY DEF GetMatch, GetNext, CInv, Typed
  <2> QED  BY <1>1, <1>3, <2>1
<1>7. Budget' <= 2 * requests'  BY <1>1, <1>3, <1>4
<1> QED  BY <1>5, <1>6, <1>7 DEF AInv

\* An eviction ages nobody.
LEMMA EvictAges == ASSUME CInv, AInv, [Next]_vars, NEW w \in Workers, RemoveOldest(w) PROVE AInv'
<1>1. /\ Budget \in Nat /\ requests \in Nat /\ Budget <= 2 * requests
      /\ \A a \in Addrs : heap[a].age \in Nat /\ Due(a) \in {0, 1}
      /\ \A a \in Addrs : heap[a].live => /\ heap[a].age >= 1
                                          /\ heap[a].age + Due(a) + Budget <= 1 + 2 * requests
      /\ \A u \in Workers : pc[u] \in {"writeLock", "write"} => size[u] <= MaxObjectSize
  BY AgeFacts
<1>2. PICK k : Removed(k)  BY EvictKeeps
<1>3. \A a \in Addrs : (heap'[a].live => heap[a].live) /\ heap'[a].age = heap[a].age
  BY <1>2, UnlinkFacts
<1>4. pc[w] = "write" /\ UNCHANGED <<pc, size, requests>>  BY DEF RemoveOldest
<1>5. Budget' = Budget  BY <1>4, BudgetStays
<1>6. ASSUME NEW a \in Addrs PROVE Due(a)' = 0
  <2>1. \A u \in Workers : pc[u] # "get"  BY <1>4, NoWalkMeanwhile DEF CInv, WritingAt
  <2>2. \A u \in Workers : ~Ahead(u, a)'  BY <1>4, <2>1 DEF Ahead
  <2>3. Due(a)' = IF \E u \in Workers : Ahead(u, a)' THEN 1 ELSE 0  BY DEF Due
  <2> QED  BY <2>2, <2>3
<1>7. ASSUME NEW a \in Addrs, heap'[a].live
      PROVE  heap'[a].age >= 1 /\ heap'[a].age + Due(a)' + Budget' <= 1 + 2 * requests'
  <2>1. /\ heap[a].age >= 1 /\ heap[a].age + Due(a) + Budget <= 1 + 2 * requests
        /\ heap[a].age \in Nat /\ Due(a) \in {0, 1} /\ Due(a)' = 0
    BY <1>1, <1>3, <1>6, <1>7
  <2> QED  BY <1>1, <1>3, <1>4, <1>5, <2>1
<1>8. \A u \in Workers : pc'[u] \in {"writeLock", "write"} => size'[u] <= MaxObjectSize  BY <1>1, <1>4
<1>9. Budget' <= 2 * requests'  BY <1>1, <1>4, <1>5
<1> QED  BY <1>7, <1>8, <1>9 DEF AInv

\* A store ages the others by one and leaves the budget.
LEMMA StoreAges ==
    ASSUME AgeMod > 2 * MaxRequests + 1,
           CInv, AInv, [Next]_vars, NEW w \in Workers, AddToCacheHead(w)
    PROVE  AInv'
<1>1. /\ Budget \in Nat /\ requests \in Nat /\ requests <= MaxRequests /\ Budget <= 2 * requests
      /\ \A a \in Addrs : heap[a].age \in Nat /\ Due(a) \in {0, 1}
      /\ \A a \in Addrs : heap[a].live => /\ heap[a].age >= 1
                                          /\ heap[a].age + Due(a) + Budget <= 1 + 2 * requests
      /\ \A u \in Workers : pc[u] \in {"writeLock", "write"} => size[u] <= MaxObjectSize
  BY AgeFacts
<1>2. PICK x : Added(w, x)  BY StoreKeeps
<1>3. /\ x \in Addrs /\ heap'[x].age = 1 /\ x \notin Cached
      /\ \A b \in Addrs \ {x} :
            /\ heap'[b].live = heap[b].live
            /\ heap'[b].age = IF b \in Cached THEN Older(heap[b].age) ELSE heap[b].age
  BY <1>2, AddFacts DEF Added
<1>4. Goto(w, "write", "writeUnlock") /\ pc[w] = "write" /\ UNCHANGED <<size, requests>>
  BY DEF AddToCacheHead, Goto
<1>5. /\ Budget' = Budget + Delta(AddsAhead, "write", "writeUnlock") + Delta(WalksAhead, "write", "writeUnlock")
      /\ \A u \in Workers : pc'[u] = IF u = w THEN "writeUnlock" ELSE pc[u]
  BY <1>4, BudgetMoves DEF CInv
<1>6. Delta(AddsAhead, "write", "writeUnlock") = -1 /\ Delta(WalksAhead, "write", "writeUnlock") = 0
  BY DEF Delta, AddsAhead, WalksAhead
<1>7. Budget' = Budget - 1  BY <1>1, <1>5, <1>6
<1>8. ASSUME NEW a \in Addrs PROVE Due(a)' = 0
  <2>1. \A u \in Workers : pc[u] # "get"  BY <1>4, NoWalkMeanwhile DEF CInv, WritingAt
  <2>2. \A u \in Workers : ~Ahead(u, a)'  BY <1>5, <2>1 DEF Ahead
  <2>3. Due(a)' = IF \E u \in Workers : Ahead(u, a)' THEN 1 ELSE 0  BY DEF Due
  <2> QED  BY <2>2, <2>3
<1>9. ASSUME NEW a \in Addrs, heap'[a].live
      PROVE  heap'[a].age >= 1 /\ heap'[a].age + Due(a)' + Budget' <= 1 + 2 * requests'
  <2>0. Due(a)' = 0  BY <1>8
  <2>1. CASE a = x
    <3>1. heap'[a].age = 1  BY <1>3, <2>1
    <3> QED  BY <1>1, <1>4, <1>7, <2>0, <3>1
  <2>2. CASE a # x
    <3>1. heap[a].live /\ a \in Cached
      <4>1. Cached = {b \in Addrs : heap[b].live}  BY ListFacts
      <4> QED  BY <1>3, <1>9, <2>2, <4>1
    <3>2. heap'[a].age = Older(heap[a].age)  BY <1>3, <2>2, <3>1
    <3>3. /\ heap[a].age >= 1 /\ heap[a].age + Due(a) + Budget <= 1 + 2 * requests
          /\ heap[a].age \in Nat /\ Due(a) \in {0, 1}
      BY <1>1, <3>1
    \* w itself is at a point where it may still store, so the budget is not spent.
    <3>4. Budget >= 1
      <4>1. w \in At(AddsAhead)  BY <1>4 DEF At, AddsAhead
      <4>2. Cardinality(At(AddsAhead)) \in Nat /\ Cardinality(At(AddsAhead)) # 0
            /\ Cardinality(At(WalksAhead)) \in Nat
        BY <4>1, CountIsNat
      <4> QED  BY <4>2 DEF Budget
    <3>5. heap[a].age + 1 <= 1 + 2 * requests  BY <1>1, <3>3, <3>4
    <3>6. heap[a].age + 1 < AgeMod
      <4>1. 1 + 2 * requests <= 2 * MaxRequests + 1 /\ MaxRequests \in Nat  BY <1>1, FiniteAssumption
      <4> QED  BY <1>1, <3>3, <3>5, <4>1, AgeAssumption
    <3>7. heap'[a].age = heap[a].age + 1  BY <3>2, <3>3, <3>6, OlderIsAge
    <3> QED  BY <1>1, <1>4, <1>7, <2>0, <3>3, <3>7
  <2> QED  BY <2>1, <2>2
<1>10. \A u \in Workers : pc'[u] \in {"writeLock", "write"} => size'[u] <= MaxObjectSize  BY <1>1, <1>4, <1>5
<1>11. Budget' <= 2 * requests'  BY <1>1, <1>4, <1>7
<1> QED  BY <1>9, <1>10, <1>11 DEF AInv

\* No request, no age.
LEMMA InitAInv == Init => AInv
<1> SUFFICES ASSUME Init PROVE AInv  OBVIOUS
<1>1. At(AddsAhead) = {} /\ At(WalksAhead) = {}  BY DEF Init, At, AddsAhead, WalksAhead
<1>2. Budget = 0  BY <1>1, FS_EmptySet DEF Budget
<1>3. requests = 0 /\ \A a \in Addrs : ~heap[a].live  BY DEF Init, NoNode
<1>4. \A w \in Workers : pc[w] = "idle"  BY DEF Init
<1> QED  BY <1>2, <1>3, <1>4 DEF AInv

\* A move between two points that leads to no walk and to no store.
LEMMA MoveAges ==
    ASSUME CInv, AInv, NEW w \in Workers, NEW from, NEW to, Goto(w, from, to), UNCHANGED <<list, requests>>,
           to \notin {"get", "writeLock", "write"},
           to \in AddsAhead => from \in AddsAhead, to \in WalksAhead => from \in WalksAhead,
           \A u \in Workers : u # w => ptr'[u] = ptr[u] /\ size'[u] = size[u]
    PROVE  AInv'
<1>1. Budget \in Nat /\ requests \in Nat  BY AgeFacts
<1>2. /\ Budget' = Budget + Delta(AddsAhead, from, to) + Delta(WalksAhead, from, to)
      /\ \A u \in Workers : pc'[u] = IF u = w THEN to ELSE pc[u]
  BY BudgetMoves DEF CInv
<1>3. Delta(AddsAhead, from, to) \in {-1, 0} /\ Delta(WalksAhead, from, to) \in {-1, 0}  BY DEF Delta
<1>4. Budget' \in Int /\ Budget' + 2 * requests <= Budget + 2 * requests'  BY <1>1, <1>2, <1>3
<1>5. \A u \in Workers : pc'[u] = "get" => pc[u] = "get" /\ ptr'[u] = ptr[u]  BY <1>2
<1>6. \A u \in Workers : pc'[u] \in {"writeLock", "write"} => size'[u] <= MaxObjectSize
  <2>1. \A u \in Workers : pc[u] \in {"writeLock", "write"} => size[u] <= MaxObjectSize  BY AgeFacts
  <2> QED  BY <1>2, <2>1
<1> QED  BY <1>1, <1>4, <1>5, <1>6, AgesStill

\* Nobody moves, and nothing changes that ages and sizes depend on.
LEMMA StillAges ==
    ASSUME CInv, AInv, UNCHANGED <<list, pc, size, requests>>,
           \A u \in Workers : pc[u] = "get" => ptr'[u] = ptr[u]
    PROVE  AInv'
<1>1. Budget \in Nat /\ requests \in Nat  BY AgeFacts
<1>2. Budget' = Budget  BY BudgetStays
<1>3. Budget' \in Int /\ Budget' + 2 * requests <= Budget + 2 * requests'  BY <1>1, <1>2
<1>4. \A u \in Workers : pc'[u] \in {"writeLock", "write"} => size'[u] <= MaxObjectSize
  BY AgeFacts
<1> QED  BY <1>1, <1>3, <1>4, AgesStill

\* A request that begins may age every node twice.
LEMMA RequestAges ==
    ASSUME CInv, AInv, NEW w \in Workers, NEW t \in Tags, Request(w, t)
    PROVE  AInv'
<1>1. Budget \in Nat /\ requests \in Nat  BY AgeFacts
<1>2. Goto(w, "idle", "readLock") /\ UNCHANGED list /\ requests' = requests + 1
      /\ \A u \in Workers : u # w => ptr'[u] = ptr[u] /\ size'[u] = size[u]
  BY DEF Request, CInv, Typed
<1>3. /\ Budget' = Budget + Delta(AddsAhead, "idle", "readLock") + Delta(WalksAhead, "idle", "readLock")
      /\ \A u \in Workers : pc'[u] = IF u = w THEN "readLock" ELSE pc[u]
  BY <1>2, BudgetMoves DEF CInv
<1>4. Delta(AddsAhead, "idle", "readLock") = 1 /\ Delta(WalksAhead, "idle", "readLock") = 1
  BY DEF Delta, AddsAhead, WalksAhead
<1>5. Budget' \in Int /\ Budget' + 2 * requests <= Budget + 2 * requests' /\ requests' \in Nat
  BY <1>1, <1>2, <1>3, <1>4
<1>6. \A u \in Workers : pc'[u] = "get" => pc[u] = "get" /\ ptr'[u] = ptr[u]  BY <1>2, <1>3
<1>7. \A u \in Workers : pc'[u] \in {"writeLock", "write"} => size'[u] <= MaxObjectSize
  <2>1. \A u \in Workers : pc[u] \in {"writeLock", "write"} => size[u] <= MaxObjectSize  BY AgeFacts
  <2> QED  BY <1>2, <1>3, <2>1
<1> QED  BY <1>2, <1>5, <1>6, <1>7, AgesStill

\* Only an object that may be stored gets to write_cache.
LEMMA WritePathAges ==
    ASSUME CInv, AInv, NEW w \in Workers, WriteLock(w) \/ (\E n \in Sizes : Fetch(w, n))
    PROVE  AInv'
<1>1. Budget \in Nat /\ requests \in Nat
      /\ \A u \in Workers : pc[u] \in {"writeLock", "write"} => size[u] <= MaxObjectSize
  BY AgeFacts
<1>2. ASSUME NEW from, NEW to, Goto(w, from, to), UNCHANGED <<list, requests, ptr>>,
             from \in AddsAhead, from \notin WalksAhead, to \notin WalksAhead, to # "get",
             \A u \in Workers : u # w => size'[u] = size[u],
             to \in {"writeLock", "write"} => size'[w] <= MaxObjectSize
      PROVE  AInv'
  <2>1. /\ Budget' = Budget + Delta(AddsAhead, from, to) + Delta(WalksAhead, from, to)
        /\ \A u \in Workers : pc'[u] = IF u = w THEN to ELSE pc[u]
    BY <1>2, BudgetMoves DEF CInv
  <2>2. Delta(AddsAhead, from, to) \in {-1, 0} /\ Delta(WalksAhead, from, to) = 0  BY <1>2 DEF Delta
  <2>3. Budget' \in Int /\ Budget' + 2 * requests <= Budget + 2 * requests'  BY <1>1, <1>2, <2>1, <2>2
  <2>4. \A u \in Workers : pc'[u] = "get" => pc[u] = "get" /\ ptr'[u] = ptr[u]  BY <1>2, <2>1
  <2>5. \A u \in Workers : pc'[u] \in {"writeLock", "write"} => size'[u] <= MaxObjectSize
    BY <1>1, <1>2, <2>1
  <2> QED  BY <1>1, <1>2, <2>3, <2>4, <2>5, AgesStill
<1>3. CASE WriteLock(w)
  <2>1. /\ Goto(w, "writeLock", "write") /\ pc[w] = "writeLock"
        /\ UNCHANGED <<list, requests, ptr>> /\ size' = size
    BY <1>3 DEF WriteLock, Goto
  <2>2. size'[w] <= MaxObjectSize  BY <1>1, <2>1
  <2> QED  BY <1>2, <2>1, <2>2 DEF AddsAhead, WalksAhead
<1>4. ASSUME NEW n \in Sizes, Fetch(w, n) PROVE AInv'
  <2> DEFINE to == IF n > MaxObjectSize THEN "idle" ELSE "writeLock"
  <2>1. Goto(w, "fetch", to) /\ UNCHANGED <<list, requests, ptr>> /\ size' = [size EXCEPT ![w] = n]
    BY <1>4 DEF Fetch
  <2>2. size'[w] = n /\ \A u \in Workers : u # w => size'[u] = size[u]  BY <2>1 DEF CInv, Typed
  <2>3. to = "writeLock" => n <= MaxObjectSize
    <3>1. n \in Nat /\ MaxObjectSize \in Nat  BY SizesAssumption
    <3> QED  BY <3>1
  <2>4. to \notin WalksAhead /\ to # "get" /\ to # "write"  BY DEF WalksAhead
  <2> HIDE DEF to
  <2> QED  BY <1>2, <2>1, <2>2, <2>3, <2>4 DEF AddsAhead, WalksAhead
<1> QED  BY <1>3, <1>4

\* Every step of a worker keeps the ages in their bounds.
LEMMA StepAInv == AgeMod > 2 * MaxRequests + 1 /\ CInv /\ AInv /\ [Next]_vars => AInv'
<1> SUFFICES ASSUME AgeMod > 2 * MaxRequests + 1, CInv, AInv, [Next]_vars PROVE AInv'  OBVIOUS
<1>1. ASSUME NEW w \in Workers,
             \/ ReadLock(w) \/ ReadCount(w) \/ ReadWait(w) \/ ReadUnlock(w)
             \/ LeaveLock(w) \/ LeaveCount(w) \/ LeaveUnlock(w)
             \/ GetUnlock(w) \/ WriteUnlock(w)
      PROVE AInv'
  <2>1. UNCHANGED <<list, requests, ptr, size>>
    BY <1>1 DEF ReadLock, ReadCount, ReadWait, ReadUnlock, LeaveLock, LeaveCount, LeaveUnlock, GetUnlock, WriteUnlock
  <2>2. CASE ReadLock(w)
    <3>1. Goto(w, "readLock", "readCount")  BY <2>2 DEF ReadLock
    <3> QED  BY <2>1, <3>1, MoveAges DEF AddsAhead, WalksAhead
  <2>3. CASE ReadCount(w)
    <3> DEFINE to == IF read_cnt' = 1 THEN "readWait" ELSE "readUnlock"
    <3>1. Goto(w, "readCount", to) /\ to \in {"readWait", "readUnlock"}  BY <2>3 DEF ReadCount
    <3> HIDE DEF to
    <3>2. PICK t \in {"readWait", "readUnlock"} : Goto(w, "readCount", t)  BY <3>1
    <3> QED  BY <2>1, <3>2, MoveAges DEF AddsAhead, WalksAhead
  <2>4. CASE ReadWait(w)
    <3>1. Goto(w, "readWait", "readUnlock")  BY <2>4 DEF ReadWait
    <3> QED  BY <2>1, <3>1, MoveAges DEF AddsAhead, WalksAhead
  <2>5. CASE ReadUnlock(w)
    <3>1. Goto(w, "readUnlock", "find")  BY <2>5 DEF ReadUnlock
    <3> QED  BY <2>1, <3>1, MoveAges DEF AddsAhead, WalksAhead
  <2>6. CASE LeaveLock(w)
    <3>1. Goto(w, "find", "leaveCount")  BY <2>6 DEF LeaveLock
    <3> QED  BY <2>1, <3>1, MoveAges DEF AddsAhead, WalksAhead
  <2>7. CASE LeaveCount(w)
    <3>1. Goto(w, "leaveCount", "leaveUnlock")  BY <2>7 DEF LeaveCount
    <3> QED  BY <2>1, <3>1, MoveAges DEF AddsAhead, WalksAhead
  <2>8. CASE LeaveUnlock(w)
    <3> DEFINE to == IF found[w] THEN "getHead" ELSE "fetch"
    <3>1. Goto(w, "leaveUnlock", to) /\ to \in {"getHead", "fetch"}  BY <2>8 DEF LeaveUnlock
    <3> HIDE DEF to
    <3>2. PICK t \in {"getHead", "fetch"} : Goto(w, "leaveUnlock", t)  BY <3>1
    <3> QED  BY <2>1, <3>2, MoveAges DEF AddsAhead, WalksAhead
  <2>9. CASE GetUnlock(w)
    <3> DEFINE to == IF found[w] THEN "idle" ELSE "fetch"
    <3>1. Goto(w, "get", to) /\ to \in {"idle", "fetch"}  BY <2>9 DEF GetUnlock
    <3> HIDE DEF to
    <3>2. PICK t \in {"idle", "fetch"} : Goto(w, "get", t)  BY <3>1
    <3> QED  BY <2>1, <3>2, MoveAges DEF AddsAhead, WalksAhead
  <2>10. CASE WriteUnlock(w)
    <3>1. Goto(w, "writeUnlock", "idle")  BY <2>10 DEF WriteUnlock
    <3> QED  BY <2>1, <3>1, MoveAges DEF AddsAhead, WalksAhead
  <2> QED  BY <1>1, <2>2, <2>3, <2>4, <2>5, <2>6, <2>7, <2>8, <2>9, <2>10
<1>2. ASSUME NEW w \in Workers, GetHead(w) PROVE AInv'
  <2>1. Goto(w, "getHead", "getLock") /\ UNCHANGED <<list, requests, size>>  BY <1>2 DEF GetHead
  <2>2. \A u \in Workers : u # w => ptr'[u] = ptr[u]  BY <1>2 DEF GetHead, CInv, Typed
  <2> QED  BY <2>1, <2>2, MoveAges DEF AddsAhead, WalksAhead
<1>3. ASSUME NEW w \in Workers, FindMatch(w) \/ FindNext(w) PROVE AInv'
  <2>1. UNCHANGED <<list, pc, size, requests>> /\ pc[w] = "find"  BY <1>3 DEF FindMatch, FindNext, Visits
  <2>2. \A u \in Workers : u # w => ptr'[u] = ptr[u]  BY <1>3, Advances DEF FindMatch, FindNext, Visits
  <2>3. \A u \in Workers : pc[u] = "get" => ptr'[u] = ptr[u]  BY <2>1, <2>2
  <2> QED  BY <2>1, <2>3, StillAges
<1>4. ASSUME NEW w \in Workers, Ruin(w) PROVE AInv'
  <2>1. UNCHANGED <<list, pc, size, requests, ptr>>  BY <1>4 DEF Ruin
  <2> QED  BY <2>1, StillAges
<1>5. CASE UNCHANGED vars
  <2>1. UNCHANGED <<list, pc, size, requests, ptr>>  BY <1>5 DEF vars
  <2> QED  BY <2>1, StillAges
<1> QED
  BY <1>1, <1>2, <1>3, <1>4, <1>5, RequestAges, GetLockAges, WalkAges, WritePathAges, EvictAges, StoreAges
  DEF Next, Step, FindHit, GetHit, WriteCache, Ended

\* A cache short of space has a node to evict.
LEMMA AgesLetEvict == CInv /\ AInv => EvictionProgresses
<1> SUFFICES ASSUME CInv, AInv, NEW w \in Workers, pc[w] = "write", Full(w)
             PROVE  \E a \in Cached : heap[a].age > 0
  BY DEF EvictionProgresses
<1>1. /\ \A a \in Addrs : heap[a].age \in Nat
      /\ \A a \in Addrs : heap[a].live => heap[a].age >= 1
      /\ size[w] <= MaxObjectSize
  BY AgeFacts
<1>2. /\ \A a \in Addrs : heap[a].size \in Nat
      /\ Cached = {a \in Addrs : heap[a].live} /\ total_size = Total(heap, Cached)
  BY ListFacts
<1>3. size[w] + total_size > MaxCacheSize  BY DEF Full
<1>4. MaxObjectSize \in Nat /\ MaxCacheSize \in Nat /\ MaxObjectSize <= MaxCacheSize /\ size[w] \in Nat
      /\ total_size \in 0 .. MaxCacheSize
  BY SizesAssumption DEF CInv, Typed
<1>5. Cached # {}
  <2>1. total_size # 0  BY <1>1, <1>3, <1>4
  <2> QED  BY <1>2, <2>1, TotalEmpty
<1>6. PICK a \in Cached : TRUE  BY <1>5
<1>7. heap[a].age > 0  BY <1>1, <1>2, <1>6
<1> QED  BY <1>6, <1>7

\* The list, its totals and its ages, for any number of workers: while ages
\* cannot wrap, which takes half as many requests as there are ages, the loop
\* of write_cache that waits for space finds a node to evict each time round.
THEOREM ListIsSound == AgeMod > 2 * MaxRequests + 1 /\ Spec => []ListSound
<1> SUFFICES ASSUME AgeMod > 2 * MaxRequests + 1 PROVE Spec => []ListSound
  OBVIOUS
<1>1. Init => CInv /\ AInv  BY InitCInv, InitAInv
<1>2. CInv /\ AInv /\ [Next]_vars => CInv' /\ AInv'  BY StepCInv, StepAInv
<1>3. CInv /\ AInv => ListSound  BY CInvTypes, AgesLetEvict DEF ListSound, CInv, ListInv
<1> QED  BY <1>1, <1>2, <1>3, PTL DEF Spec
---------------------------------------------------------------------------
(* Walks and what overtakes them.  The head a walk begins at is read before *)
(* the lock, so others may come in between; but a walk that none of them    *)
(* has disturbed goes from node to node of the list and misses none.        *)

\* Where ptr is a place in the list, and where nothing was found for sure.
WalkingAt == {"readLock", "readCount", "readWait", "readUnlock", "find", "getLock", "get"}
MissedAt == {"fetch", "writeLock", "write"}

\* Of the list c, a is at p or beyond.
Beyond(c, p, a) == \E i, j \in 0 .. Last : j <= i /\ c[j] = p /\ c[i] = a

\* No other worker has evicted anything or stored an object under w's tag.
Undisturbed(w) == since[w] \cap {"evicted", "stored"} = {}

\* Unless something was evicted, a walk is in the list.  If it is undisturbed
\* and has found nothing it has the nodes with its tag ahead of it.
Seeks(w) ==
    /\ "evicted" \notin since[w] => /\ "strayed" \notin since[w]
                                    /\ pc[w] \in WalkingAt => ptr[w] \in Cached \cup {Nil}
    /\ Undisturbed(w) /\ pc[w] \in WalkingAt /\ ~found[w] =>
         \A a \in Cached : heap[a].tag = tag[w] => Beyond(Nodes(head), ptr[w], a)

\* For a worker that was undisturbed and has found nothing there is no node.
Misses(w) == Undisturbed(w) /\ (\/ pc[w] \in MissedAt
                                \/ pc[w] \in {"leaveCount", "leaveUnlock"} /\ ~found[w])
             => \A a \in Cached : heap[a].tag # tag[w]

SInv == \A w \in Workers : Seeks(w) /\ Misses(w)

\* A node that is cached is at the head or beyond.
LEMMA HeadIsFirst ==
    ASSUME CInv
    PROVE  /\ head \in Cached \cup {Nil} /\ Nil \notin Cached
           /\ \A a \in Cached : Beyond(Nodes(head), head, a)
<1> DEFINE c == Nodes(head)
<1>1. Chain(c, heap, head) /\ Cached = On(c)  BY ListFacts
<1> HIDE DEF c
<1>2. c[0] = head /\ 0 \in 0 .. Last /\ \A i \in 0 .. Last : 0 <= i  BY <1>1, LastIsNat DEF Chain
<1>3. head \in Cached \cup {Nil} /\ Nil \notin Cached  BY <1>1, <1>2 DEF On
<1>4. \A a \in Cached : \E i \in 0 .. Last : c[i] = a  BY <1>1 DEF On
<1>5. \A a \in Cached : Beyond(c, head, a)  BY <1>2, <1>4 DEF Beyond
<1> QED  BY <1>3, <1>5 DEF c

\* Nothing is beyond the end, and what is beyond a node but not at it is
\* beyond the next.
LEMMA NextIsBeyond ==
    ASSUME CInv, NEW p \in Cached
    PROVE  /\ heap[p].next \in Cached \cup {Nil}
           /\ \A a \in Cached : Beyond(Nodes(head), p, a) /\ a # p => Beyond(Nodes(head), heap[p].next, a)
<1> DEFINE c == Nodes(head)
<1>1. Chain(c, heap, head) /\ Cached = On(c) /\ ListLike(c)  BY ListFacts
<1> HIDE DEF c
<1>2. p # Nil /\ \E k \in 0 .. Last : c[k] = p  BY <1>1 DEF On
<1>3. PICK k \in 0 .. Last : c[k] = p  BY <1>2
<1>4. k # Last  BY <1>1, <1>2, <1>3 DEF ListLike
<1>5. k + 1 \in 1 .. Last /\ (k + 1) - 1 = k /\ k + 1 \in 0 .. Last  BY <1>4, LastIsNat
<1>6. c[k + 1] = heap[p].next
  <2>1. c[k + 1] = IF c[k] = Nil THEN Nil ELSE heap[c[k]].next  BY <1>1, <1>5 DEF Chain
  <2> QED  BY <1>2, <1>3, <2>1
<1>7. heap[p].next \in Cached \cup {Nil}  BY <1>1, <1>5, <1>6 DEF On
<1>8. ASSUME NEW a \in Cached, Beyond(c, p, a), a # p PROVE Beyond(c, heap[p].next, a)
  <2>1. PICK i \in 0 .. Last, j \in 0 .. Last : j <= i /\ c[j] = p /\ c[i] = a  BY <1>8 DEF Beyond
  <2>2. j = k  BY <1>1, <1>2, <1>3, <2>1 DEF ListLike
  <2>3. k + 1 <= i
    <3>1. i # k  BY <1>3, <1>8, <2>1
    <3> QED  BY <2>1, <2>2, <3>1
  <2> QED  BY <1>5, <1>6, <2>1, <2>3 DEF Beyond
<1> QED  BY <1>7, <1>8 DEF c

LEMMA NothingBeyondEnd ==
    ASSUME CInv
    PROVE  \A a \in Cached : ~Beyond(Nodes(head), Nil, a)
<1> DEFINE c == Nodes(head)
<1>1. Chain(c, heap, head) /\ Cached = On(c)  BY ListFacts
<1> HIDE DEF c
<1> SUFFICES ASSUME NEW a \in Cached, Beyond(c, Nil, a) PROVE FALSE  BY DEF c
<1>2. PICK i \in 0 .. Last, j \in 0 .. Last : j <= i /\ c[j] = Nil /\ c[i] = a  BY DEF Beyond
<1>3. i \in j .. Last  BY <1>2, LastIsNat
<1>4. a = Nil  BY <1>1, <1>2, <1>3, ChainEnds
<1> QED  BY <1>1, <1>4 DEF On

\* Steps that change no link, no tag and no cached node.
SameTags == /\ Cached' = Cached /\ Nodes(head)' = Nodes(head)
            /\ \A a \in Addrs : heap'[a].tag = heap[a].tag

\* Steps that are one worker's.
OthersStay(w) == \A u \in Workers : u # w => /\ pc'[u] = pc[u] /\ tag'[u] = tag[u] /\ ptr'[u] = ptr[u]
                                             /\ found'[u] = found[u] /\ since'[u] = since[u]

\* Then what concerns the worker is all there is to show.
LEMMA SameTagsKeep ==
    ASSUME CInv, SInv, SameTags, NEW w \in Workers, OthersStay(w), Seeks(w)', Misses(w)'
    PROVE  SInv'
<1>1. Cached \in SUBSET Addrs  BY ListFacts
<1>2. \A a \in Cached : heap'[a].tag = heap[a].tag  BY <1>1 DEF SameTags
<1>3. ASSUME NEW u \in Workers, u # w PROVE Seeks(u)' /\ Misses(u)'
  <2>1. /\ pc'[u] = pc[u] /\ tag'[u] = tag[u] /\ ptr'[u] = ptr[u] /\ found'[u] = found[u] /\ since'[u] = since[u]
    BY <1>3 DEF OthersStay
  <2>2. Seeks(u) /\ Misses(u)  BY DEF SInv
  <2>3. Seeks(u)'  BY <1>2, <2>1, <2>2 DEF Seeks, Undisturbed, SameTags, Beyond
  <2>4. Misses(u)'  BY <1>2, <2>1, <2>2 DEF Misses, Undisturbed, SameTags
  <2> QED  BY <2>3, <2>4
<1> QED  BY <1>3 DEF SInv

\* A list nobody touches.
LEMMA ListSameTags == ASSUME CInv, UNCHANGED list PROVE SameTags
BY ListUnchanged DEF SameTags, list

\* A worker that moves on without looking at a node.
LEMMA WalkMoves ==
    ASSUME CInv, SInv, SameTags, NEW w \in Workers, NEW from, NEW to, Goto(w, from, to),
           UNCHANGED <<tag, ptr, found, since>>,
           to \in WalkingAt => from \in WalkingAt,
           Undisturbed(w) /\ (to \in MissedAt \/ (to \in {"leaveCount", "leaveUnlock"} /\ ~found[w]))
             => \A a \in Cached : heap[a].tag # tag[w]
    PROVE  SInv'
<1>1. Cached \in SUBSET Addrs  BY ListFacts
<1>2. Seeks(w) /\ pc[w] = from /\ pc'[w] = to  BY DEF SInv, Goto, CInv, IInv, LocksTyped
<1>3. \A a \in Cached : heap'[a].tag = heap[a].tag  BY <1>1 DEF SameTags
<1>4. Seeks(w)'  BY <1>2, <1>3 DEF Seeks, Undisturbed, SameTags, Beyond
<1>5. Misses(w)'  BY <1>2, <1>3 DEF Misses, Undisturbed, SameTags
<1>6. OthersStay(w)  BY DEF OthersStay, Goto, CInv, IInv, LocksTyped
<1> QED  BY <1>4, <1>5, <1>6, SameTagsKeep

\* A worker that looks at a node: of the list, unless it was overtaken.
LEMMA WalkLooks ==
    ASSUME CInv, SInv, NEW w \in Workers, pc[w] \in WalkingAt, ptr[w] # Nil, Looks(w),
           "evicted" \notin since'[w]
    PROVE  /\ ptr[w] \in Cached /\ heap[ptr[w]].live /\ since' = since
           /\ ~found[w] /\ Undisturbed(w) =>
                \A a \in Cached : heap[a].tag = tag[w] => Beyond(Nodes(head), ptr[w], a)
<1>1. "evicted" \notin since[w]  BY Looked
<1>2. ptr[w] \in Cached  BY <1>1 DEF SInv, Seeks
<1>3. heap[ptr[w]].live  BY <1>2, ListFacts
<1>4. since' = since
  <2>1. \A u \in Workers : since'[u] = since[u]  BY <1>3, Looked
  <2>2. since' \in [Workers -> SUBSET Events] /\ since \in [Workers -> SUBSET Events]  BY Looked DEF CInv, Typed
  <2> QED  BY <2>1, <2>2
<1> QED  BY <1>2, <1>3, <1>4 DEF SInv, Seeks

\* A worker that steps to the next node.
LEMMA WalkAdvances ==
    ASSUME CInv, SInv, SameTags, NEW w \in Workers, pc[w] \in WalkingAt, ptr[w] # Nil,
           UNCHANGED <<pc, tag>>, Advance(w), Looks(w),
           \A u \in Workers : u # w => found'[u] = found[u],
           found'[w] \/ (~found[w] /\ Differs(w))
    PROVE  SInv'
<1> DEFINE c == Nodes(head)
           p == ptr[w]
<1>1. Cached \in SUBSET Addrs  BY ListFacts
<1>2. /\ \A u \in Workers : u # w => ptr'[u] = ptr[u]
      /\ heap[p].live => ptr'[w] = heap[p].next
  BY Advances
<1>3. \A u \in Workers : u # w => since'[u] = since[u]  BY Looked
<1>4. OthersStay(w)  BY <1>2, <1>3 DEF OthersStay
<1> HIDE DEF c
<1>5. ASSUME "evicted" \notin since'[w]
      PROVE  /\ "strayed" \notin since'[w] /\ ptr'[w] \in Cached \cup {Nil}
             /\ Undisturbed(w)' /\ ~found'[w] => \A a \in Cached : heap[a].tag = tag[w] => Beyond(c, ptr'[w], a)
  <2>1. /\ p \in Cached /\ heap[p].live /\ since' = since
        /\ ~found[w] /\ Undisturbed(w) => \A a \in Cached : heap[a].tag = tag[w] => Beyond(c, p, a)
    BY <1>5, WalkLooks DEF c
  <2>2. /\ heap[p].next \in Cached \cup {Nil}
        /\ \A a \in Cached : Beyond(c, p, a) /\ a # p => Beyond(c, heap[p].next, a)
    BY <2>1, NextIsBeyond DEF c
  <2>3. "strayed" \notin since'[w]  BY <1>5, <2>1 DEF SInv, Seeks
  <2>4. ASSUME Undisturbed(w)', ~found'[w], NEW a \in Cached, heap[a].tag = tag[w] PROVE Beyond(c, ptr'[w], a)
    <3>1. Undisturbed(w) /\ ~found[w]  BY <2>1, <2>4 DEF Undisturbed
    <3>2. a # p  BY <2>1, <2>4 DEF Differs, OnFreed
    <3> QED  BY <1>2, <2>1, <2>2, <2>4, <3>1, <3>2
  <2> QED  BY <1>2, <2>1, <2>2, <2>3, <2>4
<1>6. Undisturbed(w)' => "evicted" \notin since'[w]  BY DEF Undisturbed
<1>7. Seeks(w)'
  <2>1. \A a \in Cached : heap'[a].tag = heap[a].tag  BY <1>1 DEF SameTags
  <2>2. c = Nodes(head)  BY DEF c
  <2> QED  BY <1>5, <1>6, <2>1, <2>2 DEF Seeks, Beyond, SameTags
<1>8. Misses(w)'
  <2>1. pc'[w] \notin MissedAt /\ pc'[w] \notin {"leaveCount", "leaveUnlock"}
    BY DEF WalkingAt, MissedAt
  <2> QED  BY <2>1 DEF Misses
<1> QED  BY <1>4, <1>7, <1>8, SameTagsKeep

\* A worker that starts from the head.
LEMMA WalkStarts ==
    ASSUME CInv, SInv, SameTags, NEW w \in Workers, NEW to, pc'[w] = to, to \in WalkingAt,
           ptr'[w] = head, since'[w] = {}, OthersStay(w)
    PROVE  SInv'
<1>1. Seeks(w)'
  <2>1. /\ ptr'[w] \in Cached' \cup {Nil}
        /\ \A a \in Cached' : Beyond(Nodes(head)', ptr'[w], a)
    BY HeadIsFirst DEF SameTags
  <2> QED  BY <2>1 DEF Seeks, Beyond
<1>2. Misses(w)'
  <2>1. pc'[w] \notin MissedAt /\ pc'[w] \notin {"leaveCount", "leaveUnlock"}
    BY DEF WalkingAt, MissedAt
  <2> QED  BY <2>1 DEF Misses
<1> QED  BY <1>1, <1>2, SameTagsKeep

\* An undisturbed walk at the end of the list has seen all of it.
LEMMA WalkMissed ==
    ASSUME CInv, SInv, NEW w \in Workers, pc[w] \in WalkingAt, ptr[w] = Nil, ~found[w], Undisturbed(w)
    PROVE  \A a \in Cached : heap[a].tag # tag[w]
BY NothingBeyondEnd DEF SInv, Seeks

\* An eviction disturbs everybody else and takes nothing from who evicts.
LEMMA WalksEvict ==
    ASSUME CInv, SInv, [Next]_vars, NEW w \in Workers, RemoveOldest(w)
    PROVE  SInv'
<1>1. PICK k : Removed(k)  BY EvictKeeps
<1>2. Cached' \in SUBSET Cached /\ Cached \in SUBSET Addrs /\ \A a \in Addrs : heap'[a].tag = heap[a].tag
  BY <1>1, RemovedKeeps, UnlinkFacts, ListFacts
<1>3. pc[w] = "write" /\ UNCHANGED <<pc, tag, found>> /\ Befalls("evicted", Workers \ {w})  BY DEF RemoveOldest
<1>4. \A u \in Workers : since'[u] = IF u # w THEN since[u] \cup {"evicted"} ELSE since[u]
  BY <1>3, Befallen DEF Events
<1>5. ASSUME NEW u \in Workers PROVE Seeks(u)' /\ Misses(u)'
  <2>1. CASE u # w
    <3>1. "evicted" \in since'[u]  BY <1>4, <2>1
    <3>2. ~Undisturbed(u)'  BY <3>1 DEF Undisturbed
    <3> QED  BY <3>1, <3>2 DEF Seeks, Misses
  <2>2. CASE u = w
    <3>1. since'[w] = since[w] /\ Seeks(w) /\ Misses(w)  BY <1>4 DEF SInv
    <3>2. Seeks(w)'  BY <1>3, <3>1 DEF Seeks, WalkingAt
    <3>3. Misses(w)'  BY <1>2, <1>3, <3>1 DEF Misses, Undisturbed
    <3> QED  BY <2>2, <3>2, <3>3
  <2> QED  BY <2>1, <2>2
<1> QED  BY <1>5 DEF SInv

\* Where the nodes are once one more is before them.
LEMMA PushedBeyond ==
    ASSUME CInv, NEW w, NEW x, Added(w, x)
    PROVE  \A p, a \in Cached : Beyond(Nodes(head), p, a) => Beyond(Nodes(head)', p, a)
<1> DEFINE c == Nodes(head)
           d == Nodes(head)'
<1>1. /\ heap \in [Addrs -> Node] /\ Chain(c, heap, head) /\ ListLike(c) /\ Cached = On(c)  BY ListFacts
<1>2. /\ heap' \in [Addrs -> Node] /\ Pushed(heap, heap', x, head) /\ x \notin Cached /\ head' = x /\ x \in Addrs
  BY AddFacts DEF Added
<1>3. head' \in Pointers  BY <1>2 DEF Pointers
<1>4. Chain(d, heap', x)  BY <1>2, <1>3, NodesAreChainPrime
<1> HIDE DEF c, d
<1>5. \A k \in 0 .. Last : c[k] # Nil => k + 1 \in 0 .. Last /\ d[k + 1] = c[k]
  BY <1>1, <1>2, <1>4, ChainPush
<1>6. ASSUME NEW p \in Cached, NEW a \in Cached, Beyond(c, p, a) PROVE Beyond(d, p, a)
  <2>1. PICK i \in 0 .. Last, j \in 0 .. Last : j <= i /\ c[j] = p /\ c[i] = a  BY <1>6 DEF Beyond
  <2>2. p # Nil /\ a # Nil  BY <1>1 DEF On
  <2>3. i + 1 \in 0 .. Last /\ j + 1 \in 0 .. Last /\ d[j + 1] = p /\ d[i + 1] = a  BY <1>5, <2>1, <2>2
  <2>4. j + 1 <= i + 1  BY <2>1, LastIsNat
  <2> QED  BY <2>3, <2>4 DEF Beyond
<1> QED  BY <1>6 DEF c, d

\* A store disturbs who wants the same tag; for the others the walk ahead is
\* what it was.
LEMMA WalksStore ==
    ASSUME CInv, SInv, [Next]_vars, NEW w \in Workers, AddToCacheHead(w)
    PROVE  SInv'
<1>1. PICK x : Added(w, x)  BY StoreKeeps
<1>2. Cached' = Cached \cup {x} /\ Cached \in SUBSET Addrs  BY <1>1, AddedKeeps, ListFacts
<1>3. x \notin Cached /\ heap'[x].tag = tag[w] /\ \A b \in Cached : heap'[b].tag = heap[b].tag
  <2>1. x \notin Cached /\ heap'[x].tag = tag[w] /\ \A b \in Addrs \ {x} : heap'[b].tag = heap[b].tag
    BY <1>1, AddFacts
  <2> QED  BY <1>2, <2>1
<1>4. /\ UNCHANGED <<tag, ptr, found>> /\ Befalls("stored", {v \in Workers \ {w} : tag[v] = tag[w]})
      /\ \A u \in Workers : pc'[u] = IF u = w THEN "writeUnlock" ELSE pc[u]
  BY DEF AddToCacheHead, Goto, CInv, IInv, LocksTyped
<1>5. \A u \in Workers : since'[u] = IF u # w /\ tag[u] = tag[w] THEN since[u] \cup {"stored"} ELSE since[u]
  BY <1>4, Befallen DEF Events
<1>6. \A p, a \in Cached : Beyond(Nodes(head), p, a) => Beyond(Nodes(head)', p, a)  BY <1>1, PushedBeyond
<1>7. pc[w] = "write"  BY DEF AddToCacheHead, Goto
<1>8. ASSUME NEW u \in Workers, u # w PROVE Seeks(u)' /\ Misses(u)'
  <2>1. /\ pc'[u] = pc[u] /\ tag'[u] = tag[u] /\ ptr'[u] = ptr[u] /\ found'[u] = found[u]  BY <1>4, <1>8
  <2>2. Seeks(u) /\ Misses(u)  BY DEF SInv
  <2>3. "evicted" \notin since'[u] => /\ "strayed" \notin since'[u]
                                      /\ pc'[u] \in WalkingAt => ptr'[u] \in Cached' \cup {Nil}
    <3>1. "evicted" \notin since'[u] => "evicted" \notin since[u]  BY <1>5
    <3>2. "strayed" \notin since[u] => "strayed" \notin since'[u]
      <4>1. since'[u] = since[u] \/ since'[u] = since[u] \cup {"stored"}  BY <1>5
      <4> QED  BY <4>1
    <3> QED  BY <1>2, <2>1, <2>2, <3>1, <3>2 DEF Seeks
  <2>4. ASSUME Undisturbed(u)' PROVE Undisturbed(u) /\ tag[u] # tag[w]
    BY <1>5, <1>8, <2>4 DEF Undisturbed
  <2>5. ASSUME Undisturbed(u)', pc'[u] \in WalkingAt, ~found'[u], NEW a \in Cached', heap'[a].tag = tag'[u]
        PROVE  Beyond(Nodes(head)', ptr'[u], a)
    <3>1. Undisturbed(u) /\ a # x  BY <1>3, <2>1, <2>4, <2>5
    <3>2. a \in Cached /\ heap[a].tag = tag[u]  BY <1>2, <1>3, <2>1, <2>5, <3>1
    <3>3. Beyond(Nodes(head), ptr[u], a)  BY <2>1, <2>2, <2>5, <3>1, <3>2 DEF Seeks
    <3>4. "evicted" \notin since[u]  BY <3>1 DEF Undisturbed
    <3>5. ptr[u] \in Cached
      <4>1. ptr[u] \in Cached \cup {Nil}  BY <2>1, <2>2, <2>5, <3>4 DEF Seeks
      <4>2. ptr[u] # Nil  BY <3>2, <3>3, NothingBeyondEnd
      <4> QED  BY <4>1, <4>2
    <3> QED  BY <1>6, <2>1, <3>2, <3>3, <3>5
  <2>6. Seeks(u)'
    <3> DEFINE d == Nodes(head)'
    <3>1. \A a \in Cached' : Undisturbed(u)' /\ pc'[u] \in WalkingAt /\ ~found'[u] /\ heap'[a].tag = tag'[u] =>
            Beyond(d, ptr'[u], a)
      BY <2>5
    <3> QED  BY <2>3, <3>1 DEF Seeks, Beyond
  <2>7. Misses(u)'
    <3>1. ASSUME Undisturbed(u)', NEW a \in Cached', \A b \in Cached : heap[b].tag # tag[u] PROVE heap'[a].tag # tag'[u]
      BY <1>2, <1>3, <2>1, <2>4, <3>1
    <3> QED  BY <2>1, <2>2, <2>4, <3>1 DEF Misses
  <2> QED  BY <2>6, <2>7
<1>9. Seeks(w)' /\ Misses(w)'
  <2>1. pc'[w] = "writeUnlock" /\ since'[w] = since[w] /\ Seeks(w)  BY <1>4, <1>5 DEF SInv
  <2> QED  BY <2>1 DEF Seeks, Misses, WalkingAt, MissedAt
<1> QED  BY <1>8, <1>9 DEF SInv

\* Nobody moves.
LEMMA WalksStill == ASSUME CInv, SInv, UNCHANGED <<list, pc, tag, ptr, found, since>> PROVE SInv'
<1>1. SameTags  BY ListSameTags
<1>2. Cached \in SUBSET Addrs  BY ListFacts
<1>3. \A a \in Cached : heap'[a].tag = heap[a].tag  BY <1>1, <1>2 DEF SameTags
<1>4. ASSUME NEW u \in Workers PROVE Seeks(u)' /\ Misses(u)'
  <2>1. Seeks(u) /\ Misses(u)  BY DEF SInv
  <2>2. Seeks(u)'  BY <1>1, <1>3, <2>1 DEF Seeks, Undisturbed, SameTags, Beyond
  <2>3. Misses(u)'  BY <1>1, <1>3, <2>1 DEF Misses, Undisturbed, SameTags
  <2> QED  BY <2>2, <2>3
<1> QED  BY <1>4 DEF SInv

\* Every step keeps the walks as they have to be.
LEMMA StepSInv == CInv /\ SInv /\ [Next]_vars => SInv'
<1> SUFFICES ASSUME CInv, SInv, [Next]_vars PROVE SInv'  OBVIOUS
<1>t. \A w \in Workers : found[w] \in BOOLEAN /\ Misses(w)  BY DEF CInv, Typed, SInv
<1>1. ASSUME NEW w \in Workers, NEW t \in Tags, Request(w, t) PROVE SInv'
  <2>1. UNCHANGED list /\ pc'[w] = "readLock" /\ ptr'[w] = head /\ since'[w] = {}
    BY <1>1 DEF Request, Goto, CInv, Typed, IInv, LocksTyped
  <2>2. OthersStay(w)  BY <1>1 DEF Request, Goto, OthersStay, CInv, Typed, IInv, LocksTyped
  <2>3. SameTags  BY <2>1, ListSameTags
  <2> QED  BY <2>1, <2>2, <2>3, WalkStarts DEF WalkingAt
<1>2. ASSUME NEW w \in Workers, NEW from, NEW to, Goto(w, from, to), UNCHANGED <<list, tag, ptr, found, since>>,
             to \in WalkingAt => from \in WalkingAt,
             to \notin MissedAt, to \notin {"leaveCount", "leaveUnlock"}
      PROVE  SInv'
  <2>1. SameTags  BY <1>2, ListSameTags
  <2> QED  BY <1>2, <2>1, WalkMoves
<1>3. ASSUME NEW w \in Workers, ReadLock(w) PROVE SInv'
  <2>1. Goto(w, "readLock", "readCount") /\ UNCHANGED <<list, tag, ptr, found, since>>  BY <1>3 DEF ReadLock
  <2> QED  BY <1>2, <2>1 DEF WalkingAt, MissedAt
<1>4. ASSUME NEW w \in Workers, ReadCount(w) PROVE SInv'
  <2> DEFINE to == IF read_cnt' = 1 THEN "readWait" ELSE "readUnlock"
  <2>1. Goto(w, "readCount", to) /\ UNCHANGED <<list, tag, ptr, found, since>>  BY <1>4 DEF ReadCount
  <2>2. to \in {"readWait", "readUnlock"}  OBVIOUS
  <2> HIDE DEF to
  <2>3. to \notin MissedAt /\ to \notin {"leaveCount", "leaveUnlock"} /\ "readCount" \in WalkingAt
    BY <2>2 DEF MissedAt, WalkingAt
  <2> QED  BY <1>2, <2>1, <2>3
<1>5. ASSUME NEW w \in Workers, ReadWait(w) PROVE SInv'
  <2>1. Goto(w, "readWait", "readUnlock") /\ UNCHANGED <<list, tag, ptr, found, since>>  BY <1>5 DEF ReadWait
  <2> QED  BY <1>2, <2>1 DEF WalkingAt, MissedAt
<1>6. ASSUME NEW w \in Workers, ReadUnlock(w) PROVE SInv'
  <2>1. Goto(w, "readUnlock", "find") /\ UNCHANGED <<list, tag, ptr, found, since>>  BY <1>6 DEF ReadUnlock
  <2> QED  BY <1>2, <2>1 DEF WalkingAt, MissedAt
<1>7. ASSUME NEW w \in Workers, FindMatch(w) PROVE SInv'
  <2>1. /\ UNCHANGED <<list, pc, tag, ptr>> /\ pc[w] = "find" /\ ptr[w] # Nil /\ found'[w] /\ Looks(w)
        /\ \A u \in Workers : u # w => found'[u] = found[u]
    BY <1>7 DEF FindMatch, Visits, CInv, Typed
  <2>2. SameTags  BY <2>1, ListSameTags
  <2>3. OthersStay(w)  BY <2>1, Looked DEF OthersStay
  <2>4. Seeks(w)'
    <3>1. ASSUME "evicted" \notin since'[w] PROVE "strayed" \notin since'[w] /\ ptr'[w] \in Cached' \cup {Nil}
      <4>1. ptr[w] \in Cached /\ since' = since  BY <2>1, <3>1, WalkLooks DEF WalkingAt
      <4> QED  BY <2>1, <2>2, <3>1, <4>1 DEF SInv, Seeks, SameTags
    <3> QED  BY <2>1, <3>1 DEF Seeks
  <2>5. Misses(w)'  BY <2>1 DEF Misses, MissedAt
  <2> QED  BY <2>2, <2>3, <2>4, <2>5, SameTagsKeep
<1>8. ASSUME NEW w \in Workers, FindNext(w) PROVE SInv'
  <2>1. /\ UNCHANGED <<list, pc, tag, found>> /\ pc[w] = "find" /\ ptr[w] # Nil /\ Advance(w) /\ Looks(w)
        /\ ~found[w] /\ Differs(w)
    BY <1>8 DEF FindNext, Visits
  <2>2. SameTags  BY <2>1, ListSameTags
  <2> QED  BY <2>1, <2>2, WalkAdvances DEF WalkingAt
<1>9. ASSUME NEW w \in Workers, LeaveLock(w) PROVE SInv'
  <2>1. Goto(w, "find", "leaveCount") /\ pc[w] = "find" /\ UNCHANGED <<list, tag, ptr, found, since>>
        /\ (found[w] \/ ptr[w] = Nil)
    BY <1>9 DEF LeaveLock, Goto
  <2>2. SameTags  BY <2>1, ListSameTags
  <2>3. ~found[w] /\ Undisturbed(w) => \A a \in Cached : heap[a].tag # tag[w]  BY <2>1, WalkMissed DEF WalkingAt
  <2> QED  BY <2>1, <2>2, <2>3, WalkMoves DEF WalkingAt, MissedAt
<1>10. ASSUME NEW w \in Workers, LeaveCount(w) PROVE SInv'
  <2>1. Goto(w, "leaveCount", "leaveUnlock") /\ pc[w] = "leaveCount" /\ UNCHANGED <<list, tag, ptr, found, since>>
    BY <1>10 DEF LeaveCount, Goto
  <2>2. SameTags  BY <2>1, ListSameTags
  <2>3. ~found[w] /\ Undisturbed(w) => \A a \in Cached : heap[a].tag # tag[w]  BY <1>t, <2>1 DEF Misses
  <2> QED  BY <2>1, <2>2, <2>3, WalkMoves DEF WalkingAt, MissedAt
<1>11. ASSUME NEW w \in Workers, LeaveUnlock(w) PROVE SInv'
  <2> DEFINE to == IF found[w] THEN "getHead" ELSE "fetch"
  <2>1. Goto(w, "leaveUnlock", to) /\ pc[w] = "leaveUnlock" /\ UNCHANGED <<list, tag, ptr, found, since>>
    BY <1>11 DEF LeaveUnlock, Goto
  <2>2. SameTags  BY <2>1, ListSameTags
  <2>3. ~found[w] /\ Undisturbed(w) => \A a \in Cached : heap[a].tag # tag[w]  BY <1>t, <2>1 DEF Misses
  <2>4. to \in {"getHead", "fetch"} /\ (to = "fetch" => ~found[w])  BY <1>t
  <2> HIDE DEF to
  <2> QED  BY <2>1, <2>2, <2>3, <2>4, WalkMoves DEF WalkingAt, MissedAt
<1>12. ASSUME NEW w \in Workers, GetHead(w) PROVE SInv'
  <2>1. UNCHANGED list /\ pc'[w] = "getLock" /\ ptr'[w] = head /\ since'[w] = {}
    BY <1>12 DEF GetHead, Goto, CInv, Typed, IInv, LocksTyped
  <2>2. OthersStay(w)  BY <1>12 DEF GetHead, Goto, OthersStay, CInv, Typed, IInv, LocksTyped
  <2>3. SameTags  BY <2>1, ListSameTags
  <2> QED  BY <2>1, <2>2, <2>3, WalkStarts DEF WalkingAt
<1>13. ASSUME NEW w \in Workers, GetLock(w) PROVE SInv'
  <2>1. Goto(w, "getLock", "get") /\ UNCHANGED <<list, tag, ptr, found, since>>  BY <1>13 DEF GetLock
  <2> QED  BY <1>2, <2>1 DEF WalkingAt, MissedAt
<1>14. ASSUME NEW w \in Workers, GetMatch(w) \/ GetNext(w) PROVE SInv'
  <2>1. SameTags  BY <1>14, GetKeeps DEF SameTags
  <2>2. UNCHANGED <<pc, tag>> /\ pc[w] = "get" /\ ptr[w] # Nil /\ Advance(w) /\ Looks(w)
    BY <1>14 DEF GetMatch, GetNext, Visits
  <2>3. \A u \in Workers : u # w => found'[u] = found[u]  BY <1>14 DEF GetMatch, GetNext, CInv, Typed
  <2>4. found'[w] \/ (~found[w] /\ Differs(w))
    <3>1. CASE GetMatch(w)  BY <3>1 DEF GetMatch, CInv, Typed
    <3>2. CASE GetNext(w)  BY <1>t, <3>2 DEF GetNext
    <3> QED  BY <1>14, <3>1, <3>2
  <2> QED  BY <2>1, <2>2, <2>3, <2>4, WalkAdvances DEF WalkingAt
<1>15. ASSUME NEW w \in Workers, GetUnlock(w) PROVE SInv'
  <2> DEFINE to == IF found[w] THEN "idle" ELSE "fetch"
  <2>1. Goto(w, "get", to) /\ pc[w] = "get" /\ ptr[w] = Nil /\ UNCHANGED <<list, tag, ptr, found, since>>
    BY <1>15 DEF GetUnlock, Goto
  <2>2. SameTags  BY <2>1, ListSameTags
  <2>3. ~found[w] /\ Undisturbed(w) => \A a \in Cached : heap[a].tag # tag[w]  BY <2>1, WalkMissed DEF WalkingAt
  <2>4. to \in {"idle", "fetch"} /\ (to = "fetch" => ~found[w])  BY <1>t
  <2> HIDE DEF to
  <2> QED  BY <2>1, <2>2, <2>3, <2>4, WalkMoves DEF WalkingAt, MissedAt
<1>16. ASSUME NEW w \in Workers, NEW n \in Sizes, Fetch(w, n) PROVE SInv'
  <2> DEFINE to == IF n > MaxObjectSize THEN "idle" ELSE "writeLock"
  <2>1. Goto(w, "fetch", to) /\ pc[w] = "fetch" /\ UNCHANGED <<list, tag, ptr, found, since>>
    BY <1>16 DEF Fetch, Goto
  <2>2. SameTags  BY <2>1, ListSameTags
  <2>3. Undisturbed(w) => \A a \in Cached : heap[a].tag # tag[w]  BY <1>t, <2>1 DEF Misses, MissedAt
  <2>4. to \in {"idle", "writeLock"}  OBVIOUS
  <2> HIDE DEF to
  <2> QED  BY <2>1, <2>2, <2>3, <2>4, WalkMoves DEF WalkingAt, MissedAt
<1>17. ASSUME NEW w \in Workers, WriteLock(w) PROVE SInv'
  <2>1. Goto(w, "writeLock", "write") /\ pc[w] = "writeLock" /\ UNCHANGED <<list, tag, ptr, found, since>>
    BY <1>17 DEF WriteLock, Goto
  <2>2. SameTags  BY <2>1, ListSameTags
  <2>3. Undisturbed(w) => \A a \in Cached : heap[a].tag # tag[w]  BY <1>t, <2>1 DEF Misses, MissedAt
  <2> QED  BY <2>1, <2>2, <2>3, WalkMoves DEF WalkingAt, MissedAt
<1>18. ASSUME NEW w \in Workers, WriteUnlock(w) PROVE SInv'
  <2>1. Goto(w, "writeUnlock", "idle") /\ UNCHANGED <<list, tag, ptr, found, since>>  BY <1>18 DEF WriteUnlock
  <2> QED  BY <1>2, <2>1 DEF WalkingAt, MissedAt
<1>19. CASE (\E w \in Workers : Ruin(w)) \/ UNCHANGED vars
  <2>1. UNCHANGED <<list, pc, tag, ptr, found, since>>  BY <1>19 DEF Ruin, vars
  <2> QED  BY <2>1, WalksStill
<1> QED
  BY <1>1, <1>3, <1>4, <1>5, <1>6, <1>7, <1>8, <1>9, <1>10, <1>11, <1>12, <1>13, <1>14, <1>15,
     <1>16, <1>17, <1>18, <1>19, WalksEvict, WalksStore
  DEF Next, Step, FindHit, GetHit, WriteCache, Ended

\* No worker looks for anything.
LEMMA InitSInv == Init => SInv
<1> SUFFICES ASSUME Init PROVE SInv  OBVIOUS
<1>1. \A w \in Workers : pc[w] = "idle" /\ since[w] = {}  BY DEF Init
<1> QED  BY <1>1 DEF SInv, Seeks, Misses, WalkingAt, MissedAt

\* A walk stands on a node of the list, and those are allocated; who has
\* missed misses still.
LEMMA WalksAreSound == CInv /\ SInv => OnlyRacesGoWrong
<1> SUFFICES ASSUME CInv, SInv PROVE OnlyRacesGoWrong  OBVIOUS
<1>1. Cached = {a \in Addrs : heap[a].live}  BY ListFacts
<1>2. ASSUME NEW w \in Workers, "evicted" \notin since[w], Visits(w, "find") \/ Visits(w, "get") PROVE ~OnFreed(w)
  <2>1. pc[w] \in WalkingAt /\ ptr[w] # Nil  BY <1>2 DEF Visits, WalkingAt
  <2>2. ptr[w] \in Cached  BY <1>2, <2>1 DEF SInv, Seeks
  <2> QED  BY <1>1, <2>2 DEF OnFreed
<1>3. StraysOnlyIfOvertaken  BY <1>2 DEF StraysOnlyIfOvertaken, SInv, Seeks
<1>4. StoresTwiceOnlyInRace  BY DEF StoresTwiceOnlyInRace, SInv, Misses, MissedAt, Undisturbed
<1> QED  BY <1>3, <1>4 DEF OnlyRacesGoWrong

\* However many workers there are, and whatever they look up, store and evict:
\* a walk stands on a freed node only if another worker has evicted one since
\* it read cp->head, and an object is stored beside another with its tag only
\* if another worker has stored or evicted one since.  The window the code
\* leaves by reading the head outside the lock is all that is wrong.
THEOREM OnlyRacesHurt == Spec => []OnlyRacesGoWrong
<1>1. Init => CInv /\ SInv  BY InitCInv, InitSInv
<1>2. CInv /\ SInv /\ [Next]_vars => CInv' /\ SInv'  BY StepCInv, StepSInv
<1>3. CInv /\ SInv => OnlyRacesGoWrong  BY WalksAreSound
<1> QED  BY <1>1, <1>2, <1>3, PTL DEF Spec
---------------------------------------------------------------------------
(* The cache as its callers see it: every step of the list and the locks is *)
(* a step of ObjectCache or leaves what it speaks of as it is.              *)

Kept == [a \in Cached |-> [tag |-> heap[a].tag, size |-> heap[a].size]]

LookingAt == {"readLock", "readCount", "readWait", "readUnlock", "find", "leaveCount", "leaveUnlock",
              "getHead", "getLock", "get"}

\* The call of a worker at p that holds n as the size and whom e befell.
PhaseAt(p, e) == IF p \in {"idle", "writeUnlock"} THEN "idle"
                 ELSE IF p = "fetch" THEN "missed"
                 ELSE IF p \in {"writeLock", "write"} THEN "storing"
                 ELSE IF "strayed" \in e THEN "astray" ELSE "looking"
InLookupAt(p, e) == PhaseAt(p, e) \in {"looking", "astray"}
CallAt(p, t, n, e) == [phase |-> PhaseAt(p, e), tag |-> t,
                       size |-> IF InLookupAt(p, e) \/ PhaseAt(p, e) = "missed" THEN 0 ELSE n]
CallOf(w) == CallAt(pc[w], tag[w], size[w], since[w])

\* That is what ObjectCall says.
LEMMA CallsUnfold ==
    /\ \A w \in Workers : ObjectCall[w] = CallOf(w)
    /\ ObjectCall = [w \in Workers |-> CallOf(w)]
<1>1. ASSUME NEW w \in Workers PROVE ObjectPhase(w) = PhaseAt(pc[w], since[w])  BY Zenon DEF ObjectPhase, PhaseAt
<1>2. ASSUME NEW w \in Workers
      PROVE  ObjectCall[w] = [phase |-> ObjectPhase(w), tag |-> tag[w],
                              size |-> IF LookingUp(w) \/ ObjectPhase(w) = "missed" THEN 0 ELSE size[w]]
  BY DEF ObjectCall
<1>3. ASSUME NEW w \in Workers PROVE LookingUp(w) = InLookupAt(pc[w], since[w])
  BY <1>1 DEF LookingUp, InLookupAt
<1>4. ASSUME NEW w \in Workers PROVE ObjectCall[w] = CallOf(w)
  BY <1>1, <1>2, <1>3, Zenon DEF CallAt, CallOf
<1>5. ObjectCall = [w \in Workers |-> ObjectCall[w]]  BY DEF ObjectCall
<1>6. [w \in Workers |-> ObjectCall[w]] = [w \in Workers |-> CallOf(w)]  BY <1>4
<1> QED  BY <1>4, <1>5, <1>6, Zenon

\* The same of the next state.
LEMMA CallsUnfoldPrime == ObjectCall' = [w \in Workers |-> CallOf(w)']
<1>1. ASSUME NEW w \in Workers PROVE ObjectPhase(w)' = PhaseAt(pc'[w], since'[w])  BY Zenon DEF ObjectPhase, PhaseAt
<1>2. ASSUME NEW w \in Workers
      PROVE  ObjectCall'[w] = [phase |-> ObjectPhase(w)', tag |-> tag'[w],
                               size |-> IF LookingUp(w)' \/ ObjectPhase(w)' = "missed" THEN 0 ELSE size'[w]]
  BY DEF ObjectCall
<1>3. ASSUME NEW w \in Workers PROVE LookingUp(w)' = InLookupAt(pc'[w], since'[w])
  BY <1>1 DEF LookingUp, InLookupAt
<1>4. ASSUME NEW w \in Workers PROVE ObjectCall'[w] = CallOf(w)'
  BY <1>1, <1>2, <1>3, Zenon DEF CallAt, CallOf
<1>5. ObjectCall' = [w \in Workers |-> ObjectCall'[w]]  BY DEF ObjectCall
<1>6. [w \in Workers |-> ObjectCall'[w]] = [w \in Workers |-> CallOf(w)']  BY <1>4
<1> QED  BY <1>5, <1>6, Zenon

\* Who is overtaken.
LEMMA OvertakenUnfold ==
    /\ Overtaken = {w \in Workers : InLookupAt(pc[w], since[w]) /\ "evicted" \in since[w]}
    /\ Overtaken' = {w \in Workers : InLookupAt(pc'[w], since'[w]) /\ "evicted" \in since'[w]}
<1>1. ASSUME NEW w \in Workers PROVE LookingUp(w) <=> InLookupAt(pc[w], since[w])
  <2>1. ObjectPhase(w) = PhaseAt(pc[w], since[w])  BY Zenon DEF ObjectPhase, PhaseAt
  <2> QED  BY <2>1 DEF LookingUp, InLookupAt
<1>2. ASSUME NEW w \in Workers PROVE LookingUp(w)' <=> InLookupAt(pc'[w], since'[w])
  <2>1. ObjectPhase(w)' = PhaseAt(pc'[w], since'[w])  BY Zenon DEF ObjectPhase, PhaseAt
  <2> QED  BY <2>1 DEF LookingUp, InLookupAt
<1> QED  BY <1>1, <1>2 DEF Overtaken

\* Who looks something up.
LEMMA LookingIs ==
    ASSUME NEW e
    PROVE  /\ \A p \in LookingAt : InLookupAt(p, e)
           /\ \A p \in {"idle", "writeUnlock", "fetch", "writeLock", "write"} : ~InLookupAt(p, e)
BY DEF LookingAt, InLookupAt, PhaseAt

\* The call of a worker that looks t up, and of one that does not.
Looking(t, e) == [phase |-> IF "strayed" \in e THEN "astray" ELSE "looking", tag |-> t, size |-> 0]
NotLooking(phase, t, n) == [phase |-> phase, tag |-> t, size |-> n]

\* What the calls are where.
LEMMA LookingCalls ==
    ASSUME NEW p \in LookingAt, NEW t, NEW n, NEW e
    PROVE  CallAt(p, t, n, e) = Looking(t, e)
<1>1. PhaseAt(p, e) = (IF "strayed" \in e THEN "astray" ELSE "looking") /\ InLookupAt(p, e)
  BY DEF PhaseAt, InLookupAt, LookingAt
<1> QED  BY <1>1 DEF CallAt, Looking

LEMMA Calls ==
    ASSUME NEW t, NEW n, NEW e
    PROVE  /\ \A p \in {"idle", "writeUnlock"} : CallAt(p, t, n, e) = NotLooking("idle", t, n)
           /\ CallAt("fetch", t, n, e) = NotLooking("missed", t, 0)
           /\ \A p \in {"writeLock", "write"} : CallAt(p, t, n, e) = NotLooking("storing", t, n)
<1>2. ASSUME NEW p \in {"idle", "writeUnlock"} PROVE CallAt(p, t, n, e) = NotLooking("idle", t, n)
  <2>1. PhaseAt(p, e) = "idle" /\ ~InLookupAt(p, e)  BY DEF PhaseAt, InLookupAt
  <2> QED  BY <2>1 DEF CallAt, NotLooking
<1>3. CallAt("fetch", t, n, e) = NotLooking("missed", t, 0)
  <2>1. PhaseAt("fetch", e) = "missed" /\ ~InLookupAt("fetch", e)  BY DEF PhaseAt, InLookupAt
  <2> QED  BY <2>1 DEF CallAt, NotLooking
<1>4. ASSUME NEW p \in {"writeLock", "write"} PROVE CallAt(p, t, n, e) = NotLooking("storing", t, n)
  <2>1. PhaseAt(p, e) = "storing" /\ ~InLookupAt(p, e)  BY DEF PhaseAt, InLookupAt
  <2> QED  BY <2>1 DEF CallAt, NotLooking
<1> QED  BY <1>2, <1>3, <1>4

\* What these records say.
LEMMA Records ==
    ASSUME NEW phase, NEW t, NEW n, NEW e
    PROVE  /\ Looking(t, e).phase = IF "strayed" \in e THEN "astray" ELSE "looking"
           /\ Looking(t, e).tag = t
           /\ NotLooking(phase, t, n).phase = phase
           /\ NotLooking(phase, t, n).tag = t /\ NotLooking(phase, t, n).size = n
           /\ Looking(t, {}) = NotLooking("looking", t, 0)
BY DEF Looking, NotLooking

\* What was stored beside the worker does not show in its call.
LEMMA CallSame ==
    ASSUME NEW p, NEW t, NEW n, NEW e, NEW f, "strayed" \in e <=> "strayed" \in f
    PROVE  CallAt(p, t, n, e) = CallAt(p, t, n, f) /\ InLookupAt(p, e) = InLookupAt(p, f)
<1>1. ("strayed" \in e) = ("strayed" \in f)  OBVIOUS
<1>2. PhaseAt(p, e) = PhaseAt(p, f)  BY <1>1, Zenon DEF PhaseAt
<1>3. InLookupAt(p, e) = InLookupAt(p, f)  BY <1>2, Zenon DEF InLookupAt
<1> QED  BY <1>1, <1>2, <1>3, Zenon DEF CallAt

\* A step that shows in one worker's call only.
LEMMA CallMoves ==
    ASSUME NEW w \in Workers, \A u \in Workers : u # w => CallOf(u)' = CallOf(u)
    PROVE  ObjectCall' = [ObjectCall EXCEPT ![w] = CallOf(w)']
<1> DEFINE e == [ObjectCall EXCEPT ![w] = CallOf(w)']
<1>1. DOMAIN ObjectCall = Workers  BY DEF ObjectCall
<1>2. e = [u \in Workers |-> IF u = w THEN CallOf(w)' ELSE ObjectCall[u]]  BY <1>1
<1>3. \A u \in Workers : CallOf(u)' = IF u = w THEN CallOf(w)' ELSE ObjectCall[u]  BY CallsUnfold
<1> HIDE DEF e
<1>4. [u \in Workers |-> CallOf(u)'] = [u \in Workers |-> IF u = w THEN CallOf(w)' ELSE ObjectCall[u]]  BY <1>3
<1>5. ObjectCall' = e  BY <1>2, <1>4, CallsUnfoldPrime, Zenon
<1> QED  BY <1>5 DEF e

\* A step that shows in none.
LEMMA CallStays == ASSUME \A u \in Workers : CallOf(u)' = CallOf(u) PROVE ObjectCall' = ObjectCall
<1>1. [u \in Workers |-> CallOf(u)'] = [u \in Workers |-> CallOf(u)]  OBVIOUS
<1> QED  BY <1>1, CallsUnfold, CallsUnfoldPrime, Zenon

\* What is stored stays while the nodes keep their tags and sizes.
LEMMA KeptStays ==
    ASSUME CInv, Cached' = Cached, \A a \in Addrs : heap'[a].tag = heap[a].tag /\ heap'[a].size = heap[a].size
    PROVE  Kept' = Kept
<1>1. Cached \in SUBSET Addrs  BY ListFacts
<1> QED  BY <1>1 DEF Kept

\* What the abstract cache holds is what total_size says.
LEMMA UsedIsTotal == ASSUME CInv PROVE Objects!Used = total_size
<1>1. /\ \A a \in Addrs : heap[a].size \in Nat
      /\ Cached \in SUBSET Addrs /\ total_size = Total(heap, Cached)
  BY ListFacts
<1>2. DOMAIN Kept = Cached  BY DEF Kept
<1>3. Objects!Used = Total(Kept, DOMAIN Kept)
  BY Zenon DEF Objects!Used, Total, Kept, MapThenSumSet, MapThenFoldSet, Objects!MapThenSumSet, Objects!MapThenFoldSet
<1>4. SizesOf(Kept, heap, Cached)  BY DEF SizesOf, Kept
<1>5. Total(Kept, Cached) = Total(heap, Cached)  BY <1>1, <1>4, TotalSame
<1>6. Total(Kept, DOMAIN Kept) = Total(Kept, Cached)  BY <1>2
<1> QED  BY <1>1, <1>3, <1>5, <1>6

\* What get_hit has read is a cached object with the tag it looked for, unless
\* its walk has strayed; then it is of some size.
Read(w) == /\ size[w] \in Sizes
           /\ "strayed" \notin since[w] => \E a \in Cached : heap[a].tag = tag[w] /\ heap[a].size = size[w]

HInv == /\ \A w \in Workers : /\ pc[w] = "getLock" => ~found[w]
                              /\ pc[w] = "get" /\ found[w] => Read(w)
                              /\ pc[w] \in {"writeLock", "write"} => size[w] \in Sizes
        /\ \A a \in Cached : heap[a].size \in Sizes

\* Steps that leave to each worker what it has read.
LEMMA ReadStays ==
    ASSUME CInv, HInv, Cached' = Cached, \A a \in Addrs : heap'[a].tag = heap[a].tag /\ heap'[a].size = heap[a].size,
           \A w \in Workers : pc'[w] = "getLock" => ~found'[w],
           \A w \in Workers : pc'[w] = "get" /\ found'[w] =>
              /\ pc[w] = "get" /\ found[w] /\ tag'[w] = tag[w] /\ size'[w] = size[w]
              /\ "strayed" \in since[w] => "strayed" \in since'[w],
           \A w \in Workers : pc'[w] \in {"writeLock", "write"} => size'[w] \in Sizes
    PROVE  HInv'
<1>1. Cached \in SUBSET Addrs  BY ListFacts
<1>2. ASSUME NEW w \in Workers, pc'[w] = "get", found'[w]
      PROVE  Read(w)'
  <2>1. /\ pc[w] = "get" /\ found[w] /\ tag'[w] = tag[w] /\ size'[w] = size[w]
        /\ "strayed" \in since[w] => "strayed" \in since'[w]
    BY <1>2
  <2>2. Read(w)  BY <2>1 DEF HInv
  <2>3. ASSUME "strayed" \notin since'[w]
        PROVE  \E a \in Cached' : heap'[a].tag = tag'[w] /\ heap'[a].size = size'[w]
    <3>1. PICK a \in Cached : heap[a].tag = tag[w] /\ heap[a].size = size[w]  BY <2>1, <2>2, <2>3 DEF Read
    <3> QED  BY <1>1, <2>1, <3>1
  <2> QED  BY <2>1, <2>2, <2>3 DEF Read
<1>3. \A a \in Cached' : heap'[a].size \in Sizes  BY <1>1 DEF HInv
<1> QED  BY <1>2, <1>3 DEF HInv

\* What a walk of get_hit has read stays so: it keeps the writers out.
LEMMA StepHInv == CInv /\ HInv /\ [Next]_vars => HInv'
<1> SUFFICES ASSUME CInv, HInv, [Next]_vars PROVE HInv'  OBVIOUS
<1>t. /\ pc \in [Workers -> Points] /\ found \in [Workers -> BOOLEAN] /\ ptr \in [Workers -> Pointers]
      /\ tag \in [Workers -> Tags \cup {Nil}] /\ size \in [Workers -> Nat]
  BY DEF CInv, Typed, IInv, LocksTyped
<1>h. \A w \in Workers : /\ pc[w] = "getLock" => ~found[w]
                         /\ pc[w] \in {"writeLock", "write"} => size[w] \in Sizes
  BY DEF HInv
<1>0. ASSUME UNCHANGED list,
             \A w \in Workers : pc'[w] = "getLock" => ~found'[w],
             \A w \in Workers : pc'[w] = "get" /\ found'[w] =>
                /\ pc[w] = "get" /\ found[w] /\ tag'[w] = tag[w] /\ size'[w] = size[w]
                /\ "strayed" \in since[w] => "strayed" \in since'[w],
             \A w \in Workers : pc'[w] \in {"writeLock", "write"} => size'[w] \in Sizes
      PROVE  HInv'
  <2>1. Cached' = Cached /\ heap' = heap  BY <1>0, ListUnchanged DEF list
  <2> QED  BY <1>0, <2>1, ReadStays
<1>1. ASSUME NEW w \in Workers, NEW t \in Tags, Request(w, t) PROVE HInv'
  <2>1. UNCHANGED list /\ \A u \in Workers : IF u = w THEN pc'[u] = "readLock"
          ELSE pc'[u] = pc[u] /\ found'[u] = found[u] /\ tag'[u] = tag[u] /\ size'[u] = size[u] /\ since'[u] = since[u]
    BY <1>t, <1>1 DEF Request, Goto, CInv, Typed
  <2> QED  BY <1>0, <1>h, <2>1
<1>2. ASSUME NEW w \in Workers,
             \/ ReadLock(w) \/ ReadCount(w) \/ ReadWait(w) \/ ReadUnlock(w)
             \/ LeaveLock(w) \/ LeaveCount(w) \/ LeaveUnlock(w)
             \/ GetUnlock(w) \/ WriteUnlock(w)
      PROVE  HInv'
  <2>1. UNCHANGED <<list, found, tag, size, since>>
    BY <1>2 DEF ReadLock, ReadCount, ReadWait, ReadUnlock, LeaveLock, LeaveCount, LeaveUnlock,
                GetUnlock, WriteUnlock
  <2>2. \E to : to \notin {"get", "getLock", "writeLock", "write"} /\ pc' = [pc EXCEPT ![w] = to]
    BY <1>2, Zenon DEF ReadLock, ReadCount, ReadWait, ReadUnlock, LeaveLock, LeaveCount, LeaveUnlock,
                GetUnlock, WriteUnlock, Goto
  <2>3. \A u \in Workers : pc'[u] \in {"get", "getLock", "writeLock", "write"} => pc'[u] = pc[u]  BY <1>t, <2>2
  <2> QED  BY <1>0, <1>h, <2>1, <2>3
<1>3. ASSUME NEW w \in Workers, GetLock(w) PROVE HInv'
  <2>1. /\ UNCHANGED <<list, found, tag, size, since>> /\ pc[w] = "getLock"
        /\ \A u \in Workers : pc'[u] = IF u = w THEN "get" ELSE pc[u]
    BY <1>t, <1>3 DEF GetLock, Goto
  <2> QED  BY <1>0, <1>h, <2>1
<1>4. ASSUME NEW w \in Workers, GetHead(w) PROVE HInv'
  <2>1. /\ UNCHANGED <<list, tag, size>>
        /\ \A u \in Workers : pc'[u] = IF u = w THEN "getLock" ELSE pc[u]
        /\ \A u \in Workers : found'[u] = IF u = w THEN FALSE ELSE found[u]
        /\ \A u \in Workers : u # w => since'[u] = since[u]
    BY <1>t, <1>4 DEF GetHead, Goto, CInv, Typed
  <2> QED  BY <1>0, <1>h, <2>1
<1>5. ASSUME NEW w \in Workers, FindMatch(w) \/ FindNext(w) PROVE HInv'
  <2>1. /\ UNCHANGED <<list, pc, tag, size>> /\ pc[w] = "find" /\ Looks(w)
        /\ \A u \in Workers : u # w => found'[u] = found[u]
    BY <1>t, <1>5 DEF FindMatch, FindNext, Visits
  <2>2. \A u \in Workers : u # w => since'[u] = since[u]  BY <2>1, Looked
  <2> QED  BY <1>0, <1>h, <2>1, <2>2
<1>6. ASSUME NEW w \in Workers, NEW n \in Sizes, Fetch(w, n) PROVE HInv'
  <2>1. /\ UNCHANGED <<list, found, tag, since>>
        /\ \A u \in Workers : size'[u] = IF u = w THEN n ELSE size[u]
        /\ \A u \in Workers : pc'[u] = IF u # w THEN pc[u] ELSE IF n > MaxObjectSize THEN "idle" ELSE "writeLock"
    BY <1>t, <1>6 DEF Fetch, Goto
  <2> QED  BY <1>0, <1>h, <2>1
<1>7. ASSUME NEW w \in Workers, GetMatch(w) \/ GetNext(w) PROVE HInv'
  <2>1. /\ Cached' = Cached /\ SameLinks(heap, heap') /\ \A b \in Addrs : heap'[b].tag = heap[b].tag  BY <1>7, GetKeeps
  <2>2. UNCHANGED <<pc, tag>> /\ pc[w] = "get" /\ ptr[w] \in Addrs /\ Looks(w)
    BY <1>t, <1>7 DEF GetMatch, GetNext, Visits, Pointers
  <2>3. \A u \in Workers : pc[u] \in {"get", "write"} => u = w  BY <2>2, NoWalkMeanwhile DEF CInv, WritingAt
  <2>4. \A a \in Addrs : heap'[a].tag = heap[a].tag /\ heap'[a].size = heap[a].size  BY <2>1 DEF SameLinks
  <2>7. since'[w] = IF heap[ptr[w]].live THEN since[w] ELSE since[w] \cup {"strayed"}  BY <2>2, Looked
  <2>5. CASE GetMatch(w)
    <3>1. /\ heap[ptr[w]].live => heap[ptr[w]].tag = tag[w] /\ size'[w] = heap[ptr[w]].size
          /\ size'[w] \in SizesRead(w)
      BY <1>t, <2>5 DEF GetMatch, Matches, OnFreed, SizesRead
    <3>2. Cached = {a \in Addrs : heap[a].live}  BY ListFacts
    <3>3. ASSUME heap[ptr[w]].live PROVE ptr[w] \in Cached /\ size'[w] \in Sizes  BY <2>2, <3>1, <3>2, <3>3 DEF HInv
    <3>4. size'[w] \in Sizes  BY <3>1, <3>3 DEF SizesRead, OnFreed
    <3>5. "strayed" \notin since'[w] => \E a \in Cached' : heap'[a].tag = tag'[w] /\ heap'[a].size = size'[w]
      BY <2>1, <2>2, <2>4, <2>7, <3>1, <3>3
    <3>6. Read(w)'  BY <3>4, <3>5 DEF Read
    <3>7. \A u \in Workers : u # w => found'[u] = found[u] /\ size'[u] = size[u]  BY <1>t, <2>5 DEF GetMatch
    <3>8. \A u \in Workers : /\ pc'[u] = "getLock" => ~found'[u]
                             /\ pc'[u] \in {"writeLock", "write"} => size'[u] \in Sizes
      BY <1>h, <2>2, <3>7
    <3>9. \A a \in Cached' : heap'[a].size \in Sizes  BY <2>1, <2>4, <3>2 DEF HInv
    <3> QED  BY <2>2, <2>3, <3>6, <3>8, <3>9 DEF HInv
  <2>6. CASE GetNext(w)
    <3>1. UNCHANGED <<found, size>>  BY <2>6 DEF GetNext
    <3>2. \A u \in Workers : "strayed" \in since[u] => "strayed" \in since'[u]  BY <2>2, <2>7, Looked
    <3> QED  BY <1>h, <2>1, <2>2, <2>4, <3>1, <3>2, ReadStays
  <2> QED  BY <1>7, <2>5, <2>6
<1>8. ASSUME NEW w \in Workers, WriteLock(w) PROVE HInv'
  <2>1. /\ UNCHANGED <<list, found, tag, size, since>> /\ pc[w] = "writeLock"
        /\ \A u \in Workers : pc'[u] = IF u = w THEN "write" ELSE pc[u]
    BY <1>t, <1>8 DEF WriteLock, Goto
  <2> QED  BY <1>0, <1>h, <2>1
<1>9. ASSUME NEW w \in Workers, RemoveOldest(w) \/ AddToCacheHead(w) PROVE HInv'
  <2>1. /\ pc[w] = "write" /\ UNCHANGED <<found, size>>
        /\ \A u \in Workers : pc'[u] \in {"get", "getLock", "writeLock", "write"} => pc'[u] = pc[u]
    BY <1>t, <1>9 DEF RemoveOldest, AddToCacheHead, Goto
  <2>2. \A u \in Workers : pc[u] # "get"  BY <2>1, NoWalkMeanwhile DEF CInv, WritingAt
  <2>3. \A u \in Workers : /\ pc'[u] # "get" /\ (pc'[u] = "getLock" => ~found'[u])
                           /\ pc'[u] \in {"writeLock", "write"} => size'[u] \in Sizes
    BY <1>h, <2>1, <2>2
  <2>4. \A a \in Cached' : heap'[a].size \in Sizes
    <3>1. CASE RemoveOldest(w)
      <4>1. PICK k : Removed(k)  BY <3>1, EvictKeeps
      <4>2. Cached' \in SUBSET Cached /\ Cached \in SUBSET Addrs /\ \A a \in Addrs : heap'[a].size = heap[a].size
        BY <4>1, RemovedKeeps, UnlinkFacts, ListFacts
      <4> QED  BY <4>2 DEF HInv
    <3>2. CASE AddToCacheHead(w)
      <4>1. PICK x : Added(w, x)  BY <3>2, StoreKeeps
      <4>2. Cached' = Cached \cup {x} /\ Cached \in SUBSET Addrs  BY <4>1, AddedKeeps, ListFacts
      <4>3. heap'[x].size = size[w] /\ \A b \in Addrs \ {x} : heap'[b].size = heap[b].size  BY <4>1, AddFacts
      <4>4. size[w] \in Sizes  BY <1>h, <2>1
      <4> QED  BY <4>2, <4>3, <4>4 DEF HInv
    <3> QED  BY <1>9, <3>1, <3>2
  <2> QED  BY <2>3, <2>4 DEF HInv
<1>10. CASE (\E w \in Workers : Ruin(w)) \/ UNCHANGED vars
  <2>1. UNCHANGED <<list, pc, found, tag, size, since>>  BY <1>10 DEF Ruin, vars
  <2> QED  BY <1>0, <1>h, <2>1
<1> QED
  BY <1>1, <1>2, <1>3, <1>4, <1>5, <1>6, <1>7, <1>8, <1>9, <1>10
  DEF Next, Step, FindHit, GetHit, WriteCache, Ended

\* An evicted node is an evicted object; every lookup under way is overtaken.
LEMMA EvictRefines ==
    ASSUME CInv, [Next]_vars, NEW w \in Workers, RemoveOldest(w)
    PROVE  Objects!Evict(w)
<1>1. /\ Cached \in SUBSET Addrs /\ DOMAIN Kept = Cached  BY ListFacts DEF Kept
<1>2. PICK k : Removed(k)  BY EvictKeeps
<1>3. PICK old : old = Nodes(head)[k]  OBVIOUS
<1>4. /\ old \in Cached /\ Cached' = Cached \ {old}
      /\ \A a \in Addrs : heap'[a].size = heap[a].size /\ heap'[a].tag = heap[a].tag
  BY <1>2, <1>3, RemovedKeeps, UnlinkFacts
<1>5. pc[w] = "write" /\ Full(w) /\ UNCHANGED <<pc, tag, size, ruined>> /\ Befalls("evicted", Workers \ {w})
  BY DEF RemoveOldest
<1>6. ObjectCall[w] = NotLooking("storing", tag[w], size[w])
  <2>1. ObjectCall[w] = CallAt("write", tag[w], size[w], since[w])  BY <1>5, CallsUnfold DEF CallOf
  <2> QED  BY <2>1, Calls
<1>7. ~Objects!Fits(w)
  <2>1. Objects!Used = total_size  BY UsedIsTotal
  <2>2. Objects!Fits(w) <=> total_size + size[w] <= MaxCacheSize  BY <1>6, <2>1, Records DEF Objects!Fits
  <2>3. size[w] \in Nat /\ total_size \in 0 .. MaxCacheSize /\ MaxCacheSize \in Nat
    BY SizesAssumption DEF CInv, Typed
  <2>4. size[w] + total_size > MaxCacheSize  BY <1>5 DEF Full
  <2> QED  BY <2>2, <2>3, <2>4
<1>8. Kept' = [j \in (DOMAIN Kept) \ {old} |-> Kept[j]]
  <2>1. Kept' = [j \in Cached \ {old} |-> [tag |-> heap'[j].tag, size |-> heap'[j].size]]  BY <1>4 DEF Kept
  <2>2. \A j \in Cached \ {old} : Kept[j] = [tag |-> heap'[j].tag, size |-> heap'[j].size]
    BY <1>1, <1>4 DEF Kept
  <2> QED  BY <1>1, <2>1, <2>2
<1>9. \A u \in Workers : since'[u] = IF u # w THEN since[u] \cup {"evicted"} ELSE since[u]
  BY <1>5, Befallen DEF Events
<1>10. ASSUME NEW u \in Workers
       PROVE  /\ CallOf(u)' = CallOf(u)
              /\ (InLookupAt(pc'[u], since'[u]) /\ "evicted" \in since'[u]) <=> Objects!InLookup(u)
  <2>1. "strayed" \in since'[u] <=> "strayed" \in since[u]
    <3>1. since'[u] = since[u] \/ since'[u] = since[u] \cup {"evicted"}  BY <1>9
    <3> QED  BY <3>1
  <2>2. CallOf(u)' = CallOf(u) /\ (InLookupAt(pc'[u], since'[u]) <=> InLookupAt(pc[u], since[u]))
    BY <1>5, <2>1, CallSame DEF CallOf
  <2>3. ObjectCall[u] = CallAt(pc[u], tag[u], size[u], since[u])  BY CallsUnfold DEF CallOf
  <2>4. ObjectCall[u].phase = PhaseAt(pc[u], since[u])  BY <2>3 DEF CallAt
  <2>5. Objects!InLookup(u) <=> InLookupAt(pc[u], since[u])  BY <2>4 DEF Objects!InLookup, InLookupAt
  <2>6. InLookupAt(pc[u], since[u]) => "evicted" \in since'[u]
    <3>1. ~InLookupAt(pc[w], since[w])  BY <1>5, LookingIs
    <3> QED  BY <1>9, <3>1
  <2> QED  BY <2>2, <2>5, <2>6
<1>11. ObjectCall' = ObjectCall /\ Overtaken' = {u \in Workers : Objects!InLookup(u)}
  <2>1. ObjectCall' = ObjectCall  BY <1>10, CallStays
  <2>2. Overtaken' = {u \in Workers : InLookupAt(pc'[u], since'[u]) /\ "evicted" \in since'[u]}  BY OvertakenUnfold
  <2>3. \A u \in Workers : (InLookupAt(pc'[u], since'[u]) /\ "evicted" \in since'[u]) <=> Objects!InLookup(u)  BY <1>10
  <2> QED  BY <2>1, <2>2, <2>3
<1>12. ObjectCall[w].phase = "storing"  BY <1>6, Records
<1> QED  BY <1>1, <1>4, <1>5, <1>7, <1>8, <1>11, <1>12 DEF Objects!Evict, Kept

\* A node put in is an object stored.
LEMMA StoreRefines ==
    ASSUME CInv, [Next]_vars, NEW w \in Workers, AddToCacheHead(w)
    PROVE  Objects!Store(w)
<1>1. /\ Cached \in SUBSET Addrs /\ DOMAIN Kept = Cached  BY ListFacts DEF Kept
<1>2. PICK x : Added(w, x)  BY StoreKeeps
<1>3. /\ Cached' = Cached \cup {x} /\ x \in Addrs /\ x \notin Cached
      /\ heap'[x].size = size[w] /\ heap'[x].tag = tag[w]
      /\ \A b \in Addrs \ {x} : heap'[b].size = heap[b].size /\ heap'[b].tag = heap[b].tag
  <2>1. Cached' = Cached \cup {x}  BY <1>2, AddedKeeps
  <2>2. x \in Addrs  BY <1>2 DEF Added
  <2>3. /\ x \notin Cached /\ heap'[x].size = size[w] /\ heap'[x].tag = tag[w]
        /\ \A b \in Addrs \ {x} : heap'[b].size = heap[b].size /\ heap'[b].tag = heap[b].tag
    BY <1>2, AddFacts
  <2> QED  BY <2>1, <2>2, <2>3
<1>5. /\ ~Full(w) /\ UNCHANGED <<tag, size, ruined>> /\ pc[w] = "write"
      /\ Befalls("stored", {v \in Workers \ {w} : tag[v] = tag[w]})
      /\ \A u \in Workers : pc'[u] = IF u = w THEN "writeUnlock" ELSE pc[u]
  BY DEF AddToCacheHead, Goto, CInv, IInv, LocksTyped
<1>6. /\ ObjectCall[w] = NotLooking("storing", tag[w], size[w]) /\ CallOf(w)' = NotLooking("idle", tag[w], size[w])
      /\ ObjectCall[w].phase = "storing" /\ ObjectCall[w].tag = tag[w] /\ ObjectCall[w].size = size[w]
  <2>1. /\ ObjectCall[w] = CallAt("write", tag[w], size[w], since[w])
        /\ CallOf(w)' = CallAt("writeUnlock", tag[w], size[w], since'[w])
    BY <1>5, CallsUnfold DEF CallOf
  <2>2. ObjectCall[w] = NotLooking("storing", tag[w], size[w]) /\ CallOf(w)' = NotLooking("idle", tag[w], size[w])
    BY <2>1, Calls
  <2> QED  BY <2>2, Records
<1>7. Objects!Fits(w)
  <2>1. Objects!Used = total_size  BY UsedIsTotal
  <2>2. Objects!Fits(w) <=> total_size + size[w] <= MaxCacheSize  BY <1>6, <2>1, Records DEF Objects!Fits
  <2>3. size[w] \in Nat /\ total_size \in 0 .. MaxCacheSize /\ MaxCacheSize \in Nat
    BY SizesAssumption DEF CInv, Typed
  <2>4. ~(size[w] + total_size > MaxCacheSize)  BY <1>5 DEF Full
  <2> QED  BY <2>2, <2>3, <2>4
<1>8. Kept' = [j \in (DOMAIN Kept) \cup {x} |->
                 IF j = x THEN [tag |-> ObjectCall[w].tag, size |-> ObjectCall[w].size] ELSE Kept[j]]
  <2>1. Kept' = [j \in Cached \cup {x} |-> [tag |-> heap'[j].tag, size |-> heap'[j].size]]  BY <1>3 DEF Kept
  <2>2. \A j \in Cached \cup {x} :
          [tag |-> heap'[j].tag, size |-> heap'[j].size] =
            IF j = x THEN [tag |-> ObjectCall[w].tag, size |-> ObjectCall[w].size] ELSE Kept[j]
    BY <1>1, <1>3, <1>6 DEF Kept
  <2> QED  BY <1>1, <2>1, <2>2
<1>9. ASSUME NEW u \in Workers, u # w
      PROVE  /\ CallOf(u)' = CallOf(u) /\ (InLookupAt(pc'[u], since'[u]) <=> InLookupAt(pc[u], since[u]))
             /\ "evicted" \in since'[u] <=> "evicted" \in since[u]
  <2>1. since'[u] = since[u] \/ since'[u] = since[u] \cup {"stored"}  BY <1>5, Befallen DEF Events
  <2>2. ("strayed" \in since'[u] <=> "strayed" \in since[u]) /\ ("evicted" \in since'[u] <=> "evicted" \in since[u])
    BY <2>1
  <2> QED  BY <1>5, <1>9, <2>2, CallSame DEF CallOf
<1>10. ObjectCall' = [ObjectCall EXCEPT ![w] = CallOf(w)']  BY <1>9, CallMoves
<1>13. Overtaken' = Overtaken \ {w}
  <2>1. /\ Overtaken = {u \in Workers : InLookupAt(pc[u], since[u]) /\ "evicted" \in since[u]}
        /\ Overtaken' = {u \in Workers : InLookupAt(pc'[u], since'[u]) /\ "evicted" \in since'[u]}
    BY OvertakenUnfold
  <2>2. ~InLookupAt(pc'[w], since'[w])  BY <1>5, LookingIs
  <2> QED  BY <1>9, <2>1, <2>2
<1>11. Objects!Becomes(w, "idle", ObjectCall[w].tag, ObjectCall[w].size)
  BY <1>6, <1>10, <1>13 DEF Objects!Becomes, NotLooking
<1>12. ObjectCall[w].phase = "storing" /\ x \in Addrs \ (DOMAIN Kept)  BY <1>1, <1>3, <1>6
<1> QED  BY <1>5, <1>7, <1>8, <1>11, <1>12 DEF Objects!Store, Kept

\* Steps of one worker that do not touch the list.
Calm(w) == /\ UNCHANGED <<list, ruined>>
           /\ \A u \in Workers : u # w => /\ pc'[u] = pc[u] /\ tag'[u] = tag[u]
                                          /\ size'[u] = size[u] /\ since'[u] = since[u]

LEMMA CalmShows ==
    ASSUME CInv, NEW w \in Workers, Calm(w)
    PROVE  /\ Kept' = Kept /\ ruined' = ruined /\ ObjectCall[w] = CallOf(w)
           /\ ObjectCall' = [ObjectCall EXCEPT ![w] = CallOf(w)']
           /\ CallOf(w)' = CallOf(w) => ObjectCall' = ObjectCall
           /\ ~(InLookupAt(pc'[w], since'[w]) /\ "evicted" \in since'[w]) => Overtaken' = Overtaken \ {w}
           /\ UNCHANGED since /\ (InLookupAt(pc'[w], since'[w]) <=> InLookupAt(pc[w], since[w])) => Overtaken' = Overtaken
<1>1. Cached' = Cached /\ heap' = heap  BY ListUnchanged DEF Calm, list
<1>2. Kept' = Kept  BY <1>1, KeptStays
<1>3. \A u \in Workers : u # w => CallOf(u)' = CallOf(u)  BY DEF Calm, CallOf
<1>4. ObjectCall' = [ObjectCall EXCEPT ![w] = CallOf(w)']  BY <1>3, CallMoves
<1>5. CallOf(w)' = CallOf(w) => ObjectCall' = ObjectCall  BY <1>3, CallStays
<1>6. /\ Overtaken = {u \in Workers : InLookupAt(pc[u], since[u]) /\ "evicted" \in since[u]}
      /\ Overtaken' = {u \in Workers : InLookupAt(pc'[u], since'[u]) /\ "evicted" \in since'[u]}
  BY OvertakenUnfold
<1>7. \A u \in Workers : u # w => pc'[u] = pc[u] /\ since'[u] = since[u]  BY DEF Calm
<1>8. ASSUME ~(InLookupAt(pc'[w], since'[w]) /\ "evicted" \in since'[w]) PROVE Overtaken' = Overtaken \ {w}
  BY <1>6, <1>7, <1>8
<1>9. ASSUME UNCHANGED since, InLookupAt(pc'[w], since'[w]) <=> InLookupAt(pc[w], since[w]) PROVE Overtaken' = Overtaken
  <2>1. \A u \in Workers : (InLookupAt(pc'[u], since'[u]) /\ "evicted" \in since'[u]) <=>
                           (InLookupAt(pc[u], since[u]) /\ "evicted" \in since[u])
    BY <1>7, <1>9
  <2> QED  BY <1>6, <2>1
<1> QED  BY <1>2, <1>4, <1>5, <1>8, <1>9, CallsUnfold DEF Calm

\* The calls that begin, and end without a store.
LEMMA CallsRefine ==
    ASSUME CInv, HInv, NEW w \in Workers
    PROVE  /\ \A t \in Tags : Request(w, t) => Objects!Lookup(w, t)
           /\ GetHead(w) => Objects!LookAgain(w)
           /\ LeaveUnlock(w) => Objects!Miss(w) \/ UNCHANGED <<Kept, ObjectCall, Overtaken, ruined>>
           /\ GetUnlock(w) => Objects!Hit(w) \/ Objects!Miss(w)
           /\ \A n \in Sizes : Fetch(w, n) => Objects!Offer(w, n)
<1>t. /\ tag \in [Workers -> Tags \cup {Nil}] /\ size \in [Workers -> Nat] /\ found[w] \in BOOLEAN
      /\ since \in [Workers -> SUBSET Events] /\ pc \in [Workers -> Points]
  BY DEF CInv, Typed, IInv, LocksTyped
<1>k. ASSUME Calm(w), NEW phase, NEW t, NEW n,
             CallOf(w)' = NotLooking(phase, t, n), ~(InLookupAt(pc'[w], since'[w]) /\ "evicted" \in since'[w])
      PROVE  Objects!Becomes(w, phase, t, n) /\ Kept' = Kept /\ ruined' = ruined
  BY <1>k, CalmShows DEF Objects!Becomes, NotLooking
<1>g. ASSUME NEW from, NEW to, Goto(w, from, to), UNCHANGED <<list, ruined>>,
             \A u \in Workers : u # w => tag'[u] = tag[u] /\ size'[u] = size[u] /\ since'[u] = since[u]
      PROVE  /\ Calm(w) /\ ObjectCall[w] = CallAt(from, tag[w], size[w], since[w])
             /\ CallOf(w)' = CallAt(to, tag'[w], size'[w], since'[w]) /\ pc[w] = from /\ pc'[w] = to
  <2>1. pc[w] = from /\ pc'[w] = to /\ \A u \in Workers : u # w => pc'[u] = pc[u]  BY <1>t, <1>g DEF Goto
  <2>2. Calm(w)  BY <1>g, <2>1 DEF Calm
  <2> QED  BY <2>1, <2>2, CallsUnfold DEF CallOf
<1>1. ASSUME NEW t \in Tags, Request(w, t) PROVE Objects!Lookup(w, t)
  <2>1. /\ Goto(w, "idle", "readLock") /\ UNCHANGED <<list, ruined>> /\ tag'[w] = t /\ size'[w] = 0 /\ since'[w] = {}
        /\ \A u \in Workers : u # w => tag'[u] = tag[u] /\ size'[u] = size[u] /\ since'[u] = since[u]
    BY <1>t, <1>1 DEF Request
  <2>2. /\ Calm(w) /\ ObjectCall[w] = CallAt("idle", tag[w], size[w], since[w])
        /\ CallOf(w)' = CallAt("readLock", t, 0, {}) /\ ~(InLookupAt(pc'[w], since'[w]) /\ "evicted" \in since'[w])
    BY <1>g, <2>1
  <2>3. CallAt("readLock", t, 0, {}) = NotLooking("looking", t, 0)
    <3>1. "readLock" \in LookingAt  BY DEF LookingAt
    <3>2. CallAt("readLock", t, 0, {}) = Looking(t, {})  BY <3>1, LookingCalls
    <3> QED  BY <3>2, Records
  <2>4. ObjectCall[w].phase = "idle"
    <3>1. ObjectCall[w] = NotLooking("idle", tag[w], size[w])  BY <2>2, Calls
    <3> QED  BY <3>1, Records
  <2>5. Objects!Becomes(w, "looking", t, 0) /\ Kept' = Kept /\ ruined' = ruined  BY <1>k, <2>2, <2>3
  <2> QED  BY <2>4, <2>5 DEF Objects!Lookup, Kept
<1>2. ASSUME NEW from \in LookingAt, Goto(w, from, "fetch"), UNCHANGED <<list, tag, size, since, ruined>>
      PROVE  Objects!Miss(w)
  <2>1. /\ Calm(w) /\ ObjectCall[w] = CallAt(from, tag[w], size[w], since[w])
        /\ CallOf(w)' = CallAt("fetch", tag[w], size[w], since[w]) /\ ~InLookupAt(pc'[w], since'[w])
    BY <1>2, <1>g, LookingIs
  <2>2. ObjectCall[w] = Looking(tag[w], since[w]) /\ CallOf(w)' = NotLooking("missed", tag[w], 0)
    BY <1>2, <2>1, Calls, LookingCalls
  <2>3. Objects!Becomes(w, "missed", tag[w], 0) /\ Kept' = Kept /\ ruined' = ruined  BY <1>k, <2>1, <2>2
  <2>4. ObjectCall[w].phase \in {"looking", "astray"} /\ ObjectCall[w].tag = tag[w]  BY <2>2, Records
  <2> QED  BY <2>3, <2>4 DEF Objects!Miss, Objects!InLookup, Kept
<1>3. ASSUME LeaveUnlock(w) PROVE Objects!Miss(w) \/ UNCHANGED <<Kept, ObjectCall, Overtaken, ruined>>
  <2>1. UNCHANGED <<list, tag, size, since, ruined>>  BY <1>3 DEF LeaveUnlock
  <2>2. CASE found[w]
    <3>1. Goto(w, "leaveUnlock", "getHead")  BY <1>3, <2>2 DEF LeaveUnlock
    <3>2. /\ Calm(w) /\ ObjectCall[w] = CallAt("leaveUnlock", tag[w], size[w], since[w])
          /\ CallOf(w)' = CallAt("getHead", tag[w], size[w], since[w])
          /\ pc[w] = "leaveUnlock" /\ pc'[w] = "getHead"
      BY <1>g, <2>1, <3>1
    <3>3. CallAt("leaveUnlock", tag[w], size[w], since[w]) = CallAt("getHead", tag[w], size[w], since[w])
      <4>1. "leaveUnlock" \in LookingAt /\ "getHead" \in LookingAt  BY DEF LookingAt
      <4> QED  BY <4>1, LookingCalls
    <3>4. InLookupAt(pc'[w], since'[w]) /\ InLookupAt(pc[w], since[w])  BY <3>2, LookingIs DEF LookingAt
    <3> QED  BY <2>1, <3>2, <3>3, <3>4, CalmShows
  <2>3. CASE ~found[w]
    <3>1. Goto(w, "leaveUnlock", "fetch")  BY <1>3, <2>3 DEF LeaveUnlock
    <3> QED  BY <1>2, <2>1, <3>1 DEF LookingAt
  <2> QED  BY <2>2, <2>3
<1>4. ASSUME GetHead(w) PROVE Objects!LookAgain(w)
  <2>1. /\ Goto(w, "getHead", "getLock") /\ UNCHANGED <<list, tag, size, ruined>> /\ since'[w] = {}
        /\ \A u \in Workers : u # w => since'[u] = since[u]
    BY <1>t, <1>4 DEF GetHead
  <2>2. /\ Calm(w) /\ ObjectCall[w] = CallAt("getHead", tag[w], size[w], since[w])
        /\ CallOf(w)' = CallAt("getLock", tag[w], size[w], {}) /\ ~(InLookupAt(pc'[w], since'[w]) /\ "evicted" \in since'[w])
    BY <1>g, <2>1
  <2>3. ObjectCall[w] = Looking(tag[w], since[w]) /\ CallOf(w)' = NotLooking("looking", tag[w], 0)
    <3>1. "getHead" \in LookingAt /\ "getLock" \in LookingAt  BY DEF LookingAt
    <3>2. ObjectCall[w] = Looking(tag[w], since[w])  BY <2>2, <3>1, LookingCalls
    <3>3. CallOf(w)' = Looking(tag[w], {})  BY <2>2, <3>1, LookingCalls
    <3> QED  BY <3>2, <3>3, Records
  <2>4. ObjectCall[w].phase \in {"looking", "astray"} /\ ObjectCall[w].tag = tag[w]  BY <2>3, Records
  <2>5. Objects!Becomes(w, "looking", tag[w], 0) /\ Kept' = Kept /\ ruined' = ruined  BY <1>k, <2>2, <2>3
  <2> QED  BY <2>4, <2>5 DEF Objects!LookAgain, Objects!InLookup, Kept
<1>5. ASSUME GetUnlock(w) PROVE Objects!Hit(w) \/ Objects!Miss(w)
  <2>1. UNCHANGED <<list, tag, size, since, ruined>> /\ pc[w] = "get"  BY <1>5 DEF GetUnlock, Goto
  <2>2. CASE found[w]
    <3>1. Goto(w, "get", "idle")  BY <1>5, <2>2 DEF GetUnlock
    <3>2. Read(w)  BY <2>1, <2>2 DEF HInv
    <3>3. /\ Calm(w) /\ ObjectCall[w] = CallAt("get", tag[w], size[w], since[w])
          /\ CallOf(w)' = CallAt("idle", tag[w], size[w], since[w]) /\ ~InLookupAt(pc'[w], since'[w])
      BY <1>g, <2>1, <3>1, LookingIs
    <3>4. ObjectCall[w] = Looking(tag[w], since[w]) /\ CallOf(w)' = NotLooking("idle", tag[w], size[w])
      <4>1. "get" \in LookingAt  BY DEF LookingAt
      <4> QED  BY <3>3, <4>1, Calls, LookingCalls
    <3>5. Objects!Becomes(w, "idle", tag[w], size[w]) /\ Kept' = Kept /\ ruined' = ruined  BY <1>k, <3>3, <3>4
    <3>6. ObjectCall[w].tag = tag[w]  BY <3>4, Records
    <3>7. CASE "strayed" \in since[w]
      <4>1. ObjectCall[w].phase = "astray"  BY <3>4, <3>7, Records
      <4> QED  BY <3>2, <3>5, <3>6, <4>1 DEF Objects!Hit, Kept, Read
    <3>8. CASE "strayed" \notin since[w]
      <4>1. ObjectCall[w].phase = "looking"  BY <3>4, <3>8, Records
      <4>2. PICK a \in Cached : heap[a].tag = tag[w] /\ heap[a].size = size[w]  BY <3>2, <3>8 DEF Read
      <4>3. a \in DOMAIN Kept /\ Kept[a].tag = tag[w] /\ Kept[a].size = size[w]  BY <4>2 DEF Kept
      <4> HIDE DEF Kept
      <4>4. \E i \in DOMAIN Kept : Kept[i].tag = ObjectCall[w].tag
                                   /\ Objects!Becomes(w, "idle", ObjectCall[w].tag, Kept[i].size)
        BY <3>5, <3>6, <4>3
      <4> QED  BY <3>5, <4>1, <4>4 DEF Objects!Hit, Kept
    <3> QED  BY <3>7, <3>8
  <2>3. CASE ~found[w]
    <3>1. Goto(w, "get", "fetch")  BY <1>5, <2>3 DEF GetUnlock
    <3> QED  BY <1>2, <2>1, <3>1 DEF LookingAt
  <2> QED  BY <2>2, <2>3
<1>6. ASSUME NEW n \in Sizes, Fetch(w, n) PROVE Objects!Offer(w, n)
  <2> DEFINE to == IF n > MaxObjectSize THEN "idle" ELSE "writeLock"
             phase == IF n > MaxObjectSize THEN "idle" ELSE "storing"
  <2>1. /\ Goto(w, "fetch", to) /\ UNCHANGED <<list, tag, since, ruined>> /\ size'[w] = n
        /\ \A u \in Workers : u # w => size'[u] = size[u]
    BY <1>t, <1>6 DEF Fetch
  <2>2. CallAt(to, tag[w], n, since[w]) = NotLooking(phase, tag[w], n)
    <3>1. CASE n > MaxObjectSize  BY <3>1, Calls
    <3>2. CASE ~(n > MaxObjectSize)  BY <3>2, Calls
    <3> QED  BY <3>1, <3>2
  <2> HIDE DEF to
  <2>3. /\ Calm(w) /\ ObjectCall[w] = CallAt("fetch", tag[w], size[w], since[w])
        /\ CallOf(w)' = CallAt(to, tag[w], n, since[w]) /\ pc'[w] = to
    BY <1>g, <2>1
  <2>7. ~InLookupAt(pc'[w], since'[w])
    <3>1. to \in {"idle", "writeLock"}  BY DEF to
    <3> QED  BY <2>3, <3>1, LookingIs
  <2> HIDE DEF phase
  <2>4. ObjectCall[w] = NotLooking("missed", tag[w], 0)  BY <2>3, Calls
  <2>5. Objects!Becomes(w, phase, tag[w], n) /\ Kept' = Kept /\ ruined' = ruined  BY <1>k, <2>2, <2>3, <2>7
  <2>6. ObjectCall[w].phase = "missed" /\ ObjectCall[w].tag = tag[w]  BY <2>4, Records
  <2> QED  BY <2>5, <2>6 DEF Objects!Offer, Kept, phase
<1> QED  BY <1>1, <1>3, <1>4, <1>5, <1>6

\* A worker that looks at a freed node has been overtaken by an eviction: its
\* lookup strays there, or ruins the process.
LEMMA StraysRefine ==
    ASSUME CInv, SInv, [Next]_vars, NEW w \in Workers
    PROVE  /\ FindMatch(w) \/ FindNext(w) \/ GetMatch(w) \/ GetNext(w) =>
                Objects!Stray(w) \/ UNCHANGED <<Kept, ObjectCall, Overtaken, ruined>>
           /\ Ruin(w) => Objects!Ruin(w)
<1>t. size \in [Workers -> Nat] /\ since \in [Workers -> SUBSET Events]  BY DEF CInv, Typed
<1>0. ASSUME pc[w] \in {"find", "get"}, ptr[w] # Nil
      PROVE  /\ ~heap[ptr[w]].live => "evicted" \in since[w]
             /\ ObjectCall[w] = Looking(tag[w], since[w])
             /\ w \in Overtaken <=> "evicted" \in since[w]
  <2>1. pc[w] \in WalkingAt /\ pc[w] \in LookingAt  BY <1>0 DEF WalkingAt, LookingAt
  <2>2. "evicted" \notin since[w] => ptr[w] \in Cached  BY <1>0, <2>1 DEF SInv, Seeks
  <2>3. "evicted" \notin since[w] => heap[ptr[w]].live  BY <2>2, ListFacts
  <2>4. ObjectCall[w] = CallAt(pc[w], tag[w], size[w], since[w])  BY CallsUnfold DEF CallOf
  <2>5. ObjectCall[w] = Looking(tag[w], since[w])  BY <2>1, <2>4, LookingCalls
  <2>6. w \in Overtaken <=> "evicted" \in since[w]  BY <2>1, LookingIs, OvertakenUnfold
  <2> QED  BY <2>3, <2>5, <2>6
<1>1. ASSUME FindMatch(w) \/ FindNext(w) \/ GetMatch(w) \/ GetNext(w)
      PROVE  Objects!Stray(w) \/ UNCHANGED <<Kept, ObjectCall, Overtaken, ruined>>
  <2>1. /\ UNCHANGED <<pc, tag, ruined>> /\ pc[w] \in {"find", "get"} /\ ptr[w] # Nil /\ Looks(w)
        /\ \A u \in Workers : u # w => size'[u] = size[u]
    BY <1>t, <1>1 DEF FindMatch, FindNext, GetMatch, GetNext, Visits
  <2>2. Kept' = Kept
    <3>1. CASE GetMatch(w) \/ GetNext(w)
      <4>1. Cached' = Cached /\ SameLinks(heap, heap') /\ \A b \in Addrs : heap'[b].tag = heap[b].tag
        BY <3>1, GetKeeps
      <4> QED  BY <4>1, KeptStays DEF SameLinks
    <3>2. CASE FindMatch(w) \/ FindNext(w)
      <4>1. UNCHANGED list  BY <3>2 DEF FindMatch, FindNext
      <4>2. Cached' = Cached /\ heap' = heap  BY <4>1, ListUnchanged DEF list
      <4> QED  BY <4>2, KeptStays
    <3> QED  BY <1>1, <3>1, <3>2
  <2>3. /\ \A u \in Workers : u # w => since'[u] = since[u]
        /\ since'[w] = IF heap[ptr[w]].live THEN since[w] ELSE since[w] \cup {"strayed"}
    BY <2>1, Looked
  <2>4. \A u \in Workers : u # w => CallOf(u)' = CallOf(u)  BY <2>1, <2>3 DEF CallOf
  <2>5. CallOf(w)' = Looking(tag[w], since'[w])
    <3>1. CallOf(w)' = CallAt(pc[w], tag[w], size'[w], since'[w]) /\ pc[w] \in LookingAt
      BY <2>1 DEF CallOf, LookingAt
    <3> QED  BY <3>1, LookingCalls
  <2>6. /\ ~heap[ptr[w]].live => "evicted" \in since[w]
        /\ ObjectCall[w] = Looking(tag[w], since[w])
        /\ w \in Overtaken <=> "evicted" \in since[w]
    BY <1>0, <2>1
  <2>9. Overtaken' = Overtaken
    <3>1. /\ Overtaken = {u \in Workers : InLookupAt(pc[u], since[u]) /\ "evicted" \in since[u]}
          /\ Overtaken' = {u \in Workers : InLookupAt(pc'[u], since'[u]) /\ "evicted" \in since'[u]}
      BY OvertakenUnfold
    <3>2. \A e : InLookupAt(pc[w], e)  BY <2>1, LookingIs DEF LookingAt
    <3>3. "evicted" \in since'[w] <=> "evicted" \in since[w]
      <4>1. since'[w] = since[w] \/ since'[w] = since[w] \cup {"strayed"}  BY <2>3
      <4> QED  BY <4>1
    <3>4. \A u \in Workers : (InLookupAt(pc'[u], since'[u]) /\ "evicted" \in since'[u]) <=>
                             (InLookupAt(pc[u], since[u]) /\ "evicted" \in since[u])
      BY <2>1, <2>3, <3>2, <3>3
    <3> QED  BY <3>1, <3>4
  <2>7. CASE "strayed" \in since[w] \/ heap[ptr[w]].live
    <3>1. "strayed" \in since'[w] <=> "strayed" \in since[w]
      <4>1. CASE heap[ptr[w]].live  BY <2>3, <4>1
      <4>2. CASE "strayed" \in since[w]
        <5>1. since'[w] = since[w] \/ since'[w] = since[w] \cup {"strayed"}  BY <2>3
        <5> QED  BY <4>2, <5>1
      <4> QED  BY <2>7, <4>1, <4>2
    <3>2. CallOf(w)' = ObjectCall[w]  BY <2>5, <2>6, <3>1 DEF Looking
    <3>3. CallOf(w)' = CallOf(w)  BY <3>2, CallsUnfold
    <3>4. ObjectCall' = ObjectCall  BY <2>4, <3>3, CallStays
    <3> QED  BY <2>1, <2>2, <2>9, <3>4
  <2>8. CASE "strayed" \notin since[w] /\ ~heap[ptr[w]].live
    <3>1. since'[w] = since[w] \cup {"strayed"}  BY <2>3, <2>8
    <3>2. "strayed" \in since'[w] /\ "evicted" \in since[w]  BY <2>6, <2>8, <3>1
    <3>4. ObjectCall' = [ObjectCall EXCEPT ![w] = CallOf(w)']  BY <2>4, CallMoves
    <3>5. CallOf(w)' = [ObjectCall[w] EXCEPT !.phase = "astray"]  BY <2>5, <2>6, <3>2 DEF Looking
    <3>6. ObjectCall' = [ObjectCall EXCEPT ![w].phase = "astray"]  BY <3>4, <3>5
    <3>7. ObjectCall[w].phase = "looking" /\ w \in Overtaken  BY <2>6, <2>8, <3>2, Records
    <3> QED  BY <2>1, <2>2, <2>9, <3>6, <3>7 DEF Objects!Stray, Kept
  <2> QED  BY <2>7, <2>8
<1>2. ASSUME Ruin(w) PROVE Objects!Ruin(w)
  <2>1. /\ UNCHANGED <<list, pc, tag, size, since>> /\ ruined' = TRUE
        /\ pc[w] \in {"find", "get"} /\ ptr[w] # Nil /\ ~heap[ptr[w]].live
    BY <1>2 DEF Ruin, Visits, OnFreed
  <2>2. Cached' = Cached /\ heap' = heap  BY <2>1, ListUnchanged DEF list
  <2>3. Kept' = Kept  BY <2>2, KeptStays
  <2>4. ObjectCall' = ObjectCall  BY <2>1, CallStays DEF CallOf
  <2>5. w \in Overtaken  BY <1>0, <2>1
  <2>6. Overtaken' = Overtaken
    <3>1. UNCHANGED <<pc, since>>  BY <2>1
    <3> QED  BY <3>1, OvertakenUnfold
  <2> QED  BY <2>1, <2>3, <2>4, <2>5, <2>6 DEF Objects!Ruin, Kept
<1> QED  BY <1>1, <1>2

\* The other steps do not show.
LEMMA QuietRefines ==
    ASSUME CInv, NEW w \in Workers,
           \/ ReadLock(w) \/ ReadCount(w) \/ ReadWait(w) \/ ReadUnlock(w)
           \/ LeaveLock(w) \/ LeaveCount(w) \/ GetLock(w) \/ WriteLock(w) \/ WriteUnlock(w)
    PROVE  UNCHANGED <<Kept, ObjectCall, Overtaken, ruined>>
<1>t. pc \in [Workers -> Points]  BY DEF CInv, IInv, LocksTyped
<1>1. UNCHANGED <<list, tag, size, since, ruined>>
  BY DEF ReadLock, ReadCount, ReadWait, ReadUnlock, LeaveLock, LeaveCount, GetLock, WriteLock, WriteUnlock
<1>2. \/ pc[w] \in LookingAt /\ \E to \in LookingAt : pc' = [pc EXCEPT ![w] = to]
      \/ pc[w] = "writeLock" /\ pc' = [pc EXCEPT ![w] = "write"]
      \/ pc[w] = "writeUnlock" /\ pc' = [pc EXCEPT ![w] = "idle"]
  BY Zenon DEF ReadLock, ReadCount, ReadWait, ReadUnlock, LeaveLock, LeaveCount, GetLock,
               WriteLock, WriteUnlock, Goto, LookingAt
<1>3. \A u \in Workers : u # w => pc'[u] = pc[u]  BY <1>t, <1>2
<1>4. Calm(w)  BY <1>1, <1>3 DEF Calm
<1>5. CallOf(w)' = CallAt(pc'[w], tag[w], size[w], since[w]) /\ CallOf(w) = CallAt(pc[w], tag[w], size[w], since[w])
  BY <1>1 DEF CallOf
<1>6. \/ pc[w] \in LookingAt /\ pc'[w] \in LookingAt
      \/ pc[w] = "writeLock" /\ pc'[w] = "write"
      \/ pc[w] = "writeUnlock" /\ pc'[w] = "idle"
  BY <1>t, <1>2
<1>7. CallOf(w)' = CallOf(w)
  <2>1. CASE pc[w] \in LookingAt /\ pc'[w] \in LookingAt
    <3>1. CallOf(w) = Looking(tag[w], since[w])  BY <1>5, <2>1, LookingCalls
    <3>2. CallOf(w)' = Looking(tag[w], since[w])  BY <1>5, <2>1, LookingCalls
    <3> QED  BY <3>1, <3>2
  <2>2. CASE pc[w] = "writeLock" /\ pc'[w] = "write"  BY <1>5, <2>2, Calls
  <2>3. CASE pc[w] = "writeUnlock" /\ pc'[w] = "idle"  BY <1>5, <2>3, Calls
  <2> QED  BY <1>6, <2>1, <2>2, <2>3
<1>8. InLookupAt(pc'[w], since'[w]) <=> InLookupAt(pc[w], since[w])  BY <1>6, LookingIs
<1> QED  BY <1>1, <1>4, <1>7, <1>8, CalmShows

\* Every step of the program is a step of the abstract cache or does not show.
LEMMA StepRefines ==
    CInv /\ SInv /\ HInv /\ [Next]_vars => Objects!Next \/ UNCHANGED <<Kept, ObjectCall, Overtaken, ruined>>
<1> SUFFICES ASSUME CInv, SInv, HInv, [Next]_vars PROVE Objects!Next \/ UNCHANGED <<Kept, ObjectCall, Overtaken, ruined>>
  OBVIOUS
<1>1. CASE UNCHANGED vars
  <2>1. UNCHANGED <<list, pc, tag, size, since, ruined>>  BY <1>1 DEF vars
  <2>2. Cached' = Cached /\ heap' = heap  BY <2>1, ListUnchanged DEF list
  <2>3. ObjectCall' = ObjectCall  BY <2>1, CallStays DEF CallOf
  <2>4. Overtaken' = Overtaken
    <3>1. UNCHANGED <<pc, since>>  BY <2>1
    <3> QED  BY <3>1, OvertakenUnfold
  <2> QED  BY <2>1, <2>2, <2>3, <2>4, KeptStays
<1>2. ASSUME NEW w \in Workers, NEW t \in Tags, Request(w, t) PROVE Objects!Next
  BY <1>2, CallsRefine DEF Objects!Next, Request, Goto
<1>3. ASSUME NEW w \in Workers, NEW n \in Sizes, Fetch(w, n) PROVE Objects!Next
  BY <1>3, CallsRefine DEF Objects!Next, Fetch, Goto
<1>4. ASSUME NEW w \in Workers, RemoveOldest(w) \/ AddToCacheHead(w) PROVE Objects!Next
  BY <1>4, EvictRefines, StoreRefines DEF Objects!Next, RemoveOldest, AddToCacheHead, Goto
<1>5. ASSUME NEW w \in Workers, LeaveUnlock(w) \/ GetUnlock(w) \/ GetHead(w)
      PROVE  Objects!Next \/ UNCHANGED <<Kept, ObjectCall, Overtaken, ruined>>
  <2>1. Objects!LookAgain(w) \/ Objects!Hit(w) \/ Objects!Miss(w) \/ UNCHANGED <<Kept, ObjectCall, Overtaken, ruined>>
    BY <1>5, CallsRefine
  <2>2. ~ruined  BY <1>5 DEF LeaveUnlock, GetUnlock, GetHead, Goto
  <2> QED  BY <2>1, <2>2 DEF Objects!Next
<1>6. ASSUME NEW w \in Workers, FindMatch(w) \/ FindNext(w) \/ GetMatch(w) \/ GetNext(w) \/ Ruin(w)
      PROVE  Objects!Next \/ UNCHANGED <<Kept, ObjectCall, Overtaken, ruined>>
  <2>1. Objects!Stray(w) \/ Objects!Ruin(w) \/ UNCHANGED <<Kept, ObjectCall, Overtaken, ruined>>  BY <1>6, StraysRefine
  <2>2. ~ruined  BY <1>6 DEF FindMatch, FindNext, GetMatch, GetNext, Ruin, Visits
  <2> QED  BY <2>1, <2>2 DEF Objects!Next
<1> QED
  BY <1>1, <1>2, <1>3, <1>4, <1>5, <1>6, QuietRefines
  DEF Next, Step, FindHit, GetHit, WriteCache, Ended

\* At first nothing is stored and nobody has called.
LEMMA InitRefines == Init => HInv /\ Objects!Init
<1> SUFFICES ASSUME Init PROVE HInv /\ Objects!Init  OBVIOUS
<1>1. \A w \in Workers : pc[w] = "idle" /\ tag[w] = Nil /\ size[w] = 0 /\ since[w] = {}  BY DEF Init
<1>3. Cached = {}
  <2>1. Cached = {a \in Addrs : heap[a].live}  BY InitCInv, ListFacts
  <2> QED  BY <2>1 DEF Init, NoNode
<1>2. HInv  BY <1>1, <1>3 DEF HInv
<1>4. Kept = [i \in {} |-> 0]
  <2>1. Kept = [a \in {} |-> [tag |-> heap[a].tag, size |-> heap[a].size]]  BY <1>3 DEF Kept
  <2> QED  BY <2>1
<1>5. ObjectCall = [w \in Workers |-> [phase |-> "idle", tag |-> Nil, size |-> 0]]
  <2>1. \A w \in Workers : CallOf(w) = NotLooking("idle", Nil, 0)  BY <1>1, Calls DEF CallOf
  <2>2. [w \in Workers |-> CallOf(w)] = [w \in Workers |-> NotLooking("idle", Nil, 0)]  BY <2>1
  <2> QED  BY <2>2, CallsUnfold, Zenon DEF NotLooking
<1>6. Overtaken = {}  BY <1>1, OvertakenUnfold
<1> QED  BY <1>2, <1>4, <1>5, <1>6 DEF Objects!Init, Kept, Init

\* cache.c implements ObjectCache, for any number of workers, objects and
\* addresses, freed nodes that are read and heads that are stale included: what
\* a worker gets on a hit is what someone stored under that tag and nobody has
\* evicted, unless another worker evicted something during this very lookup.
THEOREM CacheStoresObjects == Spec => ImplementsObjectCache
<1>1. Init => CInv /\ SInv /\ HInv /\ Objects!Init  BY InitCInv, InitSInv, InitRefines
<1>2. CInv /\ SInv /\ HInv /\ [Next]_vars => CInv' /\ SInv' /\ HInv'  BY StepCInv, StepSInv, StepHInv
<1>3. CInv /\ SInv /\ HInv /\ [Next]_vars => [Objects!Next]_(Objects!cacheVars)
  BY StepRefines DEF Objects!cacheVars, Kept
<1> QED  BY <1>1, <1>2, <1>3, PTL DEF Spec, ImplementsObjectCache, Objects!Spec

---------------------------------------------------------------------------
(* One worker and its ages.  The ages of the cached nodes, once a walk of   *)
(* get_hit under way is over, are all different: they put the nodes in the  *)
(* order in which their objects were last read or stored.                   *)

\* There is one worker.
Alone == \A u, v \in Workers : u = v

\* What that adds to SInv: nothing befalls it, so that whatever is stored is
\* stored after a miss, and no tag twice.
NoDuplicateTags == \A a, b \in Cached : heap[a].tag = heap[b].tag => a = b
OInv == SInv /\ NoDuplicateTags /\ \A w \in Workers : since[w] = {}

\* Its walk is in the list, and where it misses there is nothing.
LEMMA LoneWalks ==
    ASSUME CInv, OInv, NEW w \in Workers
    PROVE  /\ pc[w] \in WalkingAt => ptr[w] \in Cached \cup {Nil}
           /\ pc[w] \in {"find", "get"} /\ ptr[w] # Nil => ptr[w] \in Cached /\ heap[ptr[w]].live
           /\ pc[w] \in WalkingAt /\ ptr[w] = Nil /\ ~found[w] => \A a \in Cached : heap[a].tag # tag[w]
           /\ pc[w] \in MissedAt \/ (pc[w] \in {"leaveCount", "leaveUnlock"} /\ ~found[w])
              => \A a \in Cached : heap[a].tag # tag[w]
<1>1. Undisturbed(w) /\ "evicted" \notin since[w]  BY DEF OInv, Undisturbed
<1>2. Seeks(w) /\ Misses(w) /\ SInv  BY DEF OInv, SInv
<1>3. pc[w] \in WalkingAt => ptr[w] \in Cached \cup {Nil}  BY <1>1, <1>2 DEF Seeks
<1>4. pc[w] \in {"find", "get"} /\ ptr[w] # Nil => ptr[w] \in Cached /\ heap[ptr[w]].live
  BY <1>3, ListFacts DEF WalkingAt
<1>5. pc[w] \in WalkingAt /\ ptr[w] = Nil /\ ~found[w] => \A a \in Cached : heap[a].tag # tag[w]
  BY <1>1, <1>2, WalkMissed
<1> QED  BY <1>1, <1>2, <1>3, <1>4, <1>5 DEF Misses

\* Steps after which nothing has befallen anybody.
LEMMA NothingBefalls ==
    ASSUME Alone, CInv, OInv, [Next]_vars
    PROVE  \A u \in Workers : since'[u] = {}
<1>0. since \in [Workers -> SUBSET Events] /\ \A u \in Workers : since[u] = {}  BY DEF CInv, Typed, OInv
<1>1. ASSUME NEW w \in Workers, (\E t \in Tags : Request(w, t)) \/ GetHead(w) PROVE \A u \in Workers : since'[u] = {}
  BY <1>0, <1>1 DEF Request, GetHead
<1>2. ASSUME NEW w \in Workers, FindMatch(w) \/ FindNext(w) \/ GetMatch(w) \/ GetNext(w)
      PROVE  \A u \in Workers : since'[u] = {}
  <2>1. pc[w] \in {"find", "get"} /\ ptr[w] # Nil /\ Looks(w)
    BY <1>2 DEF FindMatch, FindNext, GetMatch, GetNext, Visits
  <2>2. heap[ptr[w]].live  BY <2>1, LoneWalks
  <2> QED  BY <1>0, <2>1, <2>2, Looked
<1>3. ASSUME NEW w \in Workers, RemoveOldest(w) \/ AddToCacheHead(w) PROVE \A u \in Workers : since'[u] = {}
  <2>1. \A u \in Workers : u = w  BY DEF Alone
  <2>2. CASE RemoveOldest(w)
    <3> DEFINE those == Workers \ {w}
    <3>1. Befalls("evicted", those) /\ "evicted" \in Events  BY <2>2 DEF RemoveOldest, Events
    <3>2. those = {}  BY <2>1
    <3> HIDE DEF those
    <3> QED  BY <1>0, <3>1, <3>2, Befallen
  <2>3. CASE AddToCacheHead(w)
    <3> DEFINE those == {v \in Workers \ {w} : tag[v] = tag[w]}
    <3>1. Befalls("stored", those) /\ "stored" \in Events  BY <2>3 DEF AddToCacheHead, Events
    <3>2. those = {}  BY <2>1
    <3> HIDE DEF those
    <3> QED  BY <1>0, <3>1, <3>2, Befallen
  <2> QED  BY <1>3, <2>2, <2>3
<1>4. ASSUME NEW w \in Workers,
             \/ ReadLock(w) \/ ReadCount(w) \/ ReadWait(w) \/ ReadUnlock(w)
             \/ LeaveLock(w) \/ LeaveCount(w) \/ LeaveUnlock(w) \/ GetLock(w) \/ GetUnlock(w) \/ Ruin(w)
             \/ (\E n \in Sizes : Fetch(w, n)) \/ WriteLock(w) \/ WriteUnlock(w)
      PROVE  \A u \in Workers : since'[u] = {}
  <2>1. UNCHANGED since
    BY <1>4 DEF ReadLock, ReadCount, ReadWait, ReadUnlock, LeaveLock, LeaveCount, LeaveUnlock, GetLock, GetUnlock,
                Ruin, Fetch, WriteLock, WriteUnlock
  <2> QED  BY <1>0, <2>1
<1>5. CASE UNCHANGED vars  BY <1>0, <1>5 DEF vars
<1> QED
  BY <1>1, <1>2, <1>3, <1>4, <1>5 DEF Next, Step, FindHit, GetHit, WriteCache, Ended

\* One worker's steps store no tag twice.
LEMMA StepOInv == Alone /\ CInv /\ OInv /\ [Next]_vars => OInv'
<1> SUFFICES ASSUME Alone, CInv, OInv, [Next]_vars PROVE OInv'  OBVIOUS
<1>1. SInv' /\ \A u \in Workers : since'[u] = {}  BY StepSInv, NothingBefalls DEF OInv
<1>2. Cached \in SUBSET Addrs /\ NoDuplicateTags  BY ListFacts DEF OInv
<1>3. ASSUME SameTags PROVE NoDuplicateTags'  BY <1>2, <1>3 DEF SameTags, NoDuplicateTags
<1>4. ASSUME UNCHANGED list PROVE NoDuplicateTags'  BY <1>3, <1>4, ListSameTags
<1>5. ASSUME NEW w \in Workers, GetMatch(w) \/ GetNext(w) PROVE NoDuplicateTags'
  <2>1. SameTags  BY <1>5, GetKeeps DEF SameTags
  <2> QED  BY <1>3, <2>1
<1>6. ASSUME NEW w \in Workers, RemoveOldest(w) PROVE NoDuplicateTags'
  <2>1. PICK k : Removed(k)  BY <1>6, EvictKeeps
  <2>2. Cached' \in SUBSET Cached /\ \A a \in Addrs : heap'[a].tag = heap[a].tag
    BY <2>1, RemovedKeeps, UnlinkFacts
  <2> QED  BY <1>2, <2>2 DEF NoDuplicateTags
<1>7. ASSUME NEW w \in Workers, AddToCacheHead(w) PROVE NoDuplicateTags'
  <2>1. PICK x : Added(w, x)  BY <1>7, StoreKeeps
  <2>2. Cached' = Cached \cup {x}  BY <2>1, AddedKeeps
  <2>3. x \notin Cached /\ heap'[x].tag = tag[w] /\ \A b \in Addrs \ {x} : heap'[b].tag = heap[b].tag
    BY <2>1, AddFacts
  <2>4. pc[w] \in MissedAt  BY <1>7 DEF AddToCacheHead, Goto, MissedAt
  <2>5. \A a \in Cached : heap[a].tag # tag[w]  BY <2>4, LoneWalks
  <2>6. \A a \in Cached : heap'[a].tag = heap[a].tag  BY <1>2, <2>3
  <2> QED  BY <1>2, <2>2, <2>3, <2>5, <2>6 DEF NoDuplicateTags
<1>8. ASSUME \/ UNCHANGED vars
             \/ \E w \in Workers :
                  \/ \E t \in Tags : Request(w, t)
                  \/ ReadLock(w) \/ ReadCount(w) \/ ReadWait(w) \/ ReadUnlock(w) \/ FindMatch(w) \/ FindNext(w)
                  \/ LeaveLock(w) \/ LeaveCount(w) \/ LeaveUnlock(w) \/ GetHead(w) \/ GetLock(w) \/ GetUnlock(w)
                  \/ Ruin(w) \/ (\E n \in Sizes : Fetch(w, n)) \/ WriteLock(w) \/ WriteUnlock(w)
      PROVE  NoDuplicateTags'
  <2>1. UNCHANGED list
    BY <1>8 DEF vars, Request, ReadLock, ReadCount, ReadWait, ReadUnlock, FindMatch, FindNext, LeaveLock, LeaveCount,
                LeaveUnlock, GetHead, GetLock, GetUnlock, Ruin, Fetch, WriteLock, WriteUnlock
  <2> QED  BY <1>4, <2>1
<1>9. NoDuplicateTags'
  BY <1>5, <1>6, <1>7, <1>8 DEF Next, Step, FindHit, GetHit, WriteCache, Ended
<1> QED  BY <1>1, <1>9 DEF OInv

\* At first nothing is stored and nothing has happened.
LEMMA InitOInv == Init => OInv
<1> SUFFICES ASSUME Init PROVE OInv  OBVIOUS
<1>1. \A w \in Workers : since[w] = {}  BY DEF Init
<1>2. Cached = {}
  <2>1. Cached = {a \in Addrs : heap[a].live}  BY InitCInv, ListFacts
  <2> QED  BY <2>1 DEF Init, NoNode
<1> QED  BY <1>1, <1>2, InitSInv DEF OInv, NoDuplicateTags

\* s lists the elements of S, from the least value of f to the greatest.
Ranks(s, S, f) ==
    /\ s \in [1 .. Cardinality(S) -> S]
    /\ \A a \in S : \E k \in 1 .. Cardinality(S) : s[k] = a
    /\ \A j, k \in 1 .. Cardinality(S) : j < k => f[s[j]] < f[s[k]]

\* The first k elements that s lists.
FirstOf(s, k) == {s[i] : i \in 1 .. k}

\* No element is listed twice, and the greater of two values comes later.
LEMMA RanksDiffer ==
    ASSUME NEW S, IsFiniteSet(S), NEW f, \A a \in S : f[a] \in Nat, NEW s, Ranks(s, S, f)
    PROVE  /\ Cardinality(S) \in Nat
           /\ \A j, k \in 1 .. Cardinality(S) : /\ s[j] = s[k] => j = k
                                                /\ f[s[j]] <= f[s[k]] <=> j <= k
<1> DEFINE n == Cardinality(S)
<1>1. n \in Nat  BY FS_CardinalityType
<1>2. \A j \in 1 .. n : s[j] \in S /\ f[s[j]] \in Nat  BY DEF Ranks
<1>3. \A j, k \in 1 .. n : j < k => f[s[j]] < f[s[k]]  BY DEF Ranks
<1> HIDE DEF n
<1>4. \A j, k \in 1 .. n : (s[j] = s[k] => j = k) /\ (f[s[j]] <= f[s[k]] <=> j <= k)
  <2> SUFFICES ASSUME NEW j \in 1 .. n, NEW k \in 1 .. n
               PROVE  (s[j] = s[k] => j = k) /\ (f[s[j]] <= f[s[k]] <=> j <= k)
    OBVIOUS
  <2>1. f[s[j]] \in Nat /\ f[s[k]] \in Nat /\ j \in Nat /\ k \in Nat  BY <1>1, <1>2
  <2>2. CASE j < k
    <3>1. f[s[j]] < f[s[k]]  BY <1>3, <2>2
    <3> QED  BY <2>1, <2>2, <3>1
  <2>3. CASE k < j
    <3>1. f[s[k]] < f[s[j]]  BY <1>3, <2>3
    <3> QED  BY <2>1, <2>3, <3>1
  <2>4. CASE j = k  BY <2>1, <2>4
  <2> QED  BY <2>1, <2>2, <2>3, <2>4
<1> QED  BY <1>1, <1>4 DEF n

\* The place of an element is the number of elements whose value is not
\* greater.
LEMMA PlaceIsRank ==
    ASSUME NEW S, IsFiniteSet(S), NEW f, \A a \in S : f[a] \in Nat, NEW s, Ranks(s, S, f),
           NEW k \in 1 .. Cardinality(S)
    PROVE  Cardinality({c \in S : f[c] <= f[s[k]]}) = k
<1> DEFINE n == Cardinality(S)
           T == {c \in S : f[c] <= f[s[k]]}
           g == [i \in 1 .. k |-> s[i]]
<1>1. /\ n \in Nat
      /\ \A i, j \in 1 .. n : (s[i] = s[j] => i = j) /\ (f[s[i]] <= f[s[j]] <=> i <= j)
  BY RanksDiffer
<1>2. s \in [1 .. n -> S] /\ \A a \in S : \E i \in 1 .. n : s[i] = a  BY DEF Ranks
<1> HIDE DEF n
<1>3. k \in Nat /\ k \in 1 .. n /\ \A i \in 1 .. k : i \in 1 .. n /\ i <= k  BY <1>1 DEF n
<1>4. \A i \in 1 .. n : i <= k => i \in 1 .. k  BY <1>3
<1>5. g \in [1 .. k -> T]  BY <1>1, <1>2, <1>3
<1>6. \A i, j \in 1 .. k : g[i] = g[j] => i = j  BY <1>1, <1>3
<1>7. \A c \in T : \E i \in 1 .. k : g[i] = c
  <2> TAKE c \in T
  <2>1. PICK i \in 1 .. n : s[i] = c  BY <1>2
  <2>2. i <= k  BY <1>1, <1>3, <2>1
  <2>3. i \in 1 .. k  BY <1>4, <2>2
  <2> QED  BY <2>1, <2>3
<1> HIDE DEF g, T
<1>8. g \in Bijection(1 .. k, T)  BY <1>5, <1>6, <1>7 DEF Bijection, Injection, Surjection, IsInjective
<1>9. ExistsBijection(1 .. k, T)  BY <1>8 DEF ExistsBijection
<1>10. Cardinality(T) = k  BY <1>3, <1>9, FS_CountingElements
<1> QED  BY <1>10 DEF T

\* The last element listed has the greatest value.
LEMMA LastIsGreatest ==
    ASSUME NEW S, IsFiniteSet(S), NEW f, \A a \in S : f[a] \in Nat, NEW s, Ranks(s, S, f),
           NEW a \in S, \A c \in S : f[c] <= f[a]
    PROVE  Cardinality(S) \in Nat \ {0} /\ a = s[Cardinality(S)]
<1> DEFINE n == Cardinality(S)
<1>1. /\ n \in Nat
      /\ \A i, j \in 1 .. n : (s[i] = s[j] => i = j) /\ (f[s[i]] <= f[s[j]] <=> i <= j)
  BY RanksDiffer
<1>2. s \in [1 .. n -> S]  BY DEF Ranks
<1>3. PICK k \in 1 .. n : s[k] = a  BY DEF Ranks
<1> HIDE DEF n
<1>4. n \in Nat \ {0} /\ n \in 1 .. n /\ k <= n /\ k \in Nat  BY <1>1, <1>3
<1>5. f[s[n]] <= f[s[k]]  BY <1>2, <1>3, <1>4
<1>6. n <= k  BY <1>1, <1>4, <1>5
<1>7. n = k  BY <1>4, <1>6
<1> QED  BY <1>3, <1>4, <1>7 DEF n

---------------------------------------------------------------------------
\* An order with the place p moved to the front, with an element put before
\* it, and without its last.
Fronted(s, p, n) == [k \in 1 .. n |-> IF k = 1 THEN s[p] ELSE IF k <= p THEN s[k - 1] ELSE s[k]]
Behind(a, s, n) == [k \in 1 .. n + 1 |-> IF k = 1 THEN a ELSE s[k - 1]]
Shortened(s, n) == [k \in 1 .. n - 1 |-> s[k]]

\* One element gets the least value and the others grow alike.
Refreshed(f, g, a, S) == g[a] = 1 /\ \A c \in S \ {a} : g[c] = f[c] + 1

\* Such a change among the elements moves one of them to the front.
LEMMA RanksFronted ==
    ASSUME NEW S, IsFiniteSet(S), NEW f, \A a \in S : f[a] \in Nat \ {0}, NEW s, Ranks(s, S, f),
           NEW p \in 1 .. Cardinality(S), NEW g, Refreshed(f, g, s[p], S)
    PROVE  Ranks(Fronted(s, p, Cardinality(S)), S, g)
<1> DEFINE n == Cardinality(S)
           t == Fronted(s, p, n)
<1>1. /\ n \in Nat
      /\ \A i, j \in 1 .. n : (s[i] = s[j] => i = j) /\ (f[s[i]] <= f[s[j]] <=> i <= j)
  BY RanksDiffer
<1>2. /\ s \in [1 .. n -> S] /\ \A a \in S : \E i \in 1 .. n : s[i] = a
      /\ \A i, j \in 1 .. n : i < j => f[s[i]] < f[s[j]]
  BY DEF Ranks
<1>p. p \in 1 .. n  OBVIOUS
<1> HIDE DEF n
<1> DEFINE old(k) == IF k = 1 THEN p ELSE IF k <= p THEN k - 1 ELSE k
<1>3. \A k \in 1 .. n : old(k) \in 1 .. n /\ t[k] = s[old(k)] /\ (old(k) = p <=> k = 1)
  BY <1>1, <1>p DEF Fronted
<1>4. t = [k \in 1 .. n |-> t[k]]  BY DEF Fronted
<1> HIDE DEF t
<1>5. t \in [1 .. n -> S]
  <2>1. \A k \in 1 .. n : t[k] \in S
    <3> HIDE DEF old
    <3> QED  BY <1>2, <1>3
  <2> QED  BY <1>4, <2>1
<1>6. ASSUME NEW a \in S PROVE \E k \in 1 .. n : t[k] = a
  <2>1. PICK i \in 1 .. n : s[i] = a  BY <1>2
  <2>2. \E k \in 1 .. n : old(k) = i
    <3>1. CASE i = p
      <4>1. 1 \in 1 .. n /\ old(1) = i  BY <1>1, <3>1
      <4> QED  BY <4>1
    <3>2. CASE i < p
      <4>1. i + 1 \in 1 .. n /\ old(i + 1) = i  BY <1>1, <1>p, <3>2
      <4> QED  BY <4>1
    <3>3. CASE i > p
      <4>1. old(i) = i  BY <1>1, <1>p, <3>3
      <4> QED  BY <4>1
    <3> QED  BY <1>1, <3>1, <3>2, <3>3
  <2> HIDE DEF old
  <2> QED  BY <1>3, <2>1, <2>2
<1>7. ASSUME NEW j \in 1 .. n, NEW k \in 1 .. n, j < k PROVE g[t[j]] < g[t[k]]
  <2>1. k # 1 /\ old(k) # p /\ old(k) \in 1 .. n /\ old(j) \in 1 .. n  BY <1>1, <1>3, <1>7
  <2>2. s[old(k)] # s[p] /\ s[old(k)] \in S
    <3> HIDE DEF old
    <3> QED  BY <1>1, <1>2, <1>p, <2>1
  <2>3. g[t[k]] = f[s[old(k)]] + 1 /\ f[s[old(k)]] \in Nat \ {0}
    <3> HIDE DEF old
    <3> QED  BY <1>3, <2>2 DEF Refreshed
  <2>4. CASE j = 1
    <3>1. g[t[j]] = 1  BY <1>3, <2>4 DEF Refreshed
    <3> HIDE DEF old
    <3> QED  BY <2>3, <3>1
  <2>5. CASE j # 1
    <3>1. old(j) # p /\ old(j) < old(k)  BY <1>1, <1>3, <1>7, <1>p, <2>5
    <3> HIDE DEF old
    <3>2. s[old(j)] # s[p] /\ s[old(j)] \in S  BY <1>1, <1>2, <1>p, <2>1, <3>1
    <3>3. g[t[j]] = f[s[old(j)]] + 1 /\ f[s[old(j)]] \in Nat \ {0}  BY <1>3, <3>2 DEF Refreshed
    <3>4. f[s[old(j)]] < f[s[old(k)]]  BY <1>2, <2>1, <3>1
    <3> QED  BY <2>3, <3>3, <3>4
  <2> QED  BY <2>4, <2>5
<1> QED  BY <1>5, <1>6, <1>7 DEF Ranks, n, t

\* An element that is new comes before the others.
LEMMA RanksBehind ==
    ASSUME NEW S, IsFiniteSet(S), NEW f, \A a \in S : f[a] \in Nat \ {0}, NEW s, Ranks(s, S, f),
           NEW a, a \notin S, NEW g, Refreshed(f, g, a, S)
    PROVE  Ranks(Behind(a, s, Cardinality(S)), S \cup {a}, g) /\ Cardinality(S \cup {a}) = Cardinality(S) + 1
<1> DEFINE n == Cardinality(S)
           t == Behind(a, s, n)
<1>1. n \in Nat /\ Cardinality(S \cup {a}) = n + 1  BY FS_CardinalityType, FS_AddElement
<1>2. /\ s \in [1 .. n -> S] /\ \A c \in S : \E i \in 1 .. n : s[i] = c
      /\ \A i, j \in 1 .. n : i < j => f[s[i]] < f[s[j]]
  BY DEF Ranks
<1> HIDE DEF n
<1>3. \A k \in 1 .. n + 1 : /\ k = 1 => t[k] = a
                            /\ k # 1 => k - 1 \in 1 .. n /\ t[k] = s[k - 1]
  BY <1>1 DEF Behind
<1>4. t = [k \in 1 .. n + 1 |-> t[k]]  BY DEF Behind
<1> HIDE DEF t
<1>5. t \in [1 .. n + 1 -> S \cup {a}]
  <2>1. \A k \in 1 .. n + 1 : t[k] \in S \cup {a}  BY <1>2, <1>3
  <2> QED  BY <1>4, <2>1
<1>6. ASSUME NEW c \in S \cup {a} PROVE \E k \in 1 .. n + 1 : t[k] = c
  <2>1. CASE c = a
    <3>1. 1 \in 1 .. n + 1  BY <1>1
    <3> QED  BY <1>3, <2>1, <3>1
  <2>2. CASE c \in S
    <3>1. PICK i \in 1 .. n : s[i] = c  BY <1>2, <2>2
    <3>2. i + 1 \in 1 .. n + 1 /\ i + 1 # 1 /\ (i + 1) - 1 = i  BY <1>1
    <3>3. t[i + 1] = s[i]  BY <1>3, <3>2
    <3> QED  BY <3>1, <3>2, <3>3
  <2> QED  BY <2>1, <2>2
<1>7. ASSUME NEW j \in 1 .. n + 1, NEW k \in 1 .. n + 1, j < k PROVE g[t[j]] < g[t[k]]
  <2>1. k # 1  BY <1>1, <1>7
  <2>2. k - 1 \in 1 .. n /\ t[k] = s[k - 1]  BY <1>3, <2>1
  <2>3. s[k - 1] \in S \ {a}  BY <1>2, <2>2
  <2>4. g[t[k]] = f[s[k - 1]] + 1 /\ f[s[k - 1]] \in Nat \ {0}  BY <2>2, <2>3 DEF Refreshed
  <2>5. CASE j = 1
    <3>1. g[t[j]] = 1  BY <1>3, <2>5 DEF Refreshed
    <3> QED  BY <2>4, <3>1
  <2>6. CASE j # 1
    <3>1. j - 1 \in 1 .. n /\ t[j] = s[j - 1]  BY <1>3, <2>6
    <3>2. s[j - 1] \in S \ {a}  BY <1>2, <3>1
    <3>3. g[t[j]] = f[s[j - 1]] + 1 /\ f[s[j - 1]] \in Nat \ {0}  BY <3>1, <3>2 DEF Refreshed
    <3>4. j - 1 < k - 1  BY <1>1, <1>7
    <3>5. f[s[j - 1]] < f[s[k - 1]]  BY <1>2, <2>2, <3>1, <3>4
    <3> QED  BY <2>4, <3>3, <3>5
  <2> QED  BY <2>5, <2>6
<1>8. Ranks(t, S \cup {a}, g)  BY <1>1, <1>5, <1>6, <1>7 DEF Ranks
<1> QED  BY <1>1, <1>8 DEF n, t

\* Without its last element the order lists the others.
LEMMA RanksShortened ==
    ASSUME NEW S, IsFiniteSet(S), NEW f, \A a \in S : f[a] \in Nat, NEW s, Ranks(s, S, f),
           Cardinality(S) # 0
    PROVE  /\ Ranks(Shortened(s, Cardinality(S)), S \ {s[Cardinality(S)]}, f)
           /\ Cardinality(S \ {s[Cardinality(S)]}) = Cardinality(S) - 1
<1> DEFINE n == Cardinality(S)
           t == Shortened(s, n)
           R == S \ {s[n]}
<1>1. /\ n \in Nat
      /\ \A i, j \in 1 .. n : (s[i] = s[j] => i = j) /\ (f[s[i]] <= f[s[j]] <=> i <= j)
  BY RanksDiffer
<1>2. /\ s \in [1 .. n -> S] /\ \A c \in S : \E i \in 1 .. n : s[i] = c
      /\ \A i, j \in 1 .. n : i < j => f[s[i]] < f[s[j]]
  BY DEF Ranks
<1>n. n # 0  OBVIOUS
<1>3. n \in 1 .. n /\ n - 1 \in Nat /\ \A k \in 1 .. n - 1 : k \in 1 .. n /\ k # n
  <2> HIDE DEF n
  <2> QED  BY <1>1, <1>n
<1>4. s[n] \in S
  <2> HIDE DEF n
  <2> QED  BY <1>2, <1>3
<1>5. Cardinality(R) = n - 1  BY <1>4, FS_RemoveElement
<1> HIDE DEF n
<1>6. t = [k \in 1 .. n - 1 |-> s[k]]  BY DEF Shortened
<1> HIDE DEF t, R
<1>7. t \in [1 .. n - 1 -> R]
  <2>1. \A k \in 1 .. n - 1 : s[k] \in R  BY <1>1, <1>2, <1>3 DEF R
  <2> QED  BY <1>6, <2>1
<1>8. ASSUME NEW c \in R PROVE \E k \in 1 .. n - 1 : t[k] = c
  <2>1. PICK i \in 1 .. n : s[i] = c  BY <1>2 DEF R
  <2>2. i # n  BY <2>1 DEF R
  <2>3. i \in 1 .. n - 1  BY <1>1, <2>2
  <2> QED  BY <1>6, <2>1, <2>3
<1>9. \A j, k \in 1 .. n - 1 : j < k => f[t[j]] < f[t[k]]  BY <1>2, <1>3, <1>6
<1>10. Ranks(t, R, f)  BY <1>5, <1>7, <1>8, <1>9 DEF Ranks
<1> QED  BY <1>5, <1>10 DEF n, t, R

\* Only the values of the elements matter.
LEMMA RanksSame ==
    ASSUME NEW S, NEW f, NEW s, Ranks(s, S, f), NEW g, \A a \in S : g[a] = f[a]
    PROVE  Ranks(s, S, g)
<1> DEFINE n == Cardinality(S)
<1>1. /\ s \in [1 .. n -> S] /\ \A a \in S : \E k \in 1 .. n : s[k] = a
      /\ \A j, k \in 1 .. n : j < k => f[s[j]] < f[s[k]]
  BY DEF Ranks
<1>2. \A j, k \in 1 .. n : j < k => g[s[j]] < g[s[k]]  BY <1>1
<1> QED  BY <1>1, <1>2 DEF Ranks

---------------------------------------------------------------------------
\* A walk that stands at p has ahead of it what is at p or beyond.
LEMMA ReachIsBeyond ==
    ASSUME CInv, NEW p \in Cached \cup {Nil}, NEW a \in Cached
    PROVE  a \in Reach(p) <=> Beyond(Nodes(head), p, a)
<1> DEFINE c == Nodes(head)
           d == Nodes(p)
<1>1. /\ heap \in [Addrs -> Node] /\ \A b \in Addrs : heap[b].next \in Pointers
      /\ Chain(c, heap, head) /\ ListLike(c) /\ Cached = On(c)
  BY ListFacts
<1>2. Chain(d, heap, p)
  <2>1. d = CHOOSE e : Walks(e, heap, p)  BY Zenon DEF Nodes, Walks, Last
  <2>2. p \in Pointers  BY <1>1 DEF On, Pointers, Chain
  <2> HIDE DEF d
  <2> QED  BY <1>1, <2>1, <2>2, WalksIsChain
<1>3. a \in Reach(p) <=> a \in On(d)  BY Zenon DEF Reach, On, Last
<1> HIDE DEF c, d
<1>4. a # Nil  BY <1>1 DEF On
<1>5. CASE p = Nil
  <2>1. ~Beyond(c, p, a)  BY <1>5, NothingBeyondEnd DEF c
  <2>2. \A k \in 0 .. Last : d[k] = Nil
    <3>1. d[0] = Nil /\ 0 \in 0 .. Last /\ \A k \in 0 .. Last : k \in 0 .. Last  BY <1>2, <1>5, LastIsNat DEF Chain
    <3> QED  BY <1>2, <3>1, ChainEnds
  <2> QED  BY <1>3, <1>4, <2>1, <2>2 DEF On, c
<1>6. CASE p \in Cached
  <2>1. PICK j \in 0 .. Last : c[j] = p /\ p # Nil  BY <1>1, <1>6 DEF On
  <2> DEFINE e == [k \in 0 .. Last |-> IF j + k <= Last THEN c[j + k] ELSE Nil]
  <2>2. Last \in Nat /\ c[Last] = Nil /\ c \in [0 .. Last -> Pointers]  BY <1>1, LastIsNat DEF ListLike, Chain
  <2>3. e \in [0 .. Last -> Pointers]
    <3>1. \A k \in 0 .. Last : j + k <= Last => j + k \in 0 .. Last  BY <2>2
    <3>2. Nil \in Pointers  BY DEF Pointers
    <3> QED  BY <2>2, <3>1, <3>2
  <2>4. e[0] = p  BY <2>1, <2>2
  <2>5. ASSUME NEW k \in 1 .. Last PROVE e[k] = IF e[k - 1] = Nil THEN Nil ELSE heap[e[k - 1]].next
    <3>1. k \in 0 .. Last /\ k - 1 \in 0 .. Last /\ j + (k - 1) = (j + k) - 1  BY <2>2
    <3>2. e[k] = IF j + k <= Last THEN c[j + k] ELSE Nil  BY <3>1
    <3>3. e[k - 1] = IF (j + k) - 1 <= Last THEN c[(j + k) - 1] ELSE Nil  BY <3>1
    <3> HIDE DEF e
    <3>4. CASE j + k <= Last
      <4>1. j + k \in 1 .. Last /\ (j + k) - 1 <= Last  BY <2>2, <3>4
      <4>2. c[j + k] = IF c[(j + k) - 1] = Nil THEN Nil ELSE heap[c[(j + k) - 1]].next  BY <1>1, <4>1 DEF Chain
      <4> QED  BY <3>2, <3>3, <3>4, <4>1, <4>2
    <3>5. CASE ~(j + k <= Last)
      <4>1. (j + k) - 1 = Last \/ ~((j + k) - 1 <= Last)  BY <2>2, <3>5
      <4>2. e[k - 1] = Nil  BY <2>2, <3>3, <4>1
      <4> QED  BY <3>2, <3>5, <4>2
    <3> QED  BY <3>4, <3>5
  <2>6. Chain(e, heap, p)
    <3> HIDE DEF e
    <3> QED  BY <2>3, <2>4, <2>5 DEF Chain
  <2>7. d = e
    <3> HIDE DEF e
    <3> QED  BY <1>2, <2>6, ChainUnique
  <2>8. a \in On(d) => Beyond(c, p, a)
    <3> SUFFICES ASSUME a \in On(d) PROVE Beyond(c, p, a)  OBVIOUS
    <3>1. PICK k \in 0 .. Last : e[k] = a  BY <2>7 DEF On
    <3>2. j + k <= Last /\ c[j + k] = a  BY <1>4, <3>1
    <3>3. j + k \in 0 .. Last /\ j <= j + k  BY <2>2, <3>2
    <3> QED  BY <2>1, <3>2, <3>3 DEF Beyond
  <2>9. Beyond(c, p, a) => a \in On(d)
    <3> SUFFICES ASSUME Beyond(c, p, a) PROVE a \in On(d)  OBVIOUS
    <3>1. PICK m \in 0 .. Last, q \in 0 .. Last : q <= m /\ c[q] = p /\ c[m] = a  BY DEF Beyond
    <3>2. q = j  BY <1>1, <2>1, <3>1 DEF ListLike
    <3>3. m - j \in 0 .. Last /\ j + (m - j) = m /\ m <= Last  BY <2>2, <3>1, <3>2
    <3>4. e[m - j] = a  BY <3>1, <3>3
    <3> HIDE DEF e
    <3>5. d[m - j] = a  BY <2>7, <3>4
    <3> QED  BY <1>4, <3>3, <3>5 DEF On
  <2> QED  BY <1>3, <2>8, <2>9 DEF c
<1> QED  BY <1>5, <1>6

\* What is beyond the next node is beyond this one, and is another.
LEMMA BeyondNext ==
    ASSUME CInv, NEW p \in Cached, NEW a \in Cached, Beyond(Nodes(head), heap[p].next, a)
    PROVE  a # p /\ Beyond(Nodes(head), p, a)
<1> DEFINE c == Nodes(head)
<1>1. Chain(c, heap, head) /\ Cached = On(c) /\ ListLike(c)  BY ListFacts
<1>2. heap[p].next # Nil  BY NothingBeyondEnd
<1> HIDE DEF c
<1>3. PICK k \in 0 .. Last : c[k] = p /\ p # Nil  BY <1>1 DEF On
<1>4. k # Last  BY <1>1, <1>3 DEF ListLike
<1>5. k + 1 \in 1 .. Last /\ (k + 1) - 1 = k /\ k + 1 \in 0 .. Last /\ k <= k + 1  BY <1>4, LastIsNat
<1>6. c[k + 1] = heap[p].next
  <2>1. c[k + 1] = IF c[k] = Nil THEN Nil ELSE heap[c[k]].next  BY <1>1, <1>5 DEF Chain
  <2> QED  BY <1>3, <2>1
<1>7. PICK i \in 0 .. Last, j \in 0 .. Last : j <= i /\ c[j] = heap[p].next /\ c[i] = a  BY DEF Beyond, c
<1>8. j = k + 1  BY <1>1, <1>2, <1>5, <1>6, <1>7 DEF ListLike
<1>9. k <= i /\ k # i  BY <1>7, <1>8, LastIsNat
<1>10. a # p  BY <1>1, <1>3, <1>7, <1>9 DEF ListLike
<1> QED  BY <1>3, <1>7, <1>9, <1>10 DEF Beyond, c

---------------------------------------------------------------------------
\* The age of a node once the walk of a worker at p is over, if there is one.
LaterAge(p, ahead, hit, age) ==
    IF p = "get" /\ ahead THEN IF hit THEN FirstAge ELSE Older(age) ELSE age

\* That is what AgeAfterWalk says when w is the one worker.
LaterAges == \A w \in Workers : \A a \in Cached :
    AgeAfterWalk(a) = LaterAge(pc[w], Beyond(Nodes(head), ptr[w], a), heap[a].tag = tag[w], heap[a].age)

LEMMA WalkAgesUnfold == Alone /\ CInv /\ OInv => LaterAges
<1> SUFFICES ASSUME Alone, CInv, OInv, NEW w \in Workers, NEW a \in Cached
             PROVE  AgeAfterWalk(a) = LaterAge(pc[w], Beyond(Nodes(head), ptr[w], a), heap[a].tag = tag[w], heap[a].age)
  BY DEF LaterAges
<1>1. \A u \in Workers : u = w  BY DEF Alone
<1>2. (\E u \in Workers : pc[u] = "get" /\ a \in Reach(ptr[u])) <=> pc[w] = "get" /\ a \in Reach(ptr[w])
  BY <1>1
<1>3. (\E u \in Workers : pc[u] = "get" /\ heap[a].tag = tag[u]) <=> pc[w] = "get" /\ heap[a].tag = tag[w]
  BY <1>1
<1>4. CASE pc[w] = "get"
  <2>1. ptr[w] \in Cached \cup {Nil}  BY <1>4, LoneWalks DEF WalkingAt
  <2>2. a \in Reach(ptr[w]) <=> Beyond(Nodes(head), ptr[w], a)  BY <2>1, ReachIsBeyond
  <2> QED  BY <1>2, <1>3, <1>4, <2>2 DEF AgeAfterWalk, LaterAge
<1>5. CASE pc[w] # "get"  BY <1>2, <1>5 DEF AgeAfterWalk, LaterAge
<1> QED  BY <1>4, <1>5

\* The later ages of all nodes.
Later == [a \in Addrs |-> AgeAfterWalk(a)]

\* s lists the cached nodes by their ages, youngest first.
Order(s) == Ranks(s, Cached, Later)

\* The objects in the nodes that s lists.
Object(h, a) == [tag |-> h[a].tag, size |-> h[a].size]
Listing(h, s, n) == [k \in 1 .. n |-> Object(h, s[k])]

\* An age is a number that is not 0 while no age has come round.
LEMMA LaterIsNat ==
    ASSUME Alone, AgeMod > 2 * MaxRequests + 1, CInv, AInv, OInv, Workers # {}
    PROVE  /\ IsFiniteSet(Cached) /\ Cached \in SUBSET Addrs
           /\ \A a \in Cached : AgeAfterWalk(a) \in Nat \ {0} /\ Later[a] = AgeAfterWalk(a)
<1>1. Cached \in SUBSET Addrs /\ Cached = {a \in Addrs : heap[a].live}  BY ListFacts
<1>2. IsFiniteSet(Cached)  BY <1>1, LastIsNat, FS_Subset
<1>3. ASSUME NEW a \in Cached PROVE AgeAfterWalk(a) \in Nat \ {0}
  <2>1. PICK w \in Workers : TRUE  OBVIOUS
  <2>2. AgeAfterWalk(a) = LaterAge(pc[w], Beyond(Nodes(head), ptr[w], a), heap[a].tag = tag[w], heap[a].age)
    BY WalkAgesUnfold DEF LaterAges
  <2>3. /\ heap[a].age \in Nat /\ heap[a].age >= 1 /\ Due(a) \in {0, 1} /\ Budget \in Nat
        /\ heap[a].age + Due(a) + Budget <= 1 + 2 * requests /\ requests \in Nat /\ requests <= MaxRequests
    BY <1>1, AgeFacts
  <2>4. CASE pc[w] = "get" /\ Beyond(Nodes(head), ptr[w], a)
    <3>1. heap[a].age + 1 < AgeMod
      <4>1. w \in At(AddsAhead)  BY <2>4 DEF At, AddsAhead
      <4>2. Cardinality(At(AddsAhead)) # 0 /\ Cardinality(At(AddsAhead)) \in Nat  BY <4>1, CountIsNat
      <4>3. Cardinality(At(WalksAhead)) \in Nat  BY CountIsNat
      <4>4. Budget >= 1  BY <4>2, <4>3 DEF Budget
      <4>5. heap[a].age + 1 <= 1 + 2 * requests  BY <2>3, <4>4
      <4>6. 1 + 2 * requests <= 2 * MaxRequests + 1 /\ MaxRequests \in Nat  BY <2>3, FiniteAssumption
      <4> QED  BY <2>3, <4>5, <4>6, AgeAssumption
    <3>2. Older(heap[a].age) = heap[a].age + 1  BY <2>3, <3>1, OlderIsAge
    <3> QED  BY <2>2, <2>3, <2>4, <3>2 DEF LaterAge, FirstAge
  <2>5. CASE ~(pc[w] = "get" /\ Beyond(Nodes(head), ptr[w], a))  BY <2>2, <2>3, <2>5 DEF LaterAge
  <2> QED  BY <2>4, <2>5
<1> QED  BY <1>1, <1>2, <1>3 DEF Later

\* The objects by age are those of the nodes as listed.
LEMMA ByAgeIsListing ==
    ASSUME Alone, AgeMod > 2 * MaxRequests + 1, CInv, AInv, OInv, Workers # {}, NEW s, Order(s)
    PROVE  ByAge = Listing(heap, s, Cardinality(Cached))
<1> DEFINE n == Cardinality(Cached)
           Chosen(k) == CHOOSE b \in Cached : Cardinality({c \in Cached : AgeAfterWalk(c) <= AgeAfterWalk(b)}) = k
<1>1. /\ IsFiniteSet(Cached) /\ Cached \in SUBSET Addrs
      /\ \A a \in Cached : AgeAfterWalk(a) \in Nat \ {0} /\ Later[a] = AgeAfterWalk(a)
  BY LaterIsNat
<1>2. Ranks(s, Cached, Later)  BY DEF Order
<1>3. s \in [1 .. n -> Cached] /\ \A a \in Cached : \E k \in 1 .. n : s[k] = a  BY <1>2 DEF Ranks
<1>4. \A k \in 1 .. n : Cardinality({c \in Cached : AgeAfterWalk(c) <= AgeAfterWalk(s[k])}) = k
  <2> TAKE k \in 1 .. n
  <2>1. \A a \in Cached : Later[a] \in Nat  BY <1>1
  <2>2. Cardinality({c \in Cached : Later[c] <= Later[s[k]]}) = k  BY <1>1, <1>2, <2>1, PlaceIsRank
  <2>3. {c \in Cached : Later[c] <= Later[s[k]]} = {c \in Cached : AgeAfterWalk(c) <= AgeAfterWalk(s[k])}
    BY <1>1, <1>3
  <2> QED  BY <2>2, <2>3
<1> HIDE DEF n
<1>5. ASSUME NEW k \in 1 .. n PROVE Chosen(k) = s[k]
  <2>1. s[k] \in Cached /\ Cardinality({c \in Cached : AgeAfterWalk(c) <= AgeAfterWalk(s[k])}) = k  BY <1>3, <1>4
  <2>2. /\ Chosen(k) \in Cached
        /\ Cardinality({c \in Cached : AgeAfterWalk(c) <= AgeAfterWalk(Chosen(k))}) = k
    BY <2>1
  <2> HIDE DEF Chosen
  <2>3. PICK j \in 1 .. n : s[j] = Chosen(k)  BY <1>3, <2>2
  <2>4. j = k  BY <1>4, <2>2, <2>3
  <2> QED  BY <2>3, <2>4
<1>6. ByAge = [k \in 1 .. n |-> Object(heap, Chosen(k))]  BY Zenon DEF ByAge, Object, n
<1> HIDE DEF Chosen
<1>7. ByAge = [k \in 1 .. n |-> Object(heap, s[k])]  BY <1>5, <1>6
<1> QED  BY <1>7 DEF Listing, n

---------------------------------------------------------------------------
(* What LruCache does to its sequence, place by place.                      *)

\* An element moved to the front.
LEMMA SeqFronted ==
    ASSUME NEW S, NEW q \in Seq(S), NEW p \in 1 .. Len(q)
    PROVE  <<q[p]>> \o Lru!RemoveAt(q, p) = Fronted(q, p, Len(q))
<1> DEFINE n == Len(q)
           a == SubSeq(q, 1, p - 1)
           b == SubSeq(q, p + 1, n)
           x == q[p]
<1>1. Lru!RemoveAt(q, p) = a \o b  BY Zenon DEF Lru!RemoveAt
<1>2. n \in Nat /\ \A i \in 1 .. n : q[i] \in S  BY LenProperties, ElementOfSeq
<1>p. p \in 1 .. n /\ x \in S  BY <1>2
<1> HIDE DEF n
<1>3. a \in Seq(S) /\ Len(a) = p - 1 /\ \A i \in 1 .. p - 1 : a[i] = q[i]
  <2>1. p - 1 \in Int /\ 1 \in Int /\ \A i \in 1 .. p - 1 : q[i] \in S  BY <1>2, <1>p
  <2>2. /\ a \in Seq(S) /\ Len(a) = IF 1 <= p - 1 THEN (p - 1) - 1 + 1 ELSE 0
        /\ \A i \in 1 .. (p - 1) - 1 + 1 : a[i] = q[1 + i - 1]
    BY <2>1, SubSeqProperties
  <2> HIDE DEF a
  <2> QED  BY <1>2, <1>p, <2>2
<1>4. b \in Seq(S) /\ Len(b) = n - p /\ \A i \in 1 .. n - p : b[i] = q[p + i]
  <2>1. p + 1 \in Int /\ n \in Int /\ \A i \in p + 1 .. n : q[i] \in S  BY <1>2, <1>p
  <2>2. /\ b \in Seq(S) /\ Len(b) = IF p + 1 <= n THEN n - (p + 1) + 1 ELSE 0
        /\ \A i \in 1 .. n - (p + 1) + 1 : b[i] = q[(p + 1) + i - 1]
    BY <2>1, SubSeqProperties
  <2> HIDE DEF b
  <2> QED  BY <1>2, <1>p, <2>2
<1> HIDE DEF a, b, x
<1>5. /\ a \o b \in Seq(S) /\ Len(a \o b) = n - 1
      /\ \A i \in 1 .. n - 1 : (a \o b)[i] = IF i <= p - 1 THEN q[i] ELSE q[i + 1]
  <2>1. /\ a \o b \in Seq(S) /\ Len(a \o b) = Len(a) + Len(b)
        /\ \A i \in 1 .. Len(a) + Len(b) : (a \o b)[i] = IF i <= Len(a) THEN a[i] ELSE b[i - Len(a)]
    BY <1>3, <1>4, ConcatProperties
  <2>2. Len(a) + Len(b) = n - 1  BY <1>2, <1>3, <1>4, <1>p
  <2>3. ASSUME NEW i \in 1 .. n - 1 PROVE (a \o b)[i] = IF i <= p - 1 THEN q[i] ELSE q[i + 1]
    <3>1. (a \o b)[i] = IF i <= p - 1 THEN a[i] ELSE b[i - (p - 1)]  BY <1>3, <2>1, <2>2
    <3>2. CASE i <= p - 1
      <4>1. i \in 1 .. p - 1  BY <1>2, <1>p, <3>2
      <4> QED  BY <1>3, <3>1, <3>2, <4>1
    <3>3. CASE ~(i <= p - 1)
      <4>1. i - (p - 1) \in 1 .. n - p /\ p + (i - (p - 1)) = i + 1  BY <1>2, <1>p, <3>3
      <4>2. b[i - (p - 1)] = q[i + 1]  BY <1>4, <4>1
      <4> QED  BY <3>1, <3>3, <4>2
    <3> QED  BY <3>2, <3>3
  <2> QED  BY <2>1, <2>2, <2>3
<1> DEFINE rest == a \o b
<1> HIDE DEF rest
<1>6. /\ <<x>> \o rest \in Seq(S) /\ Len(<<x>> \o rest) = n
      /\ \A i \in 1 .. n : (<<x>> \o rest)[i] = IF i = 1 THEN x ELSE rest[i - 1]
  <2>1. <<x>> \in Seq(S) /\ Len(<<x>>) = 1 /\ <<x>>[1] = x  BY <1>p
  <2>2. rest \in Seq(S) /\ Len(rest) = n - 1  BY <1>5 DEF rest
  <2>3. /\ <<x>> \o rest \in Seq(S) /\ Len(<<x>> \o rest) = Len(<<x>>) + Len(rest)
        /\ \A i \in 1 .. Len(<<x>>) + Len(rest) :
             (<<x>> \o rest)[i] = IF i <= Len(<<x>>) THEN <<x>>[i] ELSE rest[i - Len(<<x>>)]
    BY <2>1, <2>2, ConcatProperties
  <2>4. Len(<<x>>) + Len(rest) = n  BY <1>2, <2>1, <2>2
  <2>5. \A i \in 1 .. n : (i <= 1 <=> i = 1)  BY <1>2
  <2> QED  BY <2>1, <2>3, <2>4, <2>5
<1>7. \A i \in 1 .. n : (<<x>> \o rest)[i] = IF i = 1 THEN x ELSE IF i <= p THEN q[i - 1] ELSE q[i]
  <2> TAKE i \in 1 .. n
  <2>1. CASE i = 1  BY <1>6, <2>1
  <2>2. CASE i # 1
    <3>1. i - 1 \in 1 .. n - 1 /\ (i - 1) + 1 = i /\ (i - 1 <= p - 1 <=> i <= p)  BY <1>2, <1>p, <2>2
    <3>2. rest[i - 1] = IF i <= p THEN q[i - 1] ELSE q[i]  BY <1>5, <3>1 DEF rest
    <3> QED  BY <1>6, <2>2, <3>2
  <2> QED  BY <2>1, <2>2
<1>8. <<x>> \o rest = [i \in 1 .. n |-> (<<x>> \o rest)[i]]
  <2> DEFINE l == <<x>> \o rest
  <2>1. l \in Seq(S) /\ Len(l) = n  BY <1>6
  <2> HIDE DEF l
  <2>2. l = [i \in 1 .. n |-> l[i]]  BY <2>1, LenProperties
  <2> QED  BY <2>2 DEF l
<1>9. <<x>> \o rest = Fronted(q, p, n)  BY <1>7, <1>8 DEF Fronted, x
<1> QED  BY <1>1, <1>9 DEF rest, x, n

\* An element put before the others.
LEMMA SeqBehind ==
    ASSUME NEW S, NEW q \in Seq(S), NEW x \in S
    PROVE  <<x>> \o q = Behind(x, q, Len(q))
<1> DEFINE n == Len(q)
           l == <<x>> \o q
<1>1. n \in Nat  BY LenProperties
<1>2. <<x>> \in Seq(S) /\ Len(<<x>>) = 1 /\ <<x>>[1] = x  OBVIOUS
<1>3. /\ l \in Seq(S) /\ Len(l) = Len(<<x>>) + Len(q)
      /\ \A i \in 1 .. Len(<<x>>) + Len(q) : l[i] = IF i <= Len(<<x>>) THEN <<x>>[i] ELSE q[i - Len(<<x>>)]
  BY <1>2, ConcatProperties
<1>4. Len(<<x>>) + Len(q) = n + 1  BY <1>1, <1>2
<1>5. \A i \in 1 .. n + 1 : (i <= 1 <=> i = 1)  BY <1>1
<1> HIDE DEF l, n
<1>6. \A i \in 1 .. n + 1 : l[i] = IF i = 1 THEN x ELSE q[i - 1]  BY <1>2, <1>3, <1>4, <1>5
<1>7. l = [i \in 1 .. n + 1 |-> l[i]]  BY <1>3, <1>4, LenProperties
<1>8. l = Behind(x, q, n)  BY <1>6, <1>7 DEF Behind
<1> QED  BY <1>8 DEF l, n

\* The last element left out.
LEMMA SeqShortened ==
    ASSUME NEW S, NEW q \in Seq(S), Len(q) # 0
    PROVE  Lru!Front(q) = Shortened(q, Len(q))
<1> DEFINE n == Len(q)
           l == SubSeq(q, 1, n - 1)
<1>1. n \in Nat /\ \A i \in 1 .. n : q[i] \in S  BY LenProperties, ElementOfSeq
<1>2. Lru!Front(q) = l  BY Zenon DEF Lru!Front
<1>n. n # 0  OBVIOUS
<1> HIDE DEF n
<1>3. 1 \in Int /\ n - 1 \in Int /\ \A i \in 1 .. n - 1 : q[i] \in S  BY <1>1
<1>4. /\ l \in Seq(S) /\ Len(l) = IF 1 <= n - 1 THEN (n - 1) - 1 + 1 ELSE 0
      /\ \A i \in 1 .. (n - 1) - 1 + 1 : l[i] = q[1 + i - 1]
  BY <1>3, SubSeqProperties
<1> HIDE DEF l
<1>5. Len(l) = n - 1 /\ \A i \in 1 .. n - 1 : l[i] = q[i]  BY <1>1, <1>4, <1>n
<1>6. l = [i \in 1 .. n - 1 |-> l[i]]  BY <1>4, <1>5, LenProperties
<1>7. l = Shortened(q, n)  BY <1>5, <1>6 DEF Shortened
<1> QED  BY <1>2, <1>7 DEF n

\* A listing is a sequence of objects.
LEMMA ListingIsSeq ==
    ASSUME NEW h, NEW s, NEW n \in Nat
    PROVE  /\ Listing(h, s, n) \in Seq({Object(h, s[k]) : k \in 1 .. n}) /\ Len(Listing(h, s, n)) = n
           /\ \A k \in 1 .. n : Listing(h, s, n)[k] = Object(h, s[k])
<1> DEFINE S == {Object(h, s[k]) : k \in 1 .. n}
           q == [k \in 1 .. n |-> Object(h, s[k])]
<1>1. q \in [1 .. n -> S]  OBVIOUS
<1> HIDE DEF S
<1>2. q \in Seq(S) /\ Len(q) = n
  <2> HIDE DEF q
  <2> QED  BY <1>1
<1>3. \A k \in 1 .. n : q[k] = Object(h, s[k])  OBVIOUS
<1> QED  BY <1>2, <1>3 DEF Listing, S

\* The listed objects add up to what the nodes do.
LEMMA UsedIsTotalSize ==
    ASSUME CInv, NEW s, Ranks(s, Cached, Later), \A a \in Cached : Later[a] \in Nat,
           ByAge = Listing(heap, s, Cardinality(Cached))
    PROVE  Lru!Used = total_size
<1> DEFINE n == Cardinality(Cached)
           D == DOMAIN ByAge
           body(g) == [T \in SUBSET D |-> IF T = {} THEN 0 ELSE g[T \ {Lru!Max(T)}] + ByAge[Lru!Max(T)].size]
           sum == CHOOSE g : g = body(g)
           weight == [i \in 1 .. n |-> heap[s[i]].size]
<1>1. Lru!Used = sum[D]
  BY Zenon DEF Lru!Used, Lru!FoldLeft, Lru!MapThenFoldSet
<1>2. /\ \A a \in Addrs : heap[a].size \in Nat
      /\ Cached \in SUBSET Addrs /\ total_size = Total(heap, Cached)
  BY ListFacts
<1>3. IsFiniteSet(Cached)  BY <1>2, LastIsNat, FS_Subset
<1>4. n \in Nat /\ \A i, j \in 1 .. n : s[i] = s[j] => i = j  BY <1>3, RanksDiffer
<1>5. s \in [1 .. n -> Cached] /\ \A a \in Cached : \E k \in 1 .. n : s[k] = a  BY DEF Ranks
<1>6. D = 1 .. n  BY DEF Listing
<1>7. \A i \in 1 .. n : ByAge[i].size = weight[i]  BY DEF Listing, Object
<1> HIDE DEF n
<1>8. weight \in [1 .. n -> Nat] /\ IsFiniteSet(1 .. n)
  <2>1. \A i \in 1 .. n : heap[s[i]].size \in Nat  BY <1>2, <1>5
  <2>2. weight \in [1 .. n -> Nat]  BY <2>1
  <2>3. 1 \in Int /\ n \in Int  BY <1>4
  <2>4. IsFiniteSet(1 .. n)  BY <2>3, FS_Interval
  <2> QED  BY <2>2, <2>4
<1> HIDE DEF weight
<1>9. PICK f : Sums(f, weight, 1 .. n)  BY <1>8, SumsExist
<1>10. \A T \in SUBSET (1 .. n) : T # {} => Lru!Max(T) \in T /\ \A i \in T : i <= Lru!Max(T)
  <2> SUFFICES ASSUME NEW T \in SUBSET (1 .. n), T # {}
               PROVE  Lru!Max(T) \in T /\ \A i \in T : i <= Lru!Max(T)
    OBVIOUS
  <2>1. Lru!Max(T) = Max(T)  BY Zenon DEF Lru!Max, Max
  <2>2. T \in SUBSET (0 .. n)  BY <1>4
  <2>3. Max(T) \in T /\ \A i \in T : i <= Max(T)  BY <1>4, <2>2, MaxIsMember
  <2> QED  BY <2>1, <2>3
<1>t. \A T \in SUBSET (1 .. n) : \A y \in T : f[T] = weight[y] + f[T \ {y}]
  <2> DEFINE I == 1 .. n
  <2>1. weight \in [I -> Nat] /\ IsFiniteSet(I) /\ Sums(f, weight, I)  BY <1>8, <1>9
  <2> HIDE DEF I
  <2>2. ASSUME NEW T \in SUBSET I, NEW y \in T PROVE f[T] = weight[y] + f[T \ {y}]  BY <2>1, SumTakes
  <2> QED  BY <2>2 DEF I
<1>11. sum = body(sum)
  <2> DEFINE r == [T \in SUBSET (1 .. n) |-> f[T]]
  <2>1. ASSUME NEW T \in SUBSET (1 .. n)
        PROVE  f[T] = IF T = {} THEN 0 ELSE r[T \ {Lru!Max(T)}] + ByAge[Lru!Max(T)].size
    <3>1. CASE T = {}  BY <1>9, <3>1 DEF Sums
    <3>2. CASE T # {}
      <4> DEFINE x == Lru!Max(T)
      <4>1. x \in T  BY <1>10, <3>2
      <4> HIDE DEF x
      <4>2. f[T] = weight[x] + f[T \ {x}]  BY <1>t, <4>1
      <4>3. T \ {x} \in SUBSET (1 .. n) /\ x \in 1 .. n  BY <4>1
      <4>4. weight[x] \in Nat /\ f[T \ {x}] \in Nat  BY <1>8, <1>9, <4>3 DEF Sums
      <4>5. f[T] = r[T \ {x}] + ByAge[x].size  BY <1>7, <4>2, <4>3, <4>4
      <4> QED  BY <3>2, <4>5 DEF x
    <3> QED  BY <3>1, <3>2
  <2>2. r = body(r)
    <3> HIDE DEF D
    <3>1. r = [T \in SUBSET (1 .. n) |-> IF T = {} THEN 0 ELSE r[T \ {Lru!Max(T)}] + ByAge[Lru!Max(T)].size]
      BY <2>1, Zenon
    <3> QED  BY <1>6, <3>1, Zenon
  <2> HIDE DEF r
  <2> QED  BY <2>2, Zenon
<1> HIDE DEF sum
<1> DEFINE ok(k) == sum[1 .. k] = Total(heap, FirstOf(s, k))
           K == {k \in 0 .. n : ok(k)}
<1>12. 0 \in K
  <2>1. 1 .. 0 = {} /\ FirstOf(s, 0) = {}  BY DEF FirstOf
  <2>2. Total(heap, {}) = 0  BY <1>2, TotalEmpty
  <2>3. {} \in SUBSET D  OBVIOUS
  <2>4. sum[{}] = 0  BY <1>11, <2>3
  <2> QED  BY <1>4, <2>1, <2>2, <2>4
<1>13. ASSUME NEW k \in 0 .. n - 1, k \in K PROVE k + 1 \in K
  <2>1. k + 1 \in 1 .. n /\ k \in Nat /\ 1 .. k + 1 \in SUBSET (1 .. n) /\ 1 .. k + 1 # {}  BY <1>4
  <2>2. Lru!Max(1 .. k + 1) = k + 1
    <3>1. /\ Lru!Max(1 .. k + 1) \in 1 .. k + 1
          /\ \A i \in 1 .. k + 1 : i <= Lru!Max(1 .. k + 1)
      BY <1>10, <2>1
    <3>2. k + 1 \in 1 .. k + 1  BY <2>1
    <3> DEFINE m == Lru!Max(1 .. k + 1)
    <3> HIDE DEF m
    <3>3. m \in 1 .. k + 1 /\ k + 1 <= m  BY <3>1, <3>2 DEF m
    <3>4. m = k + 1  BY <2>1, <3>3
    <3> QED  BY <3>4 DEF m
  <2>3. (1 .. k + 1) \ {k + 1} = 1 .. k  BY <2>1
  <2>4. sum[1 .. k + 1] = sum[1 .. k] + weight[k + 1]
    <3>1. 1 .. k + 1 \in SUBSET D  BY <1>6, <2>1
    <3>2. sum[1 .. k + 1] = sum[(1 .. k + 1) \ {Lru!Max(1 .. k + 1)}] + ByAge[Lru!Max(1 .. k + 1)].size
      BY <1>11, <2>1, <3>1
    <3> QED  BY <1>7, <2>1, <2>2, <2>3, <3>2
  <2> DEFINE R == FirstOf(s, k + 1)
             a == s[k + 1]
  <2>5. R \in SUBSET Addrs /\ a \in R
    <3>1. \A i \in 1 .. k + 1 : i \in 1 .. n  BY <1>4
    <3>2. k + 1 \in 1 .. k + 1  BY <2>1
    <3> QED  BY <1>2, <1>5, <3>1, <3>2 DEF FirstOf
  <2>6. R \ {a} = FirstOf(s, k)
    <3>1. \A i \in 1 .. k : i \in 1 .. k + 1 /\ i \in 1 .. n /\ i # k + 1  BY <1>4
    <3>2. \A i \in 1 .. k : s[i] # a  BY <1>4, <2>1, <3>1
    <3>3. \A i \in 1 .. k + 1 : i \in 1 .. k \/ i = k + 1  BY <2>1
    <3>4. FirstOf(s, k) \subseteq R \ {a}  BY <3>1, <3>2 DEF FirstOf
    <3>5. R \ {a} \subseteq FirstOf(s, k)  BY <3>3 DEF FirstOf
    <3> QED  BY <3>4, <3>5
  <2>7. weight[k + 1] = heap[a].size  BY <2>1 DEF weight
  <2> HIDE DEF R, a
  <2>8. Total(heap, R) = heap[a].size + Total(heap, R \ {a})
    BY <1>2, <2>5, TotalTakes
  <2>9. Total(heap, R \ {a}) \in Nat /\ heap[a].size \in Nat  BY <1>2, <2>5, TotalTakes
  <2>10. sum[1 .. k] = Total(heap, R \ {a})  BY <1>13, <2>6
  <2>11. sum[1 .. k + 1] = Total(heap, R)  BY <2>4, <2>7, <2>8, <2>9, <2>10
  <2> QED  BY <2>1, <2>11 DEF R
<1>14. K = 0 .. n
  <2>1. K \in SUBSET (0 .. n)  OBVIOUS
  <2> HIDE DEF K
  <2> QED  BY <1>4, <1>12, <1>13, <2>1, BoundedInd
<1>15. n \in K  BY <1>4, <1>14
<1>16. FirstOf(s, n) = Cached  BY <1>5 DEF FirstOf
<1> QED  BY <1>1, <1>2, <1>6, <1>15, <1>16

---------------------------------------------------------------------------
\* One worker, and ages that do not come round.
Lone == Alone /\ Workers # {} /\ AgeMod > 2 * MaxRequests + 1

FindingAt == {"readLock", "readCount", "readWait", "readUnlock", "find", "leaveCount", "leaveUnlock"}
GettingAt == {"getHead", "getLock", "get"}

\* What w has found is in the list.
Finds(w) == (pc[w] \in FindingAt /\ found[w]) \/ pc[w] \in GettingAt
            => \E a \in Cached : heap[a].tag = tag[w]

\* What find_hit has found is there for get_hit, whose walk begins at the head.
FInv == \A w \in Workers : Finds(w) /\ (pc[w] = "getLock" => ptr[w] = head)

\* Steps that keep the list: what concerns the worker is all there is to show.
LEMMA FindsKeep ==
    ASSUME Alone, CInv, SameTags, NEW w \in Workers,
           (pc'[w] \in FindingAt /\ found'[w]) \/ pc'[w] \in GettingAt => \E a \in Cached : heap[a].tag = tag'[w],
           pc'[w] = "getLock" => ptr'[w] = head'
    PROVE  FInv'
<1>1. Cached \in SUBSET Addrs  BY ListFacts
<1>2. ASSUME NEW u \in Workers PROVE Finds(u)' /\ (pc'[u] = "getLock" => ptr'[u] = head')
  <2>1. u = w  BY DEF Alone
  <2>2. Finds(w)'
    <3> SUFFICES ASSUME (pc'[w] \in FindingAt /\ found'[w]) \/ pc'[w] \in GettingAt
                 PROVE  \E a \in Cached' : heap'[a].tag = tag'[w]
      BY DEF Finds
    <3>1. PICK a \in Cached : heap[a].tag = tag'[w]  OBVIOUS
    <3>2. a \in Cached' /\ heap'[a].tag = heap[a].tag  BY <1>1 DEF SameTags
    <3> QED  BY <3>1, <3>2
  <2> QED  BY <2>1, <2>2
<1> QED  BY <1>2 DEF FInv

\* Every step of the one worker keeps what it has found.
LEMMA StepFInv == Alone /\ CInv /\ OInv /\ FInv /\ [Next]_vars => FInv'
<1> SUFFICES ASSUME Alone, CInv, OInv, FInv, [Next]_vars PROVE FInv'  OBVIOUS
<1>t. /\ pc \in [Workers -> Points] /\ found \in [Workers -> BOOLEAN] /\ ptr \in [Workers -> Pointers]
      /\ tag \in [Workers -> Tags \cup {Nil}]
  BY DEF CInv, Typed, IInv, LocksTyped
<1>f. \A w \in Workers : Finds(w) /\ (pc[w] = "getLock" => ptr[w] = head)  BY DEF FInv
<1>0. ASSUME NEW w \in Workers, UNCHANGED <<list, tag, found>>,
             pc'[w] \in FindingAt /\ found[w] => pc[w] \in FindingAt,
             pc'[w] \in GettingAt => pc[w] \in GettingAt \/ (pc[w] \in FindingAt /\ found[w]),
             pc'[w] = "getLock" => ptr'[w] = head
      PROVE  FInv'
  <2>1. SameTags /\ head' = head  BY <1>0, ListSameTags DEF list
  <2>2. (pc'[w] \in FindingAt /\ found'[w]) \/ pc'[w] \in GettingAt => \E a \in Cached : heap[a].tag = tag'[w]
    BY <1>0, <1>f DEF Finds
  <2> QED  BY <1>0, <2>1, <2>2, FindsKeep
<1>1. ASSUME NEW w \in Workers, NEW t \in Tags, Request(w, t) PROVE FInv'
  <2>1. UNCHANGED list /\ pc'[w] = "readLock" /\ ~found'[w]  BY <1>t, <1>1 DEF Request, Goto
  <2>2. SameTags  BY <2>1, ListSameTags
  <2> QED  BY <2>1, <2>2, FindsKeep DEF GettingAt
<1>2. ASSUME NEW w \in Workers, ReadLock(w) \/ ReadCount(w) \/ ReadWait(w) \/ ReadUnlock(w) \/ LeaveLock(w) \/ LeaveCount(w)
      PROVE  FInv'
  <2>1. UNCHANGED <<list, tag, found>>
    BY <1>2 DEF ReadLock, ReadCount, ReadWait, ReadUnlock, LeaveLock, LeaveCount
  <2>2. pc[w] \in FindingAt /\ pc'[w] \in FindingAt
    BY <1>t, <1>2 DEF ReadLock, ReadCount, ReadWait, ReadUnlock, LeaveLock, LeaveCount, Goto, FindingAt
  <2> QED  BY <1>0, <2>1, <2>2 DEF FindingAt, GettingAt
<1>3. ASSUME NEW w \in Workers, FindMatch(w) PROVE FInv'
  <2>1. /\ UNCHANGED <<list, pc, tag>> /\ pc[w] = "find" /\ ptr[w] \in Addrs
        /\ ptr[w] # Nil /\ Matches(w)
    BY <1>t, <1>3, NilAssumption DEF FindMatch, Visits, Pointers
  <2>2. ptr[w] \in Cached /\ heap[ptr[w]].tag = tag[w]  BY <2>1, LoneWalks DEF Matches, OnFreed
  <2>3. SameTags  BY <2>1, ListSameTags
  <2> QED  BY <2>1, <2>2, <2>3, FindsKeep DEF GettingAt
<1>4. ASSUME NEW w \in Workers, FindNext(w) PROVE FInv'
  <2>1. UNCHANGED <<list, pc, tag, found>> /\ pc[w] = "find"  BY <1>4 DEF FindNext, Visits
  <2> QED  BY <1>0, <2>1 DEF GettingAt
<1>5. ASSUME NEW w \in Workers, LeaveUnlock(w) PROVE FInv'
  <2>1. /\ UNCHANGED <<list, tag, found>> /\ pc[w] = "leaveUnlock"
        /\ pc'[w] = IF found[w] THEN "getHead" ELSE "fetch"
    BY <1>t, <1>5 DEF LeaveUnlock, Goto
  <2> QED  BY <1>0, <2>1 DEF FindingAt, GettingAt
<1>6. ASSUME NEW w \in Workers, GetHead(w) PROVE FInv'
  <2>1. /\ UNCHANGED <<list, tag>> /\ pc[w] = "getHead" /\ pc'[w] = "getLock" /\ ptr'[w] = head
    BY <1>t, <1>6 DEF GetHead, Goto
  <2>2. SameTags /\ head' = head  BY <2>1, ListSameTags DEF list
  <2>3. \E a \in Cached : heap[a].tag = tag'[w]  BY <1>f, <2>1 DEF Finds, GettingAt
  <2> QED  BY <2>1, <2>2, <2>3, FindsKeep
<1>7. ASSUME NEW w \in Workers, GetLock(w) PROVE FInv'
  <2>1. /\ UNCHANGED <<list, tag, found>> /\ pc[w] = "getLock" /\ pc'[w] = "get"  BY <1>t, <1>7 DEF GetLock, Goto
  <2> QED  BY <1>0, <2>1 DEF FindingAt, GettingAt
<1>8. ASSUME NEW w \in Workers, GetMatch(w) \/ GetNext(w) PROVE FInv'
  <2>1. SameTags  BY <1>8, GetKeeps DEF SameTags
  <2>2. UNCHANGED <<pc, tag>> /\ pc[w] = "get"  BY <1>8 DEF GetMatch, GetNext, Visits
  <2>3. \E a \in Cached : heap[a].tag = tag'[w]  BY <1>f, <2>2 DEF Finds, GettingAt
  <2> QED  BY <2>1, <2>2, <2>3, FindsKeep
<1>9. ASSUME NEW w \in Workers,
             GetUnlock(w) \/ (\E n \in Sizes : Fetch(w, n)) \/ WriteLock(w) \/ WriteUnlock(w)
      PROVE  FInv'
  <2>1. UNCHANGED <<list, tag, found>>  BY <1>9 DEF GetUnlock, Fetch, WriteLock, WriteUnlock
  <2>2. pc'[w] \in {"idle", "fetch", "writeLock", "write"}
    BY <1>t, <1>9 DEF GetUnlock, Fetch, WriteLock, WriteUnlock, Goto
  <2> QED  BY <1>0, <2>1, <2>2 DEF FindingAt, GettingAt
<1>10. ASSUME NEW w \in Workers, RemoveOldest(w) \/ AddToCacheHead(w) PROVE FInv'
  <2>1. pc'[w] \in {"write", "writeUnlock"}  BY <1>t, <1>10 DEF RemoveOldest, AddToCacheHead, Goto
  <2>2. ASSUME NEW u \in Workers PROVE Finds(u)' /\ (pc'[u] = "getLock" => ptr'[u] = head')
    <3>1. u = w  BY DEF Alone
    <3> QED  BY <2>1, <3>1 DEF Finds, FindingAt, GettingAt
  <2> QED  BY <2>2 DEF FInv
<1>11. CASE (\E w \in Workers : Ruin(w)) \/ UNCHANGED vars
  <2>1. UNCHANGED <<list, pc, tag, ptr, found>>  BY <1>11 DEF Ruin, vars
  <2>2. CASE Workers = {}  BY <2>2 DEF FInv
  <2>3. CASE Workers # {}
    <3>1. PICK w \in Workers : TRUE  BY <2>3
    <3> QED  BY <1>0, <1>f, <2>1, <3>1
  <2> QED  BY <2>2, <2>3
<1> QED
  BY <1>1, <1>2, <1>3, <1>4, <1>5, <1>6, <1>7, <1>8, <1>9, <1>10, <1>11
  DEF Next, Step, FindHit, GetHit, WriteCache, Ended

---------------------------------------------------------------------------
\* All that holds of one worker and its list but the order.
Good == CInv /\ AInv /\ OInv /\ HInv /\ FInv

\* What it says of the order.
Sorted == /\ LaterAges
          /\ IsFiniteSet(Cached) /\ Cached \in SUBSET Addrs
          /\ \A a \in Cached : AgeAfterWalk(a) \in Nat \ {0} /\ Later[a] = AgeAfterWalk(a)
          /\ \A s : Order(s) => ByAge = Listing(heap, s, Cardinality(Cached))

LEMMA StepGood == Lone /\ Good /\ [Next]_vars => Good'
BY StepCInv, StepAInv, StepOInv, StepHInv, StepFInv DEF Lone, Good

LEMMA GoodIsSorted == Lone /\ Good => Sorted
<1> SUFFICES ASSUME Lone, Good PROVE Sorted  OBVIOUS
<1>1. LaterAges  BY WalkAgesUnfold DEF Lone, Good
<1>2. /\ IsFiniteSet(Cached) /\ Cached \in SUBSET Addrs
      /\ \A a \in Cached : AgeAfterWalk(a) \in Nat \ {0} /\ Later[a] = AgeAfterWalk(a)
  BY LaterIsNat DEF Lone, Good
<1>3. ASSUME NEW s, Order(s) PROVE ByAge = Listing(heap, s, Cardinality(Cached))
  BY <1>3, ByAgeIsListing DEF Lone, Good
<1> QED  BY <1>1, <1>2, <1>3 DEF Sorted

\* The same of the next state.
LEMMA GoodIsSortedPrime == Lone /\ Good' => Sorted'
<1>1. Lone => Lone'  BY DEF Lone, Alone
<1> QED  BY <1>1, GoodIsSorted, PTL

\* The nodes keep their places and what is in them, and their later ages.
LEMMA OrderStays ==
    ASSUME Lone, Good, Good', NEW s, Order(s), Cached' = Cached,
           \A a \in Cached : Object(heap', a) = Object(heap, a),
           \A a \in Cached : AgeAfterWalk(a)' = AgeAfterWalk(a)
    PROVE  Order(s)' /\ ByAge' = ByAge
<1>1. Sorted  BY GoodIsSorted
<1>2. Sorted'  BY GoodIsSortedPrime
<1>3. \A a \in Cached : Later'[a] = Later[a]  BY <1>1, <1>2 DEF Sorted
<1>4. s \in [1 .. Cardinality(Cached) -> Cached]  BY DEF Order, Ranks
<1>5. Ranks(s, Cached, Later')
  <2> DEFINE f == Later'
  <2>1. \A a \in Cached : f[a] = Later[a]  BY <1>3
  <2>2. Ranks(s, Cached, Later)  BY DEF Order
  <2> HIDE DEF f
  <2>3. Ranks(s, Cached, f)  BY <2>1, <2>2, RanksSame
  <2> QED  BY <2>3 DEF f
<1>6. Order(s)'  BY <1>5 DEF Order
<1>7. ByAge = Listing(heap, s, Cardinality(Cached))  BY <1>1 DEF Sorted
<1>8. ByAge' = Listing(heap', s, Cardinality(Cached))
  <2>1. ByAge' = Listing(heap', s, Cardinality(Cached'))  BY <1>2, <1>6 DEF Sorted
  <2> QED  BY <2>1
<1>9. Listing(heap', s, Cardinality(Cached)) = Listing(heap, s, Cardinality(Cached))
  BY <1>4 DEF Listing
<1> QED  BY <1>6, <1>7, <1>8, <1>9

\* A list that nobody touches and nobody walks.
LEMMA StillOrder ==
    ASSUME Lone, Good, Good', NEW s, Order(s), UNCHANGED list,
           NEW w \in Workers, pc[w] # "get", pc'[w] # "get"
    PROVE  Order(s)' /\ ByAge' = ByAge
<1>1. LaterAges  BY GoodIsSorted DEF Sorted
<1>2. LaterAges'  BY GoodIsSortedPrime DEF Sorted
<1>3. heap' = heap /\ Cached' = Cached  BY ListUnchanged DEF Good, list
<1>4. ASSUME NEW a \in Cached PROVE AgeAfterWalk(a)' = AgeAfterWalk(a)
  <2>1. AgeAfterWalk(a) = heap[a].age  BY <1>1 DEF LaterAges, LaterAge
  <2>2. AgeAfterWalk(a)' = heap'[a].age  BY <1>2, <1>3 DEF LaterAges, LaterAge
  <2> QED  BY <1>3, <2>1, <2>2
<1> QED  BY <1>3, <1>4, OrderStays

\* The walk gives each node the age it was to have.
LEMMA WalkOrder ==
    ASSUME Lone, Good, Good', [Next]_vars, NEW s, Order(s), NEW w \in Workers, GetMatch(w) \/ GetNext(w)
    PROVE  Order(s)' /\ ByAge' = ByAge /\ UNCHANGED <<pc, tag>> /\ pc[w] = "get"
           /\ \A a \in Addrs : heap'[a].tag = heap[a].tag
<1> DEFINE p == ptr[w]
           c == Nodes(head)
<1>1. LaterAges /\ Cached \in SUBSET Addrs  BY GoodIsSorted DEF Sorted
<1>2. LaterAges'  BY GoodIsSortedPrime DEF Sorted
<1>3. CInv /\ OInv  BY DEF Good
<1>4. /\ Cached' = Cached /\ Nodes(head)' = c /\ SameLinks(heap, heap')
      /\ \A a \in Addrs : heap'[a].tag = heap[a].tag
      /\ \A a \in Addrs : heap'[a].age = IF a # p THEN heap[a].age
                                         ELSE IF GetMatch(w) THEN 1 ELSE Older(heap[a].age)
  BY <1>3, GetKeeps
<1>5. UNCHANGED <<pc, tag>> /\ pc[w] = "get" /\ p # Nil /\ ptr'[w] = heap[p].next
  <2>1. UNCHANGED <<pc, tag>> /\ pc[w] = "get" /\ p # Nil /\ Advance(w)  BY DEF GetMatch, GetNext, Visits
  <2>2. heap[p].live  BY <1>3, <2>1, LoneWalks
  <2> QED  BY <1>3, <2>1, <2>2, Advances
<1>6. p \in Cached  BY <1>3, <1>5, LoneWalks
<1>7. heap[p].live  BY <1>3, <1>6, ListFacts
<1>8. GetMatch(w) <=> heap[p].tag = tag[w]  BY <1>7 DEF GetMatch, GetNext, Matches, Differs, OnFreed
<1> HIDE DEF p, c
<1>9. ASSUME NEW a \in Cached PROVE AgeAfterWalk(a)' = AgeAfterWalk(a)
  <2>1. AgeAfterWalk(a) = LaterAge("get", Beyond(c, p, a), heap[a].tag = tag[w], heap[a].age)
    BY <1>1, <1>5 DEF LaterAges, c, p
  <2>2. AgeAfterWalk(a)' = LaterAge("get", Beyond(c, heap[p].next, a), heap'[a].tag = tag[w], heap'[a].age)
    <3>1. AgeAfterWalk(a)' = LaterAge(pc'[w], Beyond(Nodes(head)', ptr'[w], a), heap'[a].tag = tag'[w], heap'[a].age)
      BY <1>2, <1>4 DEF LaterAges
    <3> QED  BY <1>4, <1>5, <3>1
  <2>3. heap'[a].tag = heap[a].tag  BY <1>1, <1>4
  <2>4. CASE a = p
    <3>1. Beyond(c, p, a)
      <4>1. \E k \in 0 .. Last : c[k] = p  BY <1>3, <1>6, ListFacts DEF On, c
      <4> QED  BY <2>4, <4>1 DEF Beyond
    <3>2. ~Beyond(c, heap[p].next, a)  BY <1>3, <1>6, <2>4, BeyondNext DEF c
    <3>3. heap'[a].age = IF heap[a].tag = tag[w] THEN 1 ELSE Older(heap[a].age)  BY <1>1, <1>4, <1>8, <2>4
    <3> QED  BY <2>1, <2>2, <3>1, <3>2, <3>3 DEF LaterAge, FirstAge
  <2>5. CASE a # p
    <3>1. heap'[a].age = heap[a].age  BY <1>1, <1>4, <2>5
    <3>2. Beyond(c, p, a) => Beyond(c, heap[p].next, a)  BY <1>3, <1>6, <2>5, NextIsBeyond DEF c
    <3>3. Beyond(c, heap[p].next, a) => Beyond(c, p, a)  BY <1>3, <1>6, BeyondNext DEF c
    <3> QED  BY <2>1, <2>2, <2>3, <3>1, <3>2, <3>3 DEF LaterAge
  <2> QED  BY <2>4, <2>5
<1>10. \A a \in Cached : Object(heap', a) = Object(heap, a)  BY <1>1, <1>4 DEF Object, SameLinks
<1>11. Order(s)' /\ ByAge' = ByAge  BY <1>4, <1>9, <1>10, OrderStays
<1> QED  BY <1>4, <1>5, <1>11

\* The end of the walk: every age is what it was to be.
LEMMA UnlockOrder ==
    ASSUME Lone, Good, Good', NEW s, Order(s), NEW w \in Workers, GetUnlock(w)
    PROVE  Order(s)' /\ ByAge' = ByAge
<1>1. LaterAges  BY GoodIsSorted DEF Sorted
<1>2. LaterAges'  BY GoodIsSortedPrime DEF Sorted
<1>3. CInv /\ UNCHANGED list /\ ptr[w] = Nil /\ pc'[w] # "get"
  BY DEF Good, GetUnlock, Goto, CInv, IInv, LocksTyped
<1>4. heap' = heap /\ Cached' = Cached  BY <1>3, ListUnchanged DEF list
<1>5. ASSUME NEW a \in Cached PROVE AgeAfterWalk(a)' = AgeAfterWalk(a)
  <2>1. ~Beyond(Nodes(head), ptr[w], a)  BY <1>3, NothingBeyondEnd
  <2>2. AgeAfterWalk(a) = heap[a].age  BY <1>1, <2>1 DEF LaterAges, LaterAge
  <2>3. AgeAfterWalk(a)' = heap'[a].age  BY <1>2, <1>3, <1>4 DEF LaterAges, LaterAge
  <2> QED  BY <1>4, <2>2, <2>3
<1> QED  BY <1>4, <1>5, OrderStays

\* An age that one more request's walk or store adds to is still a number that
\* grows by one.
LEMMA AgesGrow ==
    ASSUME Lone, Good, NEW w \in Workers, pc[w] \in AddsAhead, NEW a \in Cached
    PROVE  heap[a].age \in Nat \ {0} /\ Older(heap[a].age) = heap[a].age + 1
<1>1. a \in Addrs /\ heap[a].live  BY ListFacts DEF Good
<1>2. /\ heap[a].age \in Nat /\ heap[a].age >= 1 /\ Due(a) \in {0, 1} /\ Budget \in Nat
      /\ heap[a].age + Due(a) + Budget <= 1 + 2 * requests /\ requests \in Nat /\ requests <= MaxRequests
  BY <1>1, AgeFacts DEF Good
<1>3. w \in At(AddsAhead)  BY DEF At
<1>4. Cardinality(At(AddsAhead)) # 0 /\ Cardinality(At(AddsAhead)) \in Nat  BY <1>3, CountIsNat
<1>5. Cardinality(At(WalksAhead)) \in Nat  BY CountIsNat
<1>6. Budget >= 1  BY <1>4, <1>5 DEF Budget
<1>7. heap[a].age + 1 <= 1 + 2 * requests  BY <1>2, <1>6
<1>8. 1 + 2 * requests <= 2 * MaxRequests + 1 /\ MaxRequests \in Nat  BY <1>2, FiniteAssumption
<1>9. heap[a].age + 1 < AgeMod  BY <1>2, <1>7, <1>8, AgeAssumption DEF Lone
<1> QED  BY <1>2, <1>9, OlderIsAge

\* The node with the tag is the first: the object that a hit has brought to
\* the front.
FrontRead(s) == \A w \in Workers : pc[w] = "get" => Cached # {} /\ heap[s[1]].tag = tag[w]

\* The walk of get_hit begins: from here on the object read counts as the
\* youngest.
LEMMA HitOrder ==
    ASSUME Lone, Good, Good', NEW s, Order(s), NEW w \in Workers, GetLock(w)
    PROVE  /\ \E t : Order(t)' /\ FrontRead(t)'
           /\ \E p \in 1 .. Len(ByAge) : /\ ByAge[p].tag = tag[w]
                                        /\ ByAge' = <<ByAge[p]>> \o Lru!RemoveAt(ByAge, p)
<1> DEFINE n == Cardinality(Cached)
           f == Later
           g == Later'
<1>1. Sorted  BY GoodIsSorted
<1>2. Sorted'  BY GoodIsSortedPrime
<1>3. CInv /\ OInv /\ FInv  BY DEF Good
<1>4. /\ UNCHANGED list /\ UNCHANGED <<tag, ptr>> /\ pc[w] = "getLock" /\ pc'[w] = "get"
  BY <1>3 DEF GetLock, Goto, CInv, IInv, LocksTyped
<1>5. heap' = heap /\ Cached' = Cached /\ Nodes(head)' = Nodes(head)  BY <1>3, <1>4, ListUnchanged DEF list
<1>6. ptr[w] = head /\ \E a \in Cached : heap[a].tag = tag[w]  BY <1>3, <1>4 DEF FInv, Finds, GettingAt
<1>7. PICK a \in Cached : heap[a].tag = tag[w]  BY <1>6
<1>8. \A b \in Cached : heap[b].tag = tag[w] => b = a  BY <1>3, <1>7 DEF OInv, NoDuplicateTags
<1>9. IsFiniteSet(Cached) /\ \A b \in Cached : f[b] \in Nat \ {0}  BY <1>1 DEF Sorted
<1>10. Refreshed(f, g, a, Cached)
  <2>1. \A b \in Cached : f[b] = heap[b].age
    BY <1>1, <1>4 DEF Sorted, LaterAges, LaterAge
  <2>2. ASSUME NEW b \in Cached PROVE g[b] = IF b = a THEN 1 ELSE Older(heap[b].age)
    <3>1. g[b] = AgeAfterWalk(b)'  BY <1>2, <1>5 DEF Sorted
    <3>2. AgeAfterWalk(b)' = LaterAge(pc'[w], Beyond(Nodes(head)', ptr'[w], b), heap'[b].tag = tag'[w], heap'[b].age)
      BY <1>2, <1>5 DEF Sorted, LaterAges
    <3>3. Beyond(Nodes(head)', ptr'[w], b)  BY <1>3, <1>4, <1>5, <1>6, HeadIsFirst
    <3>4. heap'[b].tag = tag'[w] <=> b = a  BY <1>4, <1>5, <1>7, <1>8
    <3> HIDE DEF g
    <3> QED  BY <1>4, <1>5, <3>1, <3>2, <3>3, <3>4 DEF LaterAge, FirstAge
  <2>3. \A b \in Cached : Older(heap[b].age) = heap[b].age + 1  BY <1>4, AgesGrow DEF AddsAhead
  <2> HIDE DEF f, g
  <2> QED  BY <1>7, <2>1, <2>2, <2>3 DEF Refreshed
<1>11. Ranks(s, Cached, f)  BY DEF Order
<1>12. PICK p \in 1 .. n : s[p] = a  BY <1>7, <1>11 DEF Ranks
<1>13. Ranks(Fronted(s, p, n), Cached, g)
  <2> HIDE DEF f, g
  <2> QED  BY <1>9, <1>10, <1>11, <1>12, RanksFronted
<1>d. PICK t : t = Fronted(s, p, n)  OBVIOUS
<1>14. Order(t)'
  <2>1. Ranks(t, Cached, Later')  BY <1>13, <1>d
  <2> QED  BY <1>5, <2>1 DEF Order
<1>15. n \in Nat  BY <1>9, FS_CardinalityType
<1>16. t[1] = a /\ \A k \in 1 .. n : t[k] = IF k = 1 THEN s[p] ELSE IF k <= p THEN s[k - 1] ELSE s[k]
  <2> HIDE DEF n
  <2>1. 1 \in 1 .. n  BY <1>12, <1>15
  <2> QED  BY <1>12, <1>d, <2>1 DEF Fronted
<1>17. FrontRead(t)'
  <2>1. \A u \in Workers : u = w  BY DEF Lone, Alone
  <2> QED  BY <1>4, <1>5, <1>7, <1>16, <2>1 DEF FrontRead
<1> DEFINE q == Listing(heap, s, n)
           S == {Object(heap, s[k]) : k \in 1 .. n}
<1>18. ByAge = q  BY <1>1 DEF Sorted
<1>19. ByAge' = Listing(heap, t, n)
  <2>1. ByAge' = Listing(heap', t, Cardinality(Cached'))
    BY <1>2, <1>14 DEF Sorted
  <2> QED  BY <1>5, <2>1
<1>20. q \in Seq(S) /\ Len(q) = n /\ \A k \in 1 .. n : q[k] = Object(heap, s[k])  BY <1>15, ListingIsSeq
<1> HIDE DEF n, q, S
<1>21. Listing(heap, t, n) = Fronted(q, p, n)
  <2>1. ASSUME NEW k \in 1 .. n
        PROVE  Object(heap, t[k]) = IF k = 1 THEN q[p] ELSE IF k <= p THEN q[k - 1] ELSE q[k]
    <3>1. CASE k = 1  BY <1>12, <1>16, <1>20, <3>1
    <3>2. CASE k # 1 /\ k <= p
      <4>1. k - 1 \in 1 .. n  BY <1>15, <3>2
      <4> QED  BY <1>16, <1>20, <3>2, <4>1
    <3>3. CASE k # 1 /\ ~(k <= p)  BY <1>16, <1>20, <3>3
    <3> QED  BY <3>1, <3>2, <3>3
  <2> QED  BY <2>1 DEF Listing, Fronted
<1>22. <<q[p]>> \o Lru!RemoveAt(q, p) = Fronted(q, p, n)
  <2>1. p \in 1 .. Len(q)  BY <1>12, <1>20
  <2> QED  BY <1>20, <2>1, SeqFronted
<1>23. q[p].tag = tag[w]  BY <1>7, <1>12, <1>20 DEF Object
<1>24. ByAge' = <<ByAge[p]>> \o Lru!RemoveAt(ByAge, p) /\ ByAge[p].tag = tag[w] /\ p \in 1 .. Len(ByAge)
  BY <1>12, <1>18, <1>19, <1>20, <1>21, <1>22, <1>23
<1> QED  BY <1>14, <1>17, <1>24

\* Nobody walks.
LEMMA NobodyReads == ASSUME Lone, NEW w \in Workers, pc'[w] # "get", NEW t PROVE FrontRead(t)'
<1>1. \A u \in Workers : u = w  BY DEF Lone, Alone
<1> QED  BY <1>1 DEF FrontRead

\* The node that remove_oldest takes out is the last.
LEMMA EvictOrder ==
    ASSUME Lone, Good, Good', [Next]_vars, NEW s, Order(s), NEW w \in Workers, RemoveOldest(w)
    PROVE  /\ \E t : Order(t)' /\ FrontRead(t)'
           /\ ByAge' = Lru!Front(ByAge)
<1> DEFINE n == Cardinality(Cached)
           f == Later
           g == Later'
           c == Nodes(head)
<1>1. Sorted  BY GoodIsSorted
<1>2. Sorted'  BY GoodIsSortedPrime
<1>3. CInv  BY DEF Good
<1>4. pc[w] = "write" /\ UNCHANGED pc  BY DEF RemoveOldest
<1>5. PICK k \in 0 .. Last : Oldest(k) /\ Removed(k)
  <2>1. PICK k \in 0 .. Last : /\ Oldest(k)
                               /\ Unlink(k)
                               /\ total_size' = total_size - heap[Nodes(head)[k]].size
                               /\ cache_cnt' = cache_cnt - 1
    BY DEF RemoveOldest, Last
  <2>2. Nodes(head)[k] # Nil  BY <2>1, Zenon DEF Oldest
  <2> QED  BY <2>1, <2>2 DEF Removed
<1> DEFINE old == c[k]
<1>6. /\ old # Nil
      /\ \A j \in 0 .. Last : c[j] # Nil => \/ heap[c[j]].age < heap[old].age
                                            \/ heap[c[j]].age = heap[old].age /\ j >= k
  BY <1>5, Zenon DEF Oldest, Last
<1>7. Cached' = Cached \ {old}  BY <1>3, <1>5, RemovedKeeps
<1>8. old \in Cached /\ \A a \in Addrs : Object(heap', a) = Object(heap, a) /\ heap'[a].age = heap[a].age
  <2>1. LET o == Nodes(head)[k]
        IN  /\ o \in Cached
            /\ \A a \in Addrs : heap'[a].size = heap[a].size /\ heap'[a].tag = heap[a].tag /\ heap'[a].age = heap[a].age
    BY <1>3, <1>5, UnlinkFacts
  <2> QED  BY <2>1 DEF Object
<1>9. IsFiniteSet(Cached) /\ Cached \in SUBSET Addrs /\ \A a \in Cached : f[a] \in Nat \ {0}  BY <1>1 DEF Sorted
<1>10. \A a \in Cached : f[a] = heap[a].age  BY <1>1, <1>4 DEF Sorted, LaterAges, LaterAge
<1>11. \A a \in Cached : f[a] <= f[old]
  <2> TAKE a \in Cached
  <2>1. PICK j \in 0 .. Last : c[j] = a /\ a # Nil  BY <1>3, ListFacts DEF On
  <2>2. heap[a].age <= heap[old].age
    <3>1. heap[a].age \in Nat /\ heap[old].age \in Nat
      <4> HIDE DEF f, old
      <4>1. f[a] \in Nat /\ f[old] \in Nat  BY <1>8, <1>9
      <4> QED  BY <1>8, <1>10, <4>1
    <3>2. heap[a].age < heap[old].age \/ heap[a].age = heap[old].age  BY <1>6, <2>1
    <3> HIDE DEF old
    <3> QED  BY <3>1, <3>2
  <2> HIDE DEF f, old
  <2> QED  BY <1>8, <1>10, <2>2
<1>12. Ranks(s, Cached, f)  BY DEF Order
<1>13. n \in Nat \ {0} /\ old = s[n]
  <2> HIDE DEF f, old
  <2> QED  BY <1>8, <1>9, <1>11, <1>12, LastIsGreatest
<1>d. PICK t : t = Shortened(s, n)  OBVIOUS
<1>14. Ranks(t, Cached \ {old}, f) /\ Cardinality(Cached \ {old}) = n - 1
  <2> DEFINE R == Cached \ {s[n]}
  <2>1. Ranks(Shortened(s, n), R, f) /\ Cardinality(R) = n - 1
    <3> HIDE DEF f
    <3> QED  BY <1>9, <1>12, <1>13, RanksShortened
  <2> HIDE DEF f, old, n, R
  <2>2. R = Cached \ {old}  BY <1>13 DEF R
  <2> QED  BY <1>d, <2>1, <2>2
<1>15. \A a \in Cached \ {old} : g[a] = f[a]
  <2> TAKE a \in Cached \ {old}
  <2>1. g[a] = heap'[a].age  BY <1>2, <1>4, <1>7 DEF Sorted, LaterAges, LaterAge
  <2> HIDE DEF f, g
  <2> QED  BY <1>8, <1>9, <1>10, <2>1
<1>16. Order(t)'
  <2>1. Ranks(t, Cached \ {old}, g)
    <3> HIDE DEF f, g, old
    <3> QED  BY <1>14, <1>15, RanksSame
  <2> QED  BY <1>7, <2>1 DEF Order
<1>17. FrontRead(t)'  BY <1>4, NobodyReads
<1> DEFINE q == Listing(heap, s, n)
           S == {Object(heap, s[i]) : i \in 1 .. n}
<1>18. ByAge = q  BY <1>1 DEF Sorted
<1>19. ByAge' = Listing(heap', t, n - 1)
  <2>1. ByAge' = Listing(heap', t, Cardinality(Cached'))  BY <1>2, <1>16 DEF Sorted
  <2> QED  BY <1>7, <1>14, <2>1
<1>20. q \in Seq(S) /\ Len(q) = n /\ \A i \in 1 .. n : q[i] = Object(heap, s[i])  BY <1>13, ListingIsSeq
<1>21. s \in [1 .. n -> Cached]  BY <1>12 DEF Ranks
<1> HIDE DEF n, q, S, old
<1>22. Listing(heap', t, n - 1) = Shortened(q, n)
  <2>1. ASSUME NEW i \in 1 .. n - 1 PROVE Object(heap', t[i]) = q[i]
    <3>1. i \in 1 .. n  BY <1>13
    <3>2. t[i] = s[i]  BY <1>d DEF Shortened
    <3> QED  BY <1>8, <1>9, <1>20, <1>21, <3>1, <3>2
  <2> QED  BY <2>1 DEF Listing, Shortened
<1>23. Lru!Front(q) = Shortened(q, n)  BY <1>13, <1>20, SeqShortened
<1> QED  BY <1>16, <1>17, <1>18, <1>19, <1>22, <1>23

\* The node put in is the first.
LEMMA StoreOrder ==
    ASSUME Lone, Good, Good', [Next]_vars, NEW s, Order(s), NEW w \in Workers, AddToCacheHead(w)
    PROVE  /\ \E t : Order(t)' /\ FrontRead(t)'
           /\ ByAge' = <<[tag |-> tag[w], size |-> size[w]]>> \o ByAge
<1> DEFINE n == Cardinality(Cached)
           f == Later
           g == Later'
           x == [tag |-> tag[w], size |-> size[w]]
<1>1. Sorted  BY GoodIsSorted
<1>2. Sorted'  BY GoodIsSortedPrime
<1>3. CInv  BY DEF Good
<1>4. pc[w] = "write" /\ pc'[w] = "writeUnlock"  BY <1>3 DEF AddToCacheHead, Goto, CInv, IInv, LocksTyped
<1>5. PICK a : Added(w, a)  BY <1>3, StoreKeeps
<1>6. Cached' = Cached \cup {a}  BY <1>3, <1>5, AddedKeeps
<1>7. /\ a \in Addrs /\ a \notin Cached /\ heap'[a].age = 1 /\ Object(heap', a) = x
      /\ \A b \in Addrs \ {a} : /\ Object(heap', b) = Object(heap, b)
                                /\ heap'[b].age = IF b \in Cached THEN Older(heap[b].age) ELSE heap[b].age
  <2>1. /\ a \notin Cached /\ heap'[a].size = size[w] /\ heap'[a].age = 1 /\ heap'[a].tag = tag[w]
        /\ \A b \in Addrs \ {a} : /\ heap'[b].size = heap[b].size /\ heap'[b].tag = heap[b].tag
                                  /\ heap'[b].age = IF b \in Cached THEN Older(heap[b].age) ELSE heap[b].age
    BY <1>3, <1>5, AddFacts
  <2>2. a \in Addrs  BY <1>5 DEF Added
  <2> QED  BY <2>1, <2>2 DEF Object
<1>8. IsFiniteSet(Cached) /\ Cached \in SUBSET Addrs /\ \A b \in Cached : f[b] \in Nat \ {0}  BY <1>1 DEF Sorted
<1>9. Refreshed(f, g, a, Cached)
  <2>1. \A b \in Cached : f[b] = heap[b].age  BY <1>1, <1>4 DEF Sorted, LaterAges, LaterAge
  <2>2. \A b \in Cached \cup {a} : g[b] = heap'[b].age  BY <1>2, <1>4, <1>6 DEF Sorted, LaterAges, LaterAge
  <2>3. \A b \in Cached : Older(heap[b].age) = heap[b].age + 1  BY <1>4, AgesGrow DEF AddsAhead
  <2> HIDE DEF f, g
  <2>4. g[a] = 1  BY <1>7, <2>2
  <2>5. \A b \in Cached \ {a} : g[b] = f[b] + 1  BY <1>7, <1>8, <2>1, <2>2, <2>3
  <2> QED  BY <2>4, <2>5 DEF Refreshed
<1>10. Ranks(s, Cached, f)  BY DEF Order
<1>d. PICK t : t = Behind(a, s, n)  OBVIOUS
<1>11. Ranks(t, Cached \cup {a}, g) /\ Cardinality(Cached \cup {a}) = n + 1
  <2>1. Ranks(Behind(a, s, n), Cached \cup {a}, g) /\ Cardinality(Cached \cup {a}) = n + 1
    <3> HIDE DEF f, g
    <3> QED  BY <1>7, <1>8, <1>9, <1>10, RanksBehind
  <2> HIDE DEF g, n
  <2> QED  BY <1>d, <2>1
<1>12. Order(t)'  BY <1>6, <1>11 DEF Order
<1>13. FrontRead(t)'  BY <1>4, NobodyReads
<1> DEFINE q == Listing(heap, s, n)
           R == {Object(heap, s[i]) : i \in 1 .. n}
           S == R \cup {x}
<1>14. ByAge = q  BY <1>1 DEF Sorted
<1>15. ByAge' = Listing(heap', t, n + 1)
  <2>1. ByAge' = Listing(heap', t, Cardinality(Cached'))  BY <1>2, <1>12 DEF Sorted
  <2> QED  BY <1>6, <1>11, <2>1
<1>16. n \in Nat  BY <1>8, FS_CardinalityType
<1>17. q \in Seq(R) /\ Len(q) = n /\ \A i \in 1 .. n : q[i] = Object(heap, s[i])  BY <1>16, ListingIsSeq
<1>18. s \in [1 .. n -> Cached]  BY <1>10 DEF Ranks
<1> HIDE DEF n, q, R, x
<1>19. Listing(heap', t, n + 1) = Behind(x, q, n)
  <2>1. ASSUME NEW i \in 1 .. n + 1 PROVE Object(heap', t[i]) = IF i = 1 THEN x ELSE q[i - 1]
    <3>1. t[i] = IF i = 1 THEN a ELSE s[i - 1]  BY <1>d DEF Behind
    <3>2. CASE i = 1  BY <1>7, <3>1, <3>2
    <3>3. CASE i # 1
      <4>1. i - 1 \in 1 .. n  BY <1>16, <3>3
      <4>2. s[i - 1] \in Addrs \ {a}  BY <1>7, <1>8, <1>18, <4>1
      <4> QED  BY <1>7, <1>17, <3>1, <3>3, <4>1, <4>2
    <3> QED  BY <3>2, <3>3
  <2> QED  BY <2>1 DEF Listing, Behind
<1>20. <<x>> \o q = Behind(x, q, n)
  <2>1. R \subseteq S /\ x \in S  OBVIOUS
  <2> HIDE DEF S
  <2>2. q \in Seq(S)  BY <1>17, <2>1, SeqMonotonic
  <2> QED  BY <1>17, <2>1, <2>2, SeqBehind
<1>21. ByAge' = <<x>> \o ByAge  BY <1>14, <1>15, <1>19, <1>20
<1> QED  BY <1>12, <1>13, <1>21 DEF x

---------------------------------------------------------------------------
\* The call of a worker at p that holds n as the size, as the LRU cache has it:
\* a hit is one from the start of get_hit's walk.
LruPhaseAt(p) == IF p = "get" THEN "hit" ELSE PhaseAt(p, {})
LruCallAt(p, t, n) == [phase |-> LruPhaseAt(p), tag |-> t,
                       size |-> IF LruPhaseAt(p) \in {"looking", "missed", "hit"} THEN 0 ELSE n]

LruCall == [phase |-> LruPhase, tag |-> tag[Solo],
            size |-> IF LruPhase \in {"looking", "missed", "hit"} THEN 0 ELSE size[Solo]]

\* It is the call of the one worker.
OneCalls == \A w \in Workers : LruCall = LruCallAt(pc[w], tag[w], size[w])

LEMMA OneCallsUnfolds == Lone /\ Good => OneCalls
<1> SUFFICES ASSUME Lone, Good, NEW w \in Workers PROVE LruCall = LruCallAt(pc[w], tag[w], size[w])  BY DEF OneCalls
<1>1. Solo \in Workers  BY Zenon DEF Solo, Lone
<1>2. Solo = w  BY <1>1 DEF Lone, Alone
<1>3. ObjectPhase(w) = PhaseAt(pc[w], {})
  <2>1. since[w] = {}  BY DEF Good, OInv
  <2> QED  BY <2>1, Zenon DEF ObjectPhase, PhaseAt
<1>4. LruPhase = LruPhaseAt(pc[w])  BY <1>2, <1>3 DEF LruPhase, LruPhaseAt
<1> QED  BY <1>2, <1>4, Zenon DEF LruCall, LruCallAt

LEMMA OneCallsUnfoldsPrime == Lone /\ Good' => OneCalls'
<1>1. Lone => Lone'  BY DEF Lone, Alone
<1> QED  BY <1>1, OneCallsUnfolds, PTL

LEMMA LruPhases == /\ \A p \in LookingAt \ {"get"} : LruPhaseAt(p) = "looking"
                   /\ LruPhaseAt("get") = "hit"
                   /\ LruPhaseAt("idle") = "idle" /\ LruPhaseAt("writeUnlock") = "idle"
                   /\ LruPhaseAt("fetch") = "missed"
                   /\ LruPhaseAt("writeLock") = "storing" /\ LruPhaseAt("write") = "storing"
BY DEF LruPhaseAt, PhaseAt, LookingAt

\* A move within a phase does nothing to the call.
LEMMA LruCallStays ==
    ASSUME Lone, Good, Good', NEW w \in Workers, LruPhaseAt(pc'[w]) = LruPhaseAt(pc[w]), tag'[w] = tag[w],
           LruPhaseAt(pc[w]) \in {"looking", "hit"} \/ size'[w] = size[w]
    PROVE  LruCall' = LruCall
<1>1. LruCall = LruCallAt(pc[w], tag[w], size[w])  BY OneCallsUnfolds DEF OneCalls
<1>2. LruCall' = LruCallAt(pc'[w], tag'[w], size'[w])  BY OneCallsUnfoldsPrime DEF OneCalls
<1> QED  BY <1>1, <1>2 DEF LruCallAt

\* The nodes stand in an order, and what a hit reads is at the front.
LInv == \E s : Order(s) /\ FrontRead(s)

\* The objects listed are those of the cached nodes.
LEMMA ListedIsCached ==
    ASSUME Lone, Good, NEW s, Order(s)
    PROVE  /\ Cardinality(Cached) \in Nat /\ Len(ByAge) = Cardinality(Cached)
           /\ \A k \in 1 .. Len(ByAge) : s[k] \in Cached /\ ByAge[k] = Object(heap, s[k])
<1> DEFINE n == Cardinality(Cached)
           q == Listing(heap, s, n)
<1>1. IsFiniteSet(Cached) /\ ByAge = q  BY GoodIsSorted DEF Sorted
<1>2. n \in Nat  BY <1>1, FS_CardinalityType
<1>3. s \in [1 .. n -> Cached]  BY DEF Order, Ranks
<1>4. Len(q) = n /\ \A k \in 1 .. n : q[k] = Object(heap, s[k])  BY <1>2, ListingIsSeq
<1> HIDE DEF n, q
<1> QED  BY <1>1, <1>2, <1>3, <1>4 DEF n

\* The requests, misses and answers are those of the LRU cache.
LEMMA LookupIsLru ==
    ASSUME Lone, Good, Good', LInv, NEW w \in Workers, NEW t \in Tags, Request(w, t)
    PROVE  LInv' /\ Lru!Lookup(t)
<1>1. PICK s : Order(s) /\ FrontRead(s)  BY DEF LInv
<1>2. /\ UNCHANGED list /\ pc[w] = "idle" /\ pc'[w] = "readLock" /\ tag'[w] = t /\ size'[w] = 0
  BY DEF Request, Goto, Good, CInv, Typed, IInv, LocksTyped
<1>3. Order(s)' /\ ByAge' = ByAge  BY <1>1, <1>2, StillOrder
<1>4. FrontRead(s)'  BY <1>2, NobodyReads
<1>5. LruCall = LruCallAt("idle", tag[w], size[w])  BY <1>2, OneCallsUnfolds DEF OneCalls
<1>6. LruCall' = LruCallAt("readLock", t, 0)  BY <1>2, OneCallsUnfoldsPrime DEF OneCalls
<1>7. LruCall.phase = "idle"  BY <1>5, LruPhases DEF LruCallAt
<1>8. LruCall' = [phase |-> "looking", tag |-> t, size |-> 0]  BY <1>6, LruPhases DEF LruCallAt, LookingAt
<1>9. Lru!Lookup(t)  BY <1>3, <1>7, <1>8 DEF Lru!Lookup, LruCall
<1> QED  BY <1>3, <1>4, <1>9 DEF LInv

LEMMA MissIsLru ==
    ASSUME Lone, Good, Good', LInv, NEW w \in Workers, LeaveUnlock(w)
    PROVE  LInv' /\ (Lru!Miss \/ UNCHANGED <<ByAge, LruCall>>)
<1>1. PICK s : Order(s) /\ FrontRead(s)  BY DEF LInv
<1>2. /\ UNCHANGED <<list, tag, size>> /\ pc[w] = "leaveUnlock"
      /\ pc'[w] = IF found[w] THEN "getHead" ELSE "fetch"
  BY DEF LeaveUnlock, Goto, Good, CInv, Typed, IInv, LocksTyped
<1>3. Order(s)' /\ ByAge' = ByAge  BY <1>1, <1>2, StillOrder
<1>4. FrontRead(s)'  BY <1>2, NobodyReads
<1>5. CASE found[w]
  <2>1. LruCall' = LruCall  BY <1>2, <1>5, LruCallStays, LruPhases DEF LookingAt
  <2> QED  BY <1>3, <1>4, <2>1 DEF LInv
<1>6. CASE ~found[w]
  <2>1. LruCall = LruCallAt("leaveUnlock", tag[w], size[w])  BY <1>2, OneCallsUnfolds DEF OneCalls
  <2>2. LruCall' = LruCallAt("fetch", tag[w], size[w])  BY <1>2, <1>6, OneCallsUnfoldsPrime DEF OneCalls
  <2>3. LruCall = [phase |-> "looking", tag |-> tag[w], size |-> 0]  BY <2>1, LruPhases DEF LruCallAt, LookingAt
  <2>4. LruCall' = [phase |-> "missed", tag |-> tag[w], size |-> 0]  BY <2>2, LruPhases DEF LruCallAt
  <2>5. LruCall' = [LruCall EXCEPT !.phase = "missed"] /\ LruCall.phase = "looking" /\ LruCall.tag = tag[w]
    BY <2>3, <2>4
  <2>6. \A a \in Cached : heap[a].tag # tag[w]  BY <1>2, <1>6, LoneWalks DEF Good
  <2>7. ASSUME NEW i \in 1 .. Len(ByAge) PROVE ByAge[i].tag # tag[w]
    <3>1. s[i] \in Cached /\ ByAge[i] = Object(heap, s[i])  BY <1>1, ListedIsCached
    <3> QED  BY <2>6, <3>1 DEF Object
  <2>8. Lru!Miss  BY <1>3, <2>5, <2>7 DEF Lru!Miss, LruCall
  <2> QED  BY <1>3, <1>4, <2>8 DEF LInv
<1> QED  BY <1>5, <1>6

LEMMA HitIsLru ==
    ASSUME Lone, Good, Good', LInv, NEW w \in Workers, GetLock(w)
    PROVE  LInv' /\ Lru!Hit
<1>1. PICK s : Order(s) /\ FrontRead(s)  BY DEF LInv
<1>2. UNCHANGED tag /\ pc[w] = "getLock" /\ pc'[w] = "get"
  BY DEF GetLock, Goto, Good, CInv, Typed, IInv, LocksTyped
<1>3. /\ \E t : Order(t)' /\ FrontRead(t)'
      /\ \E p \in 1 .. Len(ByAge) : /\ ByAge[p].tag = tag[w]
                                   /\ ByAge' = <<ByAge[p]>> \o Lru!RemoveAt(ByAge, p)
  BY <1>1, HitOrder
<1>4. LruCall = LruCallAt("getLock", tag[w], size[w])  BY <1>2, OneCallsUnfolds DEF OneCalls
<1>5. LruCall' = LruCallAt("get", tag[w], size'[w])  BY <1>2, OneCallsUnfoldsPrime DEF OneCalls
<1>6. LruCall = [phase |-> "looking", tag |-> tag[w], size |-> 0]  BY <1>4, LruPhases DEF LruCallAt, LookingAt
<1>7. LruCall' = [phase |-> "hit", tag |-> tag[w], size |-> 0]  BY <1>5, LruPhases DEF LruCallAt
<1>8. LruCall' = [LruCall EXCEPT !.phase = "hit"] /\ LruCall.phase = "looking" /\ LruCall.tag = tag[w]
  BY <1>6, <1>7
<1>9. Lru!Hit  BY <1>3, <1>8 DEF Lru!Hit, LruCall
<1> QED  BY <1>3, <1>9 DEF LInv

LEMMA ReturnIsLru ==
    ASSUME Lone, Good, Good', LInv, NEW w \in Workers, GetUnlock(w)
    PROVE  LInv' /\ Lru!Return
<1>1. PICK s : Order(s) /\ FrontRead(s)  BY DEF LInv
<1>2. /\ UNCHANGED <<tag, size>> /\ pc[w] = "get" /\ ptr[w] = Nil
      /\ pc'[w] = IF found[w] THEN "idle" ELSE "fetch"
  BY DEF GetUnlock, Goto, Good, CInv, Typed, IInv, LocksTyped
<1>3. Order(s)' /\ ByAge' = ByAge  BY <1>1, UnlockOrder
<1>4. FrontRead(s)'  BY <1>2, NobodyReads
<1>5. found[w]
  <2>1. \E a \in Cached : heap[a].tag = tag[w]  BY <1>2 DEF Good, FInv, Finds, GettingAt
  <2>2. ~found[w] => \A a \in Cached : heap[a].tag # tag[w]  BY <1>2, LoneWalks DEF Good, WalkingAt
  <2> QED  BY <2>1, <2>2
<1>6. PICK a \in Cached : heap[a].tag = tag[w] /\ heap[a].size = size[w]  BY <1>2, <1>5 DEF Good, HInv, Read, OInv
<1>7. ByAge[1].size = size[w]
  <2>1. /\ Cardinality(Cached) \in Nat /\ Len(ByAge) = Cardinality(Cached)
        /\ \A k \in 1 .. Len(ByAge) : s[k] \in Cached /\ ByAge[k] = Object(heap, s[k])
    BY <1>1, ListedIsCached
  <2>2. heap[s[1]].tag = tag[w]  BY <1>1, <1>2 DEF FrontRead
  <2>3. Cardinality(Cached) # 0
    <3>1. IsFiniteSet(Cached)  BY GoodIsSorted DEF Sorted
    <3> QED  BY <1>6, <3>1, FS_EmptySet
  <2>4. 1 \in 1 .. Len(ByAge)  BY <2>1, <2>3
  <2>5. s[1] = a  BY <1>6, <2>1, <2>2, <2>4 DEF Good, OInv, NoDuplicateTags
  <2> QED  BY <1>6, <2>1, <2>4, <2>5 DEF Object
<1>8. LruCall = LruCallAt("get", tag[w], size[w])  BY <1>2, OneCallsUnfolds DEF OneCalls
<1>9. LruCall' = LruCallAt("idle", tag[w], size[w])  BY <1>2, <1>5, OneCallsUnfoldsPrime DEF OneCalls
<1>10. LruCall = [phase |-> "hit", tag |-> tag[w], size |-> 0]  BY <1>8, LruPhases DEF LruCallAt
<1>11. LruCall' = [phase |-> "idle", tag |-> tag[w], size |-> size[w]]  BY <1>9, LruPhases DEF LruCallAt
<1>12. LruCall' = [LruCall EXCEPT !.phase = "idle", !.size = ByAge[1].size] /\ LruCall.phase = "hit"
  <2> DEFINE c == [phase |-> "idle", tag |-> tag[w], size |-> 0]
  <2>1. [LruCall EXCEPT !.phase = "idle", !.size = ByAge[1].size]
        = [[LruCall EXCEPT !.phase = "idle"] EXCEPT !.size = ByAge[1].size]
    OBVIOUS
  <2>2. [LruCall EXCEPT !.phase = "idle"] = c  BY <1>10
  <2>3. [c EXCEPT !.size = size[w]] = [phase |-> "idle", tag |-> tag[w], size |-> size[w]]  OBVIOUS
  <2>4. LruCall.phase = "hit"  BY <1>10
  <2> HIDE DEF c
  <2> QED  BY <1>7, <1>11, <2>1, <2>2, <2>3, <2>4, Zenon
<1>13. Lru!Return  BY <1>3, <1>12 DEF Lru!Return, LruCall
<1> QED  BY <1>3, <1>4, <1>13 DEF LInv

LEMMA OfferIsLru ==
    ASSUME Lone, Good, Good', LInv, NEW w \in Workers, NEW n \in Sizes, Fetch(w, n)
    PROVE  LInv' /\ Lru!Offer(n)
<1> DEFINE to == IF n > MaxObjectSize THEN "idle" ELSE "writeLock"
           phase == IF n > MaxObjectSize THEN "idle" ELSE "storing"
<1>1. PICK s : Order(s) /\ FrontRead(s)  BY DEF LInv
<1>2. /\ UNCHANGED <<list, tag>> /\ pc[w] = "fetch" /\ pc'[w] = to /\ size'[w] = n
  BY DEF Fetch, Goto, Good, CInv, Typed, IInv, LocksTyped
<1>3. to # "get" /\ LruPhaseAt(to) = phase /\ phase \notin {"looking", "missed", "hit"}  BY LruPhases
<1> HIDE DEF to
<1>4. Order(s)' /\ ByAge' = ByAge  BY <1>1, <1>2, <1>3, StillOrder
<1>5. FrontRead(s)'  BY <1>2, <1>3, NobodyReads
<1> HIDE DEF phase
<1>6. LruCall = LruCallAt("fetch", tag[w], size[w])  BY <1>2, OneCallsUnfolds DEF OneCalls
<1>7. LruCall' = LruCallAt(to, tag[w], n)  BY <1>2, OneCallsUnfoldsPrime DEF OneCalls
<1>8. LruCall = [phase |-> "missed", tag |-> tag[w], size |-> 0]  BY <1>6, LruPhases DEF LruCallAt
<1>9. LruCall' = [phase |-> phase, tag |-> tag[w], size |-> n]  BY <1>3, <1>7 DEF LruCallAt
<1>10. LruCall' = [LruCall EXCEPT !.phase = phase, !.size = n] /\ LruCall.phase = "missed"
  <2> DEFINE c == [phase |-> phase, tag |-> tag[w], size |-> 0]
  <2>1. [LruCall EXCEPT !.phase = phase, !.size = n] = [[LruCall EXCEPT !.phase = phase] EXCEPT !.size = n]
    OBVIOUS
  <2>2. [LruCall EXCEPT !.phase = phase] = c  BY <1>8
  <2>3. [c EXCEPT !.size = n] = [phase |-> phase, tag |-> tag[w], size |-> n]  OBVIOUS
  <2>4. LruCall.phase = "missed"  BY <1>8
  <2> HIDE DEF c
  <2> QED  BY <1>9, <2>1, <2>2, <2>3, <2>4, Zenon
<1>11. Lru!Offer(n)  BY <1>4, <1>10 DEF Lru!Offer, LruCall, phase
<1> QED  BY <1>4, <1>5, <1>11 DEF LInv

\* Whether there is room is the same question to both.
LEMMA RoomIsLru ==
    ASSUME Lone, Good, LInv, NEW w \in Workers, pc[w] = "write"
    PROVE  /\ LruCall = [phase |-> "storing", tag |-> tag[w], size |-> size[w]]
           /\ Lru!Used + LruCall.size > MaxCacheSize <=> Full(w)
           /\ Lru!Used + LruCall.size <= MaxCacheSize <=> ~Full(w)
<1>1. PICK s : Order(s) /\ FrontRead(s)  BY DEF LInv
<1>2. /\ \A a \in Cached : Later[a] \in Nat
      /\ ByAge = Listing(heap, s, Cardinality(Cached))
  BY <1>1, GoodIsSorted DEF Sorted
<1>3. Ranks(s, Cached, Later) /\ CInv  BY <1>1 DEF Order, Good
<1>4. Lru!Used = total_size  BY <1>2, <1>3, UsedIsTotalSize
<1>5. LruCall = LruCallAt("write", tag[w], size[w])  BY OneCallsUnfolds DEF OneCalls
<1>6. LruCall = [phase |-> "storing", tag |-> tag[w], size |-> size[w]]  BY <1>5, LruPhases DEF LruCallAt
<1>7. LruCall.size = size[w]  BY <1>6
<1>8. size[w] \in Nat /\ total_size \in Nat /\ MaxCacheSize \in Nat  BY <1>3, SizesAssumption DEF CInv, Typed
<1> QED  BY <1>4, <1>6, <1>7, <1>8 DEF Full

LEMMA EvictIsLru ==
    ASSUME Lone, Good, Good', LInv, [Next]_vars, NEW w \in Workers, RemoveOldest(w)
    PROVE  LInv' /\ Lru!Evict
<1>1. PICK s : Order(s) /\ FrontRead(s)  BY DEF LInv
<1>2. UNCHANGED <<pc, tag, size>> /\ pc[w] = "write" /\ Full(w)  BY DEF RemoveOldest
<1>3. (\E t : Order(t)' /\ FrontRead(t)') /\ ByAge' = Lru!Front(ByAge)  BY <1>1, EvictOrder
<1>4. LruCall' = LruCall  BY <1>2, LruCallStays
<1>5. LruCall.phase = "storing" /\ Lru!Used + LruCall.size > MaxCacheSize
  <2>1. LruCall = [phase |-> "storing", tag |-> tag[w], size |-> size[w]]  BY <1>2, RoomIsLru
  <2> QED  BY <1>2, <2>1, RoomIsLru
<1>6. Lru!Evict  BY <1>3, <1>4, <1>5 DEF Lru!Evict, LruCall
<1> QED  BY <1>3, <1>6 DEF LInv

LEMMA StoreIsLru ==
    ASSUME Lone, Good, Good', LInv, [Next]_vars, NEW w \in Workers, AddToCacheHead(w)
    PROVE  LInv' /\ Lru!Store
<1>1. PICK s : Order(s) /\ FrontRead(s)  BY DEF LInv
<1>2. UNCHANGED <<tag, size>> /\ pc[w] = "write" /\ pc'[w] = "writeUnlock" /\ ~Full(w)
  BY DEF AddToCacheHead, Goto, Good, CInv, Typed, IInv, LocksTyped
<1>3. /\ \E t : Order(t)' /\ FrontRead(t)'
      /\ ByAge' = <<[tag |-> tag[w], size |-> size[w]]>> \o ByAge
  BY <1>1, StoreOrder
<1>4. LruCall = [phase |-> "storing", tag |-> tag[w], size |-> size[w]]  BY <1>2, RoomIsLru
<1>5. Lru!Used + LruCall.size <= MaxCacheSize  BY <1>2, RoomIsLru
<1>6. LruCall' = LruCallAt("writeUnlock", tag[w], size[w])  BY <1>2, OneCallsUnfoldsPrime DEF OneCalls
<1>7. LruCall' = [phase |-> "idle", tag |-> tag[w], size |-> size[w]]  BY <1>6, LruPhases DEF LruCallAt
<1>8. /\ LruCall' = [LruCall EXCEPT !.phase = "idle"] /\ LruCall.phase = "storing"
      /\ LruCall.tag = tag[w] /\ LruCall.size = size[w]
  BY <1>4, <1>7
<1>9. ByAge' = <<[tag |-> LruCall.tag, size |-> LruCall.size]>> \o ByAge  BY <1>3, <1>8
<1>10. Lru!Store  BY <1>5, <1>8, <1>9 DEF Lru!Store, LruCall
<1> QED  BY <1>3, <1>10 DEF LInv

\* The walk of get_hit does not show.
LEMMA WalkIsLru ==
    ASSUME Lone, Good, Good', LInv, [Next]_vars, NEW w \in Workers, GetMatch(w) \/ GetNext(w)
    PROVE  LInv' /\ UNCHANGED <<ByAge, LruCall>>
<1>1. PICK s : Order(s) /\ FrontRead(s)  BY DEF LInv
<1>2. /\ Order(s)' /\ ByAge' = ByAge /\ UNCHANGED <<pc, tag>> /\ pc[w] = "get"
      /\ \A a \in Addrs : heap'[a].tag = heap[a].tag
  BY <1>1, WalkOrder
<1>3. LruCall' = LruCall  BY <1>2, LruCallStays, LruPhases
<1>4. FrontRead(s)'
  <2>1. Cached # {} /\ heap[s[1]].tag = tag[w]  BY <1>1, <1>2 DEF FrontRead
  <2>2. Cached' = Cached /\ Cached \in SUBSET Addrs  BY GetKeeps, GoodIsSorted DEF Good, Sorted
  <2>3. s[1] \in Cached
    <3>1. IsFiniteSet(Cached)  BY GoodIsSorted DEF Sorted
    <3>2. Cardinality(Cached) \in Nat /\ Cardinality(Cached) # 0  BY <2>1, <3>1, FS_CardinalityType, FS_EmptySet
    <3>3. 1 \in 1 .. Cardinality(Cached)  BY <3>2
    <3> QED  BY <1>1, <3>3 DEF Order, Ranks
  <2>4. \A u \in Workers : u = w  BY DEF Lone, Alone
  <2> QED  BY <1>2, <2>1, <2>2, <2>3, <2>4 DEF FrontRead
<1> QED  BY <1>1, <1>2, <1>3, <1>4 DEF LInv

\* Nor does what the worker does before it has found or missed, or between
\* the locks and its writing.
LEMMA QuietIsLru ==
    ASSUME Lone, Good, Good', LInv, NEW w \in Workers,
           \/ ReadLock(w) \/ ReadCount(w) \/ ReadWait(w) \/ ReadUnlock(w) \/ FindMatch(w) \/ FindNext(w)
           \/ LeaveLock(w) \/ LeaveCount(w) \/ GetHead(w) \/ WriteLock(w) \/ WriteUnlock(w)
    PROVE  LInv' /\ UNCHANGED <<ByAge, LruCall>>
<1>t. pc \in [Workers -> Points]  BY DEF Good, CInv, IInv, LocksTyped
<1>1. UNCHANGED <<list, tag, size>>
  BY DEF ReadLock, ReadCount, ReadWait, ReadUnlock, FindMatch, FindNext, LeaveLock, LeaveCount, GetHead,
         WriteLock, WriteUnlock
<1>2. pc[w] # "get" /\ pc'[w] # "get" /\ LruPhaseAt(pc'[w]) = LruPhaseAt(pc[w])
  <2>1. CASE \/ ReadLock(w) \/ ReadCount(w) \/ ReadWait(w) \/ ReadUnlock(w)
             \/ LeaveLock(w) \/ LeaveCount(w) \/ GetHead(w)
    <3>1. pc[w] \in LookingAt \ {"get"} /\ pc'[w] \in LookingAt \ {"get"}
      BY <1>t, <2>1 DEF ReadLock, ReadCount, ReadWait, ReadUnlock, LeaveLock, LeaveCount, GetHead, Goto, LookingAt
    <3> QED  BY <3>1, LruPhases
  <2>2. CASE FindMatch(w) \/ FindNext(w)
    <3>1. pc[w] = "find" /\ UNCHANGED pc  BY <2>2 DEF FindMatch, FindNext, Visits
    <3> QED  BY <3>1
  <2>3. CASE WriteLock(w) \/ WriteUnlock(w)
    <3>1. \/ pc[w] = "writeLock" /\ pc'[w] = "write"
          \/ pc[w] = "writeUnlock" /\ pc'[w] = "idle"
      BY <1>t, <2>3 DEF WriteLock, WriteUnlock, Goto
    <3> QED  BY <3>1, LruPhases
  <2> QED  BY <2>1, <2>2, <2>3
<1>3. PICK s : Order(s) /\ FrontRead(s)  BY DEF LInv
<1>4. Order(s)' /\ ByAge' = ByAge  BY <1>1, <1>2, <1>3, StillOrder
<1>5. FrontRead(s)'  BY <1>2, NobodyReads
<1>6. LruCall' = LruCall  BY <1>1, <1>2, LruCallStays
<1> QED  BY <1>4, <1>5, <1>6 DEF LInv

\* Nor does a step in which nothing happens.
LEMMA StillIsLru ==
    ASSUME Lone, Good, Good', LInv, UNCHANGED vars
    PROVE  LInv' /\ UNCHANGED <<ByAge, LruCall>>
<1>1. UNCHANGED <<list, pc, tag, size, ptr>>  BY DEF vars
<1>2. PICK w \in Workers : TRUE  BY DEF Lone
<1>3. PICK s : Order(s) /\ FrontRead(s)  BY DEF LInv
<1>4. heap' = heap /\ Cached' = Cached /\ Nodes(head)' = Nodes(head)  BY <1>1, ListUnchanged DEF Good, list
<1>5. LaterAges  BY GoodIsSorted DEF Sorted
<1>6. LaterAges'  BY GoodIsSortedPrime DEF Sorted
<1>7. ASSUME NEW a \in Cached PROVE AgeAfterWalk(a)' = AgeAfterWalk(a)
  <2>1. AgeAfterWalk(a) = LaterAge(pc[w], Beyond(Nodes(head), ptr[w], a), heap[a].tag = tag[w], heap[a].age)
    BY <1>5 DEF LaterAges
  <2>2. AgeAfterWalk(a)' = LaterAge(pc'[w], Beyond(Nodes(head)', ptr'[w], a), heap'[a].tag = tag'[w], heap'[a].age)
    BY <1>4, <1>6 DEF LaterAges
  <2> QED  BY <1>1, <1>4, <2>1, <2>2
<1>8. Order(s)' /\ ByAge' = ByAge  BY <1>3, <1>4, <1>7, OrderStays
<1>9. FrontRead(s)'  BY <1>1, <1>3, <1>4 DEF FrontRead
<1>10. LruCall' = LruCall  BY <1>1, LruCallStays
<1> QED  BY <1>8, <1>9, <1>10 DEF LInv

\* Every step of the one worker is a step of the LRU cache or does not show.
LEMMA StepIsLru == Lone /\ Good /\ LInv /\ [Next]_vars => LInv' /\ (Lru!Next \/ UNCHANGED <<ByAge, LruCall>>)
<1> SUFFICES ASSUME Lone, Good, LInv, [Next]_vars PROVE LInv' /\ (Lru!Next \/ UNCHANGED <<ByAge, LruCall>>)
  OBVIOUS
<1>1. Good'  BY StepGood
<1>2. ASSUME NEW w \in Workers, NEW t \in Tags, Request(w, t) PROVE LInv' /\ Lru!Next
  BY <1>1, <1>2, LookupIsLru DEF Lru!Next
<1>3. ASSUME NEW w \in Workers, NEW n \in Sizes, Fetch(w, n) PROVE LInv' /\ Lru!Next
  BY <1>1, <1>3, OfferIsLru DEF Lru!Next
<1>4. ASSUME NEW w \in Workers, GetLock(w) \/ GetUnlock(w) \/ RemoveOldest(w) \/ AddToCacheHead(w)
      PROVE  LInv' /\ Lru!Next
  BY <1>1, <1>4, HitIsLru, ReturnIsLru, EvictIsLru, StoreIsLru DEF Lru!Next
<1>5. ASSUME NEW w \in Workers, LeaveUnlock(w) PROVE LInv' /\ (Lru!Next \/ UNCHANGED <<ByAge, LruCall>>)
  BY <1>1, <1>5, MissIsLru DEF Lru!Next
<1>6. ASSUME NEW w \in Workers, Ruin(w) PROVE FALSE
  <2>1. pc[w] \in {"find", "get"} /\ ptr[w] # Nil  BY <1>6 DEF Ruin, Visits
  <2>2. heap[ptr[w]].live  BY <2>1, LoneWalks DEF Good
  <2> QED  BY <1>6, <2>2 DEF Ruin, OnFreed
<1>7. ASSUME UNCHANGED vars PROVE LInv' /\ UNCHANGED <<ByAge, LruCall>>
  BY <1>1, <1>7, StillIsLru
<1> QED
  BY <1>1, <1>2, <1>3, <1>4, <1>5, <1>6, <1>7, WalkIsLru, QuietIsLru
  DEF Next, Step, FindHit, GetHit, WriteCache, Ended

\* At first the list is empty and the worker has not called.
LEMMA InitIsLru == Lone /\ Init => Good /\ LInv /\ Lru!Init
<1> SUFFICES ASSUME Lone, Init PROVE Good /\ LInv /\ Lru!Init  OBVIOUS
<1>1. \A w \in Workers : pc[w] = "idle" /\ tag[w] = Nil /\ size[w] = 0  BY DEF Init
<1>2. FInv  BY <1>1 DEF FInv, Finds, FindingAt, GettingAt
<1>3. Good  BY <1>2, InitCInv, InitAInv, InitOInv, InitRefines DEF Good, Lone
<1>4. Cached = {}
  <2>1. Cached = {a \in Addrs : heap[a].live}  BY InitCInv, ListFacts
  <2> QED  BY <2>1 DEF Init, NoNode
<1>5. Cardinality(Cached) = 0  BY <1>4, FS_EmptySet
<1>6. Order(<<>>)  BY <1>4, <1>5 DEF Order, Ranks
<1>7. FrontRead(<<>>)  BY <1>1 DEF FrontRead
<1>8. ByAge = <<>>
  <2>1. ByAge = Listing(heap, <<>>, 0)  BY <1>3, <1>5, <1>6, GoodIsSorted DEF Sorted
  <2> QED  BY <2>1 DEF Listing
<1>9. LruCall = [phase |-> "idle", tag |-> Nil, size |-> 0]
  <2>1. PICK w \in Workers : TRUE  BY DEF Lone
  <2>2. LruCall = LruCallAt("idle", Nil, 0)  BY <1>1, <1>3, <2>1, OneCallsUnfolds DEF OneCalls
  <2> QED  BY <2>2, LruPhases DEF LruCallAt
<1>10. Lru!Init  BY <1>8, <1>9 DEF Lru!Init, LruCall
<1> QED  BY <1>3, <1>6, <1>7, <1>10 DEF LInv

\* With one worker, and while no age comes round, cache.c is an LRU cache of
\* exact recency for any objects, sizes and addresses: a lookup hits if and
\* only if the object is there, a hit makes it the youngest, what remove_oldest
\* frees is the one used longest ago, and it does so only when room is short.
THEOREM OneWorkerIsLru ==
    Workers # {} /\ (\A u, v \in Workers : u = v) /\ AgeMod > 2 * MaxRequests + 1 /\ Spec => ImplementsLru
<1> SUFFICES ASSUME Workers # {}, \A u, v \in Workers : u = v, AgeMod > 2 * MaxRequests + 1
             PROVE  Spec => ImplementsLru
  OBVIOUS
<1>1. Lone  BY DEF Lone, Alone
<1>2. Init => Good /\ LInv /\ Lru!Init  BY <1>1, InitIsLru
<1>3. Good /\ LInv /\ [Next]_vars => Good' /\ LInv'  BY <1>1, StepGood, StepIsLru
<1>4. Good /\ LInv /\ [Next]_vars => [Lru!Next]_(Lru!lruVars)
  BY <1>1, StepIsLru DEF Lru!lruVars, LruCall
<1> QED  BY <1>2, <1>3, <1>4, PTL DEF Spec, ImplementsLru, Lru!Spec

=============================================================================
