---------------------------- MODULE SbufProofs ----------------------------
(***************************************************************************)
(* Type correctness and the safety invariants of Sbuf, for every number of *)
(* threads, every number of slots and every bound.  The invariant that is  *)
(* inductive is IInv: the type invariant alone is not, because nothing but *)
(* the ledgers keeps the semaphores within their range.                    *)
(***************************************************************************)
EXTENDS Sbuf, FiniteSetTheorems, SequenceTheorems, TLAPS

IInv == TypeOK /\ MutexLedger /\ TicketLedger

\* What moving one thread from a point to another adds to the number of
\* threads at any of the given points.
Delta(points, from, to) == (IF to \in points THEN 1 ELSE 0) - (IF from \in points THEN 1 ELSE 0)

---------------------------------------------------------------------------
\* The number of threads at some points is a natural number, positive when a
\* thread is known to be there: Threads is finite.
LEMMA CountIsNat ==
    ASSUME NEW points
    PROVE  /\ IsFiniteSet(At(points))
           /\ Cardinality(At(points)) \in Nat
           /\ \A t \in At(points) : Cardinality(At(points)) > 0
<1>1. At(points) \in SUBSET Threads  BY DEF At
<1>2. IsFiniteSet(At(points))  BY <1>1, ThreadsAssumption, FS_Subset
<1>3. Cardinality(At(points)) \in Nat  BY <1>2, FS_CardinalityType
<1>4. Cardinality(At(points)) = 0 <=> At(points) = {}  BY <1>2, FS_EmptySet
<1> QED  BY <1>2, <1>3, <1>4

\* One thread's move changes the count at any points by Delta.
LEMMA MoveCount ==
    ASSUME TypeOK, NEW t \in Threads, NEW from, NEW to, NEW points, Goto(t, from, to)
    PROVE  Cardinality(At(points)') = Cardinality(At(points)) + Delta(points, from, to)
<1> DEFINE S == At(points)
<1>1. pc \in [Threads -> InsertPoints \cup RemovePoints]  BY DEF TypeOK
<1>2. pc[t] = from /\ \A u \in Threads : pc'[u] = IF u = t THEN to ELSE pc[u]
  BY <1>1 DEF Goto
<1>3. t \in S <=> from \in points  BY <1>2 DEF At
<1>4. S' = IF to \in points THEN S \cup {t} ELSE S \ {t}  BY <1>2 DEF At
<1>5. IsFiniteSet(S) /\ Cardinality(S) \in Nat  BY CountIsNat
<1>6. Cardinality(S \cup {t}) = IF t \in S THEN Cardinality(S) ELSE Cardinality(S) + 1
  BY <1>5, FS_AddElement
<1>7. Cardinality(S \ {t}) = IF t \in S THEN Cardinality(S) - 1 ELSE Cardinality(S)
  BY <1>5, FS_RemoveElement
<1> HIDE DEF S
<1>8. Cardinality(S') = Cardinality(S) + Delta(points, from, to)
  BY <1>3, <1>4, <1>5, <1>6, <1>7 DEF Delta
<1> QED  BY <1>8 DEF S

\* The points at which a thread counts in each of the sets of the ledgers.
LockedAt == {"insAdvance", "store", "insUnlock", "remAdvance", "load", "remUnlock"}
SlotTakenAt == {"insLock", "insAdvance"}
UnannouncedAt == {"store", "insUnlock", "announceItem"}
ItemTakenAt == {"remLock", "remAdvance"}
UnreturnedAt == {"load", "remUnlock", "announceSlot"}

\* Where one thread's move leaves the five sets of the two ledgers.
LEMMA MoveLedgers ==
    ASSUME TypeOK, NEW t \in Threads, NEW from, NEW to, Goto(t, from, to)
    PROVE  /\ Cardinality(Locked') = Cardinality(Locked) + Delta(LockedAt, from, to)
           /\ Cardinality(SlotTaken') = Cardinality(SlotTaken) + Delta(SlotTakenAt, from, to)
           /\ Cardinality(Unannounced') = Cardinality(Unannounced) + Delta(UnannouncedAt, from, to)
           /\ Cardinality(ItemTaken') = Cardinality(ItemTaken) + Delta(ItemTakenAt, from, to)
           /\ Cardinality(Unreturned') = Cardinality(Unreturned) + Delta(UnreturnedAt, from, to)
BY MoveCount DEF Locked, SlotTaken, Unannounced, ItemTaken, Unreturned,
                 LockedAt, SlotTakenAt, UnannouncedAt, ItemTakenAt, UnreturnedAt

\* The five counts are natural numbers.
CountsAreNat ==
    /\ Cardinality(Locked) \in Nat /\ Cardinality(SlotTaken) \in Nat
    /\ Cardinality(Unannounced) \in Nat /\ Cardinality(ItemTaken) \in Nat
    /\ Cardinality(Unreturned) \in Nat

\* They are, because Threads is finite.
LEMMA LedgersAreNat == CountsAreNat
BY CountIsNat DEF CountsAreNat, Locked, SlotTaken, Unannounced, ItemTaken, Unreturned

---------------------------------------------------------------------------
\* The initial state satisfies the inductive invariant: no thread is in a
\* call, so every count is zero.
LEMMA InitIInv == Init => IInv
<1> SUFFICES ASSUME Init PROVE IInv  OBVIOUS
<1>1. TypeOK
  BY NAssumption DEF Init, TypeOK, InsertPoints, RemovePoints, Threads
<1>2. /\ Locked = {} /\ SlotTaken = {} /\ Unannounced = {} /\ ItemTaken = {} /\ Unreturned = {}
  BY DEF Init, Locked, SlotTaken, Unannounced, ItemTaken, Unreturned, At
<1>3. MutexLedger /\ TicketLedger
  BY <1>2, FS_EmptySet, NAssumption DEF Init, MutexLedger, TicketLedger
<1> QED  BY <1>1, <1>3 DEF IInv

---------------------------------------------------------------------------
\* What one step of a thread owes the invariant: it goes on to a point of its
\* own routine, keeps the data within their types, and changes the semaphores
\* and the indices by just what its move changes the five counts.
Balanced(t, from, to) ==
    /\ Goto(t, from, to)
    /\ IF t \in Inserters THEN to \in InsertPoints ELSE to \in RemovePoints
    /\ buf' \in [0 .. N - 1 -> Items \cup {NoItem}] /\ item' \in [Threads -> Items \cup {NoItem}]
    /\ front' \in Nat /\ rear' \in Nat /\ mutex' \in Nat /\ slots' \in Nat /\ items' \in Nat
    /\ mutex' = mutex - Delta(LockedAt, from, to)
    /\ rear' - front' = (rear - front) + (items' - items)
                        + Delta(UnannouncedAt, from, to) + Delta(ItemTakenAt, from, to)
    /\ slots' - slots = 0 - Delta(SlotTakenAt, from, to) - Delta(UnreturnedAt, from, to)
                        - ((rear' - front') - (rear - front))

\* Such a step preserves the invariant.
LEMMA BalancedStep ==
    ASSUME IInv, NEW t \in Threads, NEW from, NEW to, Balanced(t, from, to)
    PROVE  IInv'
<1>t. TypeOK /\ MutexLedger /\ TicketLedger  BY DEF IInv
<1>n. CountsAreNat  BY LedgersAreNat
<1>p. CountsAreNat'  BY LedgersAreNat, PTL
<1>d. /\ Delta(LockedAt, from, to) \in Int /\ Delta(SlotTakenAt, from, to) \in Int
      /\ Delta(UnannouncedAt, from, to) \in Int /\ Delta(ItemTakenAt, from, to) \in Int
      /\ Delta(UnreturnedAt, from, to) \in Int
  BY DEF Delta
<1>1. /\ Cardinality(Locked') = Cardinality(Locked) + Delta(LockedAt, from, to)
      /\ Cardinality(SlotTaken') = Cardinality(SlotTaken) + Delta(SlotTakenAt, from, to)
      /\ Cardinality(Unannounced') = Cardinality(Unannounced) + Delta(UnannouncedAt, from, to)
      /\ Cardinality(ItemTaken') = Cardinality(ItemTaken) + Delta(ItemTakenAt, from, to)
      /\ Cardinality(Unreturned') = Cardinality(Unreturned) + Delta(UnreturnedAt, from, to)
  BY <1>t, MoveLedgers DEF Balanced
<1>b. /\ mutex' = mutex - Delta(LockedAt, from, to)
      /\ rear' - front' = (rear - front) + (items' - items)
                          + Delta(UnannouncedAt, from, to) + Delta(ItemTakenAt, from, to)
      /\ slots' - slots = 0 - Delta(SlotTakenAt, from, to) - Delta(UnreturnedAt, from, to)
                          - ((rear' - front') - (rear - front))
      /\ front' \in Nat /\ rear' \in Nat /\ mutex' \in Nat /\ slots' \in Nat /\ items' \in Nat
  BY DEF Balanced
<1>o. /\ front \in Nat /\ rear \in Nat /\ mutex \in Nat /\ slots \in Nat /\ items \in Nat
  BY <1>t, NAssumption DEF TypeOK
<1>2. MutexLedger'
  BY <1>t, <1>n, <1>d, <1>1, <1>b, <1>o DEF MutexLedger, CountsAreNat
<1>3. TicketLedger'
  BY <1>t, <1>n, <1>d, <1>1, <1>b, <1>o, NAssumption DEF TicketLedger, CountsAreNat
<1>4. mutex' \in {0, 1} /\ slots' \in 0 .. N /\ items' \in 0 .. N
  BY <1>2, <1>3, <1>p, <1>b, NAssumption DEF MutexLedger, TicketLedger, CountsAreNat
<1>5. /\ pc' \in [Threads -> InsertPoints \cup RemovePoints]
      /\ \A u \in Inserters : pc'[u] \in InsertPoints
      /\ \A u \in Removers : pc'[u] \in RemovePoints
  BY <1>t, ThreadsAssumption DEF Balanced, Goto, TypeOK, Threads
<1> QED  BY <1>2, <1>3, <1>4, <1>5 DEF IInv, TypeOK, Balanced

---------------------------------------------------------------------------
\* Every step of the program preserves the inductive invariant.
LEMMA StepIInv == IInv /\ [Next]_vars => IInv'
<1> SUFFICES ASSUME IInv, [Next]_vars PROVE IInv'  OBVIOUS
<1>t. TypeOK  BY DEF IInv
<1>1. ASSUME NEW t \in Inserters, NEW x \in Items, CallInsert(t, x) PROVE IInv'
  <2>1. t \in Threads /\ (t \in Inserters <=> TRUE)  BY ThreadsAssumption DEF Threads
  <2>2. /\ Delta(LockedAt, "idle", "waitSlot") = 0 /\ Delta(SlotTakenAt, "idle", "waitSlot") = 0
        /\ Delta(UnannouncedAt, "idle", "waitSlot") = 0 /\ Delta(ItemTakenAt, "idle", "waitSlot") = 0
        /\ Delta(UnreturnedAt, "idle", "waitSlot") = 0
    BY DEF Delta, LockedAt, SlotTakenAt, UnannouncedAt, ItemTakenAt, UnreturnedAt
  <2>3. Balanced(t, "idle", "waitSlot")
    BY <1>t, <1>1, <2>1, <2>2, NAssumption DEF CallInsert, Balanced, TypeOK, InsertPoints
  <2> QED  BY <2>1, <2>3, BalancedStep
<1>2. ASSUME NEW t \in Inserters, InsWaitSlot(t) PROVE IInv'
  <2>1. t \in Threads /\ (t \in Inserters <=> TRUE)  BY ThreadsAssumption DEF Threads
  <2>2. /\ Delta(LockedAt, "waitSlot", "insLock") = 0 /\ Delta(SlotTakenAt, "waitSlot", "insLock") = 1
        /\ Delta(UnannouncedAt, "waitSlot", "insLock") = 0 /\ Delta(ItemTakenAt, "waitSlot", "insLock") = 0
        /\ Delta(UnreturnedAt, "waitSlot", "insLock") = 0
    BY DEF Delta, LockedAt, SlotTakenAt, UnannouncedAt, ItemTakenAt, UnreturnedAt
  <2>3. Balanced(t, "waitSlot", "insLock")
    BY <1>t, <1>2, <2>1, <2>2, NAssumption DEF InsWaitSlot, Balanced, TypeOK, InsertPoints
  <2> QED  BY <2>1, <2>3, BalancedStep
<1>3. ASSUME NEW t \in Inserters, InsLock(t) PROVE IInv'
  <2>1. t \in Threads /\ (t \in Inserters <=> TRUE)  BY ThreadsAssumption DEF Threads
  <2>2. /\ Delta(LockedAt, "insLock", "insAdvance") = 1 /\ Delta(SlotTakenAt, "insLock", "insAdvance") = 0
        /\ Delta(UnannouncedAt, "insLock", "insAdvance") = 0 /\ Delta(ItemTakenAt, "insLock", "insAdvance") = 0
        /\ Delta(UnreturnedAt, "insLock", "insAdvance") = 0
    BY DEF Delta, LockedAt, SlotTakenAt, UnannouncedAt, ItemTakenAt, UnreturnedAt
  <2>3. Balanced(t, "insLock", "insAdvance")
    BY <1>t, <1>3, <2>1, <2>2, NAssumption DEF InsLock, Balanced, TypeOK, InsertPoints
  <2> QED  BY <2>1, <2>3, BalancedStep
<1>4. ASSUME NEW t \in Inserters, InsAdvance(t) PROVE IInv'
  <2>1. t \in Threads /\ (t \in Inserters <=> TRUE)  BY ThreadsAssumption DEF Threads
  <2>2. /\ Delta(LockedAt, "insAdvance", "store") = 0 /\ Delta(SlotTakenAt, "insAdvance", "store") = -1
        /\ Delta(UnannouncedAt, "insAdvance", "store") = 1 /\ Delta(ItemTakenAt, "insAdvance", "store") = 0
        /\ Delta(UnreturnedAt, "insAdvance", "store") = 0
    BY DEF Delta, LockedAt, SlotTakenAt, UnannouncedAt, ItemTakenAt, UnreturnedAt
  <2>3. Balanced(t, "insAdvance", "store")
    BY <1>t, <1>4, <2>1, <2>2, NAssumption DEF InsAdvance, Balanced, TypeOK, InsertPoints
  <2> QED  BY <2>1, <2>3, BalancedStep
<1>5. ASSUME NEW t \in Inserters, InsStore(t) PROVE IInv'
  <2>1. t \in Threads /\ (t \in Inserters <=> TRUE)  BY ThreadsAssumption DEF Threads
  <2>2. /\ Delta(LockedAt, "store", "insUnlock") = 0 /\ Delta(SlotTakenAt, "store", "insUnlock") = 0
        /\ Delta(UnannouncedAt, "store", "insUnlock") = 0 /\ Delta(ItemTakenAt, "store", "insUnlock") = 0
        /\ Delta(UnreturnedAt, "store", "insUnlock") = 0
    BY DEF Delta, LockedAt, SlotTakenAt, UnannouncedAt, ItemTakenAt, UnreturnedAt
  <2>3. Balanced(t, "store", "insUnlock")
    BY <1>t, <1>5, <2>1, <2>2, NAssumption DEF InsStore, Balanced, TypeOK, InsertPoints
  <2> QED  BY <2>1, <2>3, BalancedStep
<1>6. ASSUME NEW t \in Inserters, InsUnlock(t) PROVE IInv'
  <2>1. t \in Threads /\ (t \in Inserters <=> TRUE)  BY ThreadsAssumption DEF Threads
  <2>2. /\ Delta(LockedAt, "insUnlock", "announceItem") = -1 /\ Delta(SlotTakenAt, "insUnlock", "announceItem") = 0
        /\ Delta(UnannouncedAt, "insUnlock", "announceItem") = 0 /\ Delta(ItemTakenAt, "insUnlock", "announceItem") = 0
        /\ Delta(UnreturnedAt, "insUnlock", "announceItem") = 0
    BY DEF Delta, LockedAt, SlotTakenAt, UnannouncedAt, ItemTakenAt, UnreturnedAt
  <2>3. Balanced(t, "insUnlock", "announceItem")
    BY <1>t, <1>6, <2>1, <2>2, NAssumption DEF InsUnlock, Balanced, TypeOK, InsertPoints
  <2> QED  BY <2>1, <2>3, BalancedStep
<1>7. ASSUME NEW t \in Inserters, InsAnnounce(t) PROVE IInv'
  <2>1. t \in Threads /\ (t \in Inserters <=> TRUE)  BY ThreadsAssumption DEF Threads
  <2>2. /\ Delta(LockedAt, "announceItem", "idle") = 0 /\ Delta(SlotTakenAt, "announceItem", "idle") = 0
        /\ Delta(UnannouncedAt, "announceItem", "idle") = -1 /\ Delta(ItemTakenAt, "announceItem", "idle") = 0
        /\ Delta(UnreturnedAt, "announceItem", "idle") = 0
    BY DEF Delta, LockedAt, SlotTakenAt, UnannouncedAt, ItemTakenAt, UnreturnedAt
  <2>3. Balanced(t, "announceItem", "idle")
    BY <1>t, <1>7, <2>1, <2>2, NAssumption DEF InsAnnounce, Balanced, TypeOK, InsertPoints
  <2> QED  BY <2>1, <2>3, BalancedStep
<1>8. ASSUME NEW t \in Removers, CallRemove(t) PROVE IInv'
  <2>1. t \in Threads /\ (t \in Inserters <=> FALSE)  BY ThreadsAssumption DEF Threads
  <2>2. /\ Delta(LockedAt, "idle", "waitItem") = 0 /\ Delta(SlotTakenAt, "idle", "waitItem") = 0
        /\ Delta(UnannouncedAt, "idle", "waitItem") = 0 /\ Delta(ItemTakenAt, "idle", "waitItem") = 0
        /\ Delta(UnreturnedAt, "idle", "waitItem") = 0
    BY DEF Delta, LockedAt, SlotTakenAt, UnannouncedAt, ItemTakenAt, UnreturnedAt
  <2>3. Balanced(t, "idle", "waitItem")
    BY <1>t, <1>8, <2>1, <2>2, NAssumption DEF CallRemove, Balanced, TypeOK, RemovePoints
  <2> QED  BY <2>1, <2>3, BalancedStep
<1>9. ASSUME NEW t \in Removers, RemWaitItem(t) PROVE IInv'
  <2>1. t \in Threads /\ (t \in Inserters <=> FALSE)  BY ThreadsAssumption DEF Threads
  <2>2. /\ Delta(LockedAt, "waitItem", "remLock") = 0 /\ Delta(SlotTakenAt, "waitItem", "remLock") = 0
        /\ Delta(UnannouncedAt, "waitItem", "remLock") = 0 /\ Delta(ItemTakenAt, "waitItem", "remLock") = 1
        /\ Delta(UnreturnedAt, "waitItem", "remLock") = 0
    BY DEF Delta, LockedAt, SlotTakenAt, UnannouncedAt, ItemTakenAt, UnreturnedAt
  <2>3. Balanced(t, "waitItem", "remLock")
    BY <1>t, <1>9, <2>1, <2>2, NAssumption DEF RemWaitItem, Balanced, TypeOK, RemovePoints
  <2> QED  BY <2>1, <2>3, BalancedStep
<1>10. ASSUME NEW t \in Removers, RemLock(t) PROVE IInv'
  <2>1. t \in Threads /\ (t \in Inserters <=> FALSE)  BY ThreadsAssumption DEF Threads
  <2>2. /\ Delta(LockedAt, "remLock", "remAdvance") = 1 /\ Delta(SlotTakenAt, "remLock", "remAdvance") = 0
        /\ Delta(UnannouncedAt, "remLock", "remAdvance") = 0 /\ Delta(ItemTakenAt, "remLock", "remAdvance") = 0
        /\ Delta(UnreturnedAt, "remLock", "remAdvance") = 0
    BY DEF Delta, LockedAt, SlotTakenAt, UnannouncedAt, ItemTakenAt, UnreturnedAt
  <2>3. Balanced(t, "remLock", "remAdvance")
    BY <1>t, <1>10, <2>1, <2>2, NAssumption DEF RemLock, Balanced, TypeOK, RemovePoints
  <2> QED  BY <2>1, <2>3, BalancedStep
<1>11. ASSUME NEW t \in Removers, RemAdvance(t) PROVE IInv'
  <2>1. t \in Threads /\ (t \in Inserters <=> FALSE)  BY ThreadsAssumption DEF Threads
  <2>2. /\ Delta(LockedAt, "remAdvance", "load") = 0 /\ Delta(SlotTakenAt, "remAdvance", "load") = 0
        /\ Delta(UnannouncedAt, "remAdvance", "load") = 0 /\ Delta(ItemTakenAt, "remAdvance", "load") = -1
        /\ Delta(UnreturnedAt, "remAdvance", "load") = 1
    BY DEF Delta, LockedAt, SlotTakenAt, UnannouncedAt, ItemTakenAt, UnreturnedAt
  <2>3. Balanced(t, "remAdvance", "load")
    BY <1>t, <1>11, <2>1, <2>2, NAssumption DEF RemAdvance, Balanced, TypeOK, RemovePoints
  <2> QED  BY <2>1, <2>3, BalancedStep
<1>12. ASSUME NEW t \in Removers, RemLoad(t) PROVE IInv'
  <2>1. t \in Threads /\ (t \in Inserters <=> FALSE)  BY ThreadsAssumption DEF Threads
  <2>2. /\ Delta(LockedAt, "load", "remUnlock") = 0 /\ Delta(SlotTakenAt, "load", "remUnlock") = 0
        /\ Delta(UnannouncedAt, "load", "remUnlock") = 0 /\ Delta(ItemTakenAt, "load", "remUnlock") = 0
        /\ Delta(UnreturnedAt, "load", "remUnlock") = 0
    BY DEF Delta, LockedAt, SlotTakenAt, UnannouncedAt, ItemTakenAt, UnreturnedAt
  <2>3. Balanced(t, "load", "remUnlock")
    BY <1>t, <1>12, <2>1, <2>2, NAssumption DEF RemLoad, Balanced, TypeOK, RemovePoints
  <2> QED  BY <2>1, <2>3, BalancedStep
<1>13. ASSUME NEW t \in Removers, RemUnlock(t) PROVE IInv'
  <2>1. t \in Threads /\ (t \in Inserters <=> FALSE)  BY ThreadsAssumption DEF Threads
  <2>2. /\ Delta(LockedAt, "remUnlock", "announceSlot") = -1 /\ Delta(SlotTakenAt, "remUnlock", "announceSlot") = 0
        /\ Delta(UnannouncedAt, "remUnlock", "announceSlot") = 0 /\ Delta(ItemTakenAt, "remUnlock", "announceSlot") = 0
        /\ Delta(UnreturnedAt, "remUnlock", "announceSlot") = 0
    BY DEF Delta, LockedAt, SlotTakenAt, UnannouncedAt, ItemTakenAt, UnreturnedAt
  <2>3. Balanced(t, "remUnlock", "announceSlot")
    BY <1>t, <1>13, <2>1, <2>2, NAssumption DEF RemUnlock, Balanced, TypeOK, RemovePoints
  <2> QED  BY <2>1, <2>3, BalancedStep
<1>14. ASSUME NEW t \in Removers, RemAnnounce(t) PROVE IInv'
  <2>1. t \in Threads /\ (t \in Inserters <=> FALSE)  BY ThreadsAssumption DEF Threads
  <2>2. /\ Delta(LockedAt, "announceSlot", "idle") = 0 /\ Delta(SlotTakenAt, "announceSlot", "idle") = 0
        /\ Delta(UnannouncedAt, "announceSlot", "idle") = 0 /\ Delta(ItemTakenAt, "announceSlot", "idle") = 0
        /\ Delta(UnreturnedAt, "announceSlot", "idle") = -1
    BY DEF Delta, LockedAt, SlotTakenAt, UnannouncedAt, ItemTakenAt, UnreturnedAt
  <2>3. Balanced(t, "announceSlot", "idle")
    BY <1>t, <1>14, <2>1, <2>2, NAssumption DEF RemAnnounce, Balanced, TypeOK, RemovePoints
  <2> QED  BY <2>1, <2>3, BalancedStep
<1>15. ASSUME UNCHANGED vars PROVE IInv'
  <2>1. /\ Locked' = Locked /\ SlotTaken' = SlotTaken /\ Unannounced' = Unannounced
        /\ ItemTaken' = ItemTaken /\ Unreturned' = Unreturned
    BY <1>15 DEF vars, Locked, SlotTaken, Unannounced, ItemTaken, Unreturned, At
  <2> QED  BY <1>15, <2>1 DEF vars, IInv, TypeOK, MutexLedger, TicketLedger
<1> QED
  BY <1>1, <1>2, <1>3, <1>4, <1>5, <1>6, <1>7, <1>8, <1>9, <1>10, <1>11, <1>12, <1>13, <1>14, <1>15
  DEF Next, InsertStep, RemoveStep, Exhausted

---------------------------------------------------------------------------
\* The ledgers leave no room for an unsafe access: a thread about to store
\* or load is the only one inside, and rear - front is within 0 .. N.
LEMMA IInvSafe == IInv => SlotSafety
<1> SUFFICES ASSUME IInv PROVE SlotSafety  OBVIOUS
<1>t. TypeOK /\ MutexLedger /\ TicketLedger  BY DEF IInv
<1>n. CountsAreNat  BY LedgersAreNat
<1>1. 0 <= rear - front /\ rear - front <= N
  BY <1>t, <1>n, NAssumption DEF TypeOK, TicketLedger, CountsAreNat
<1>2. Cardinality(Locked) = 0 \/ Cardinality(Locked) = 1
  BY <1>t, <1>n DEF TypeOK, MutexLedger, CountsAreNat
<1>3. IsFiniteSet(Locked)  BY CountIsNat DEF Locked
<1>4. \A t, u \in Locked : t = u  BY <1>2, <1>3, FS_EmptySet, FS_Singleton
<1> QED  BY <1>t, <1>1, <1>4 DEF SlotSafety, TypeOK

\* The inductive invariant holds in every reachable state.
THEOREM Inductive == Spec => []IInv
BY InitIInv, StepIInv, PTL DEF Spec

\* Type correctness: in particular the semaphores never leave their range.
THEOREM TypeCorrect == Spec => []TypeOK
<1>1. IInv => TypeOK  BY DEF IInv
<1> QED  BY Inductive, <1>1, PTL

\* The mutex always equals one minus the number of threads in the buffer,
\* and the two counting semaphores account for every item and every slot.
THEOREM LedgersCorrect == Spec => []Ledgers
<1>1. IInv => Ledgers  BY DEF IInv, Ledgers
<1> QED  BY Inductive, <1>1, PTL

\* No store overwrites an item still queued, no load reads a slot not yet
\* stored, and no two threads are in the buffer together.
THEOREM SlotsSafe == Spec => []SlotSafety
BY Inductive, IInvSafe, PTL

---------------------------------------------------------------------------
(* Sbuf implements BoundedFifo.                                            *)
(*                                                                         *)
(* An insert takes effect at its store and a remove at its load; calls and *)
(* returns are the abstract ones; every other step leaves the abstract     *)
(* queue and calls as they are.  Beside the ledgers this needs that a      *)
(* store does not touch the items that are queued, because indices less    *)
(* than N apart differ modulo N, and that an idle thread holds no item.    *)

IdleHoldsNothing == \A t \in Threads : pc[t] = "idle" => item[t] = NoItem

RInv == IInv /\ IdleHoldsNothing

Stored == Items \cup {NoItem}

\* The abstract calls.
Calls == [t \in Threads |-> [phase |-> Phase(pc[t]), item |-> item[t]]]

---------------------------------------------------------------------------
(* Arithmetic *)

\* Division with remainder.
LEMMA Euclid ==
    ASSUME NEW a \in Int, NEW n \in Nat \ {0}
    PROVE  a = n * (a \div n) + (a % n) /\ a % n \in 0 .. n - 1 /\ a \div n \in Int
OBVIOUS

\* Indices less than n apart differ modulo n.
LEMMA ModDistinct ==
    ASSUME NEW a \in Int, NEW b \in Int, NEW n \in Nat \ {0}, a < b, b - a < n
    PROVE  a % n # b % n
<1>1. SUFFICES ASSUME a % n = b % n PROVE FALSE
  OBVIOUS
<1> DEFINE p == a \div n
           q == b \div n
<1>2. a = n * p + (a % n) /\ b = n * q + (b % n) /\ p \in Int /\ q \in Int  BY Euclid
<1> HIDE DEF p, q
<1>3. b - a = n * (q - p)
  <2>1. b - a = n * q - n * p  BY <1>1, <1>2
  <2> QED  BY <1>2, <2>1
<1>4. q - p >= 1 \/ q - p <= 0  BY <1>2
<1>5. CASE q - p >= 1
  <2>1. n * (q - p) >= n  BY <1>2, <1>5
  <2> QED  BY <1>3, <2>1
<1>6. CASE q - p <= 0
  <2>1. n * (q - p) <= 0  BY <1>2, <1>6
  <2> QED  BY <1>3, <2>1
<1> QED  BY <1>4, <1>5, <1>6

---------------------------------------------------------------------------
(* The abstract state *)

\* The queue is a sequence of items, of as many as lie between the ends.
LEMMA ContentsTyped ==
    ASSUME IInv
    PROVE  /\ Oldest \in Int /\ Newest \in Int /\ Newest - Oldest \in Nat
           /\ Contents \in Seq(Stored) /\ Len(Contents) = Newest - Oldest
           /\ \A i \in 1 .. Newest - Oldest : Contents[i] = buf[(Oldest + i) % N]
<1>1. /\ front \in Nat /\ rear \in Nat /\ items \in Nat /\ N \in Nat \ {0}
      /\ buf \in [0 .. N - 1 -> Stored]
  BY NAssumption DEF IInv, TypeOK, Stored
<1>2. rear - front >= 0 /\ (At({"store"}) # {} => rear - front >= 1)
  <2>1. Cardinality(Unannounced) \in Nat /\ Cardinality(ItemTaken) \in Nat
    BY LedgersAreNat DEF CountsAreNat
  <2>2. rear - front = items + Cardinality(Unannounced) + Cardinality(ItemTaken)
    BY DEF IInv, TicketLedger
  <2>3. ASSUME At({"store"}) # {} PROVE Cardinality(Unannounced) > 0
    <3>1. PICK t : t \in At({"store"})  BY <2>3
    <3>2. t \in Unannounced  BY <3>1 DEF At, Unannounced
    <3> QED  BY <3>2, CountIsNat DEF Unannounced
  <2> QED  BY <1>1, <2>1, <2>2, <2>3
<1>3. Oldest \in Int /\ Newest \in Int /\ Newest - Oldest \in Nat
  BY <1>1, <1>2 DEF Oldest, Newest
<1> DEFINE n == Newest - Oldest
<1>4. \A i \in 1 .. n : buf[(Oldest + i) % N] \in Stored
  <2>1. \A a \in Int : a % N \in 0 .. N - 1  BY <1>1, Euclid
  <2>2. \A i \in 1 .. n : Oldest + i \in Int  BY <1>3
  <2> QED  BY <1>1, <2>1, <2>2
<1>5. Contents = [i \in 1 .. n |-> buf[(Oldest + i) % N]]  BY DEF Contents
<1> HIDE DEF n
<1>6. n \in Nat  BY <1>3 DEF n
<1>7. Contents \in [1 .. n -> Stored]  BY <1>4, <1>5
<1>8. Contents \in Seq(Stored) /\ Len(Contents) = n  BY <1>6, <1>7
<1> QED  BY <1>3, <1>5, <1>8 DEF n

\* The step changes no item but that of t.
OnlyItemOf(t) == \A u \in Threads : u # t => item'[u] = item[u]

\* Setting the item of t leaves the other threads' items.
LEMMA ItemSet ==
    ASSUME TypeOK, NEW t \in Threads, NEW x, item' = [item EXCEPT ![t] = x]
    PROVE  OnlyItemOf(t) /\ item'[t] = x
BY DEF TypeOK, OnlyItemOf

\* A step of one thread that changes no other's item changes its abstract call only.
LEMMA CallSet ==
    ASSUME TypeOK, NEW t \in Threads, NEW from, NEW to, Goto(t, from, to), OnlyItemOf(t)
    PROVE  /\ Calls[t] = [phase |-> Phase(from), item |-> item[t]]
           /\ Calls' = [Calls EXCEPT ![t] = [phase |-> Phase(to), item |-> item'[t]]]
<1>1. /\ pc[t] = from /\ \A u \in Threads : pc'[u] = IF u = t THEN to ELSE pc[u]
  BY DEF Goto, TypeOK
<1>2. Calls' = [u \in Threads |-> [phase |-> Phase(pc'[u]), item |-> item'[u]]]
  BY DEF Calls, Phase
<1>3. \A u \in Threads : [phase |-> Phase(pc'[u]), item |-> item'[u]] =
           IF u = t THEN [phase |-> Phase(to), item |-> item'[t]] ELSE Calls[u]
  BY <1>1 DEF Calls, OnlyItemOf
<1>4. Calls' = [Calls EXCEPT ![t] = [phase |-> Phase(to), item |-> item'[t]]]
  BY <1>2, <1>3 DEF Calls
<1> QED  BY <1>1, <1>4 DEF Calls

\* The same of a step that keeps the item.
LEMMA CallMoved ==
    ASSUME TypeOK, NEW t \in Threads, NEW from, NEW to, Goto(t, from, to), UNCHANGED item
    PROVE  /\ Calls[t] = [phase |-> Phase(from), item |-> item[t]]
           /\ Calls' = [Calls EXCEPT ![t] = [phase |-> Phase(to), item |-> item[t]]]
<1>1. OnlyItemOf(t) /\ item'[t] = item[t]  BY DEF OnlyItemOf
<1> QED  BY <1>1, CallSet

\* A step within a phase that keeps the item leaves the abstract calls.
LEMMA CallsKept ==
    ASSUME TypeOK, NEW t \in Threads, NEW from, NEW to, Goto(t, from, to), UNCHANGED item,
           Phase(to) = Phase(from)
    PROVE  Calls' = Calls
<1>1. \A u \in Threads : pc'[u] = IF u = t THEN to ELSE pc[u]  BY DEF Goto, TypeOK
<1>2. pc[t] = from  BY DEF Goto
<1>3. Calls' = [u \in Threads |-> [phase |-> Phase(pc'[u]), item |-> item'[u]]]
  BY DEF Calls, Phase
<1>4. \A u \in Threads : Phase(pc'[u]) = Phase(pc[u])  BY <1>1, <1>2
<1> QED  BY <1>3, <1>4 DEF Calls

\* Who is at the store, or at the load, is there alone.
LEMMA AloneInside ==
    ASSUME IInv, NEW t \in Threads, pc[t] \in {"store", "load"}
    PROVE  /\ pc[t] = "store" => At({"store"}) = {t} /\ At({"load"}) = {}
           /\ pc[t] = "load" => At({"load"}) = {t} /\ At({"store"}) = {}
BY IInvSafe DEF SlotSafety, Locked, At

---------------------------------------------------------------------------
(* The steps *)

\* A step that neither stores nor loads leaves the queue as it is.
LEMMA QueueStays ==
    ASSUME IInv, UNCHANGED buf, Oldest' = Oldest, Newest' = Newest
    PROVE  Contents' = Contents
BY DEF Contents

\* Steps that do not concern the ends of the buffer leave them.
LEMMA EndsStay ==
    ASSUME TypeOK, NEW t \in Threads, NEW from, NEW to, Goto(t, from, to),
           from \notin {"store", "load"}, to \notin {"store", "load"}, UNCHANGED <<front, rear>>
    PROVE  Oldest' = Oldest /\ Newest' = Newest
<1>1. /\ pc[t] = from /\ \A u \in Threads : pc'[u] = IF u = t THEN to ELSE pc[u]
  BY DEF Goto, TypeOK
<1>2. At({"store"})' = At({"store"}) /\ At({"load"})' = At({"load"})  BY <1>1 DEF At
<1> QED  BY <1>2 DEF Oldest, Newest

\* Waiting, locking and unlocking are invisible.
LEMMA InvisibleStep ==
    ASSUME IInv, NEW t \in Threads, NEW from, NEW to, Goto(t, from, to),
           from \notin {"store", "load"}, to \notin {"store", "load"}, Phase(to) = Phase(from),
           UNCHANGED <<buf, front, rear, item>>
    PROVE  UNCHANGED <<Contents, Calls>>
BY EndsStay, QueueStays, CallsKept DEF IInv

\* The index moves on before the buffer is touched, and that is invisible too.
LEMMA AdvanceInvisible ==
    ASSUME IInv, NEW t \in Threads, InsAdvance(t) \/ RemAdvance(t)
    PROVE  UNCHANGED <<Contents, Calls>>
<1>1. TypeOK /\ front \in Nat /\ rear \in Nat  BY DEF IInv, TypeOK
<1>2. At({"store"}) = {} /\ At({"load"}) = {}
  BY IInvSafe DEF InsAdvance, RemAdvance, Goto, SlotSafety, Locked, At
<1>3. CASE InsAdvance(t)
  <2>1. /\ Goto(t, "insAdvance", "store") /\ UNCHANGED <<buf, front, item>> /\ rear' = rear + 1
    BY <1>3 DEF InsAdvance
  <2>2. \A u \in Threads : pc'[u] = IF u = t THEN "store" ELSE pc[u]
    BY <1>1, <2>1 DEF Goto, TypeOK
  <2>3. At({"store"})' = {t} /\ At({"load"})' = {}  BY <1>2, <2>2 DEF At
  <2>4. Oldest' = Oldest /\ Newest' = Newest  BY <1>1, <1>2, <2>1, <2>3 DEF Oldest, Newest
  <2>5. Phase("store") = Phase("insAdvance")  BY DEF Phase
  <2> QED  BY <1>1, <2>1, <2>4, <2>5, QueueStays, CallsKept
<1>4. CASE RemAdvance(t)
  <2>1. /\ Goto(t, "remAdvance", "load") /\ UNCHANGED <<buf, rear, item>> /\ front' = front + 1
    BY <1>4 DEF RemAdvance
  <2>2. \A u \in Threads : pc'[u] = IF u = t THEN "load" ELSE pc[u]
    BY <1>1, <2>1 DEF Goto, TypeOK
  <2>3. At({"load"})' = {t} /\ At({"store"})' = {}  BY <1>2, <2>2 DEF At
  <2>4. Oldest' = Oldest /\ Newest' = Newest  BY <1>1, <1>2, <2>1, <2>3 DEF Oldest, Newest
  <2>5. Phase("load") = Phase("remAdvance")  BY DEF Phase
  <2> QED  BY <1>1, <2>1, <2>4, <2>5, QueueStays, CallsKept
<1> QED  BY <1>3, <1>4

\* The store appends to the queue.
LEMMA StoreAppends ==
    ASSUME IInv, IInv', NEW t \in Inserters, InsStore(t)
    PROVE  /\ Len(Contents) < N /\ Contents' = Append(Contents, item[t])
           /\ Calls[t] = [phase |-> "pending", item |-> item[t]]
           /\ Calls' = [Calls EXCEPT ![t] = [phase |-> "done", item |-> item[t]]]
<1>1. /\ TypeOK /\ t \in Threads /\ front \in Nat /\ rear \in Nat /\ N \in Nat \ {0}
      /\ buf \in [0 .. N - 1 -> Stored] /\ item[t] \in Stored
  BY NAssumption DEF IInv, TypeOK, Threads, Stored
<1>2. /\ Goto(t, "store", "insUnlock") /\ UNCHANGED <<front, rear, item>> /\ pc[t] = "store"
      /\ buf' = [buf EXCEPT ![rear % N] = item[t]]
  BY DEF InsStore, Goto
<1>3. At({"store"}) = {t} /\ At({"load"}) = {}  BY <1>1, <1>2, AloneInside
<1>4. \A u \in Threads : pc'[u] = IF u = t THEN "insUnlock" ELSE pc[u]
  BY <1>1, <1>2 DEF Goto, TypeOK
<1>5. At({"store"})' = {} /\ At({"load"})' = {}  BY <1>3, <1>4 DEF At
<1>6. Oldest = front /\ Newest = rear - 1 /\ Oldest' = front /\ Newest' = rear
  BY <1>2, <1>3, <1>5 DEF Oldest, Newest
<1>7. rear - front <= N  BY <1>1, <1>2, IInvSafe DEF SlotSafety
<1> DEFINE n == rear - 1 - front
<1>8. /\ n \in Nat /\ Contents \in Seq(Stored) /\ Len(Contents) = n
      /\ \A i \in 1 .. n : Contents[i] = buf[(front + i) % N]
  BY <1>6, ContentsTyped
<1>9. /\ Contents' \in Seq(Stored) /\ Len(Contents') = n + 1
      /\ \A i \in 1 .. n + 1 : Contents'[i] = buf'[(front + i) % N]
  <2>1. /\ Contents' = [i \in 1 .. Newest' - Oldest' |-> buf'[(Oldest' + i) % N]]
    BY DEF Contents
  <2>2. Newest' - Oldest' = n + 1  BY <1>1, <1>6
  <2>3. buf' \in [0 .. N - 1 -> Stored]  BY DEF IInv, TypeOK, Stored
  <2>4. \A i \in 1 .. n + 1 : buf'[(front + i) % N] \in Stored
    <3>1. \A a \in Int : a % N \in 0 .. N - 1  BY <1>1, Euclid
    <3>2. \A i \in 1 .. n + 1 : front + i \in Int  BY <1>1
    <3> QED  BY <2>3, <3>1, <3>2
  <2> HIDE DEF n
  <2>5. Contents' = [i \in 1 .. n + 1 |-> buf'[(front + i) % N]]  BY <1>6, <2>1, <2>2
  <2>6. n + 1 \in Nat  BY <1>8
  <2>7. Contents' \in [1 .. n + 1 -> Stored]  BY <2>4, <2>5
  <2> QED  BY <2>5, <2>6, <2>7
<1>10. \A i \in 1 .. n : buf'[(front + i) % N] = buf[(front + i) % N]
  <2>1. SUFFICES ASSUME NEW i \in 1 .. n PROVE buf'[(front + i) % N] = buf[(front + i) % N]
    OBVIOUS
  <2> DEFINE a == front + i
  <2>2. a \in Int /\ a < rear /\ rear - a < N /\ rear \in Int  BY <1>1, <1>7
  <2> HIDE DEF a
  <2>3. a % N # rear % N  BY <1>1, <2>2, ModDistinct
  <2>4. a % N \in 0 .. N - 1  BY <1>1, <2>2, Euclid
  <2>5. buf'[a % N] = buf[a % N]  BY <1>1, <1>2, <2>3, <2>4
  <2> QED  BY <2>5 DEF a
<1>11. buf'[(front + (n + 1)) % N] = item[t]
  <2>1. front + (n + 1) = rear  BY <1>1
  <2>2. rear % N \in 0 .. N - 1  BY <1>1, Euclid
  <2> QED  BY <1>1, <1>2, <2>1, <2>2
<1>12. n < N  BY <1>1, <1>7
<1> HIDE DEF n
<1>13. Contents' = Append(Contents, item[t])
  <2> DEFINE app == Append(Contents, item[t])
  <2>1. /\ app \in Seq(Stored) /\ Len(app) = n + 1 /\ app[n + 1] = item[t]
        /\ \A i \in 1 .. n : app[i] = Contents[i]
    BY <1>1, <1>8, AppendProperties
  <2> HIDE DEF app
  <2>2. \A i \in 1 .. n + 1 : i \in 1 .. n \/ i = n + 1  BY <1>8
  <2>3. \A i \in 1 .. n + 1 : Contents'[i] = app[i]
    BY <1>8, <1>9, <1>10, <1>11, <2>1, <2>2
  <2>4. Contents' = app  BY <1>9, <2>1, <2>3, SeqEqual
  <2> QED  BY <2>4 DEF app
<1>14. Phase("store") = "pending" /\ Phase("insUnlock") = "done"  BY DEF Phase
<1>15. Calls[t] = [phase |-> Phase("store"), item |-> item[t]]
       /\ Calls' = [Calls EXCEPT ![t] = [phase |-> Phase("insUnlock"), item |-> item[t]]]
  BY <1>1, <1>2, CallMoved
<1> QED  BY <1>8, <1>12, <1>13, <1>14, <1>15

\* The load takes the head of the queue.
LEMMA LoadTakesHead ==
    ASSUME IInv, IInv', NEW t \in Removers, RemLoad(t)
    PROVE  /\ Contents # <<>> /\ Contents' = Tail(Contents)
           /\ Calls[t] = [phase |-> "pending", item |-> item[t]]
           /\ Calls' = [Calls EXCEPT ![t] = [phase |-> "done", item |-> Head(Contents)]]
<1>1. /\ TypeOK /\ t \in Threads /\ front \in Nat /\ rear \in Nat /\ N \in Nat \ {0}
  BY NAssumption DEF IInv, TypeOK, Threads
<1>2. /\ Goto(t, "load", "remUnlock") /\ UNCHANGED <<buf, front, rear>> /\ pc[t] = "load"
      /\ item' = [item EXCEPT ![t] = buf[front % N]]
  BY DEF RemLoad, Goto
<1>3. At({"load"}) = {t} /\ At({"store"}) = {}  BY <1>1, <1>2, AloneInside
<1>4. \A u \in Threads : pc'[u] = IF u = t THEN "remUnlock" ELSE pc[u]
  BY <1>1, <1>2 DEF Goto, TypeOK
<1>5. At({"store"})' = {} /\ At({"load"})' = {}  BY <1>3, <1>4 DEF At
<1>6. Oldest = front - 1 /\ Newest = rear /\ Oldest' = front /\ Newest' = rear
  BY <1>2, <1>3, <1>5 DEF Oldest, Newest
<1>7. front <= rear  BY <1>1, <1>2, IInvSafe DEF SlotSafety
<1> DEFINE n == rear - front
<1>8. n \in Nat /\ rear - (front - 1) = n + 1  BY <1>1, <1>7
<1>9. /\ Contents \in Seq(Stored) /\ Len(Contents) = n + 1
      /\ \A i \in 1 .. n + 1 : Contents[i] = buf[((front - 1) + i) % N]
  BY <1>6, <1>8, ContentsTyped
<1>10. Contents' = [i \in 1 .. n |-> buf[(front + i) % N]]
  BY <1>2, <1>6 DEF Contents
<1>11. \A i \in 1 .. n : (front - 1) + (i + 1) = front + i /\ i + 1 \in 1 .. n + 1
  BY <1>1
<1>12. (front - 1) + 1 = front  BY <1>1
<1> HIDE DEF n
<1>13. Contents # <<>> /\ 1 \in 1 .. n + 1 /\ n + 1 \in Nat /\ (n + 1) - 1 = n
  BY <1>8, <1>9, EmptySeq
<1>14. Head(Contents) = buf[front % N]
  <2>1. Head(Contents) = Contents[1]  BY <1>9, <1>13
  <2> QED  BY <1>9, <1>12, <1>13, <2>1
<1>15. Contents' = Tail(Contents)
  <2> DEFINE rest == Tail(Contents)
  <2>1. /\ rest \in Seq(Stored) /\ Len(rest) = n
        /\ \A i \in 1 .. n : rest[i] = Contents[i + 1]
    BY <1>9, <1>13, HeadTailProperties
  <2> HIDE DEF rest
  <2>2. \A i \in 1 .. n : buf[(front + i) % N] = rest[i]
    BY <1>9, <1>11, <2>1
  <2>3. \A i \in 1 .. n : rest[i] \in Stored  BY <2>1, ElementOfSeq
  <2>4. Contents' \in [1 .. n -> Stored]  BY <1>10, <2>2, <2>3
  <2>5. Contents' \in Seq(Stored) /\ Len(Contents') = n  BY <1>8, <1>10, <2>4
  <2>6. \A i \in 1 .. n : Contents'[i] = rest[i]  BY <1>10, <2>2
  <2>7. Contents' = rest  BY <2>1, <2>5, <2>6, SeqEqual
  <2> QED  BY <2>7 DEF rest
<1>16. Phase("load") = "pending" /\ Phase("remUnlock") = "done"  BY DEF Phase
<1>17. Calls[t] = [phase |-> Phase("load"), item |-> item[t]]
       /\ Calls' = [Calls EXCEPT ![t] = [phase |-> Phase("remUnlock"), item |-> buf[front % N]]]
  <2>1. OnlyItemOf(t) /\ item'[t] = buf[front % N]  BY <1>1, <1>2, ItemSet
  <2>2. /\ Calls[t] = [phase |-> Phase("load"), item |-> item[t]]
        /\ Calls' = [Calls EXCEPT ![t] = [phase |-> Phase("remUnlock"), item |-> item'[t]]]
    BY <1>1, <1>2, <2>1, CallSet
  <2> QED  BY <2>1, <2>2
<1> QED  BY <1>13, <1>14, <1>15, <1>16, <1>17

---------------------------------------------------------------------------
(* The invariant *)

\* A thread comes to rest only when it has let go of its item.
LEMMA IdleKept == RInv /\ [Next]_vars => RInv'
<1> SUFFICES ASSUME RInv, [Next]_vars PROVE RInv'  OBVIOUS
<1>1. IInv'  BY StepIInv DEF RInv
<1>2. /\ pc \in [Threads -> InsertPoints \cup RemovePoints] /\ item \in [Threads -> Stored]
      /\ Inserters \subseteq Threads /\ Removers \subseteq Threads
  BY DEF RInv, IInv, TypeOK, Stored, Threads
<1>3. ASSUME NEW t \in Threads, NEW from, NEW to, Goto(t, from, to), to # "idle",
             \A u \in Threads : u # t => item'[u] = item[u]
      PROVE  IdleHoldsNothing'
  BY <1>2, <1>3 DEF Goto, RInv, IdleHoldsNothing
<1>4. ASSUME NEW t \in Threads, NEW from, Goto(t, from, "idle"), item' = [item EXCEPT ![t] = NoItem]
      PROVE  IdleHoldsNothing'
  BY <1>2, <1>4 DEF Goto, RInv, IdleHoldsNothing
<1>5. ASSUME NEW t \in Inserters, NEW x \in Items, CallInsert(t, x) PROVE IdleHoldsNothing'
  <2>1. Goto(t, "idle", "waitSlot") /\ \A u \in Threads : u # t => item'[u] = item[u]
    BY <1>2, <1>5 DEF CallInsert
  <2> QED  BY <1>2, <1>3, <2>1
<1>6. ASSUME NEW t \in Inserters, InsertStep(t) PROVE IdleHoldsNothing'
  <2>1. CASE InsAnnounce(t)  BY <1>2, <1>4, <2>1 DEF InsAnnounce
  <2>2. CASE ~ InsAnnounce(t)
    <3>1. UNCHANGED item /\ \E from, to : Goto(t, from, to) /\ to # "idle"
      BY <1>6, <2>2 DEF InsertStep, InsWaitSlot, InsLock, InsAdvance, InsStore, InsUnlock
    <3> QED  BY <1>2, <1>3, <3>1
  <2> QED  BY <2>1, <2>2
<1>7. ASSUME NEW t \in Removers, RemoveStep(t) PROVE IdleHoldsNothing'
  <2>1. CASE RemAnnounce(t)  BY <1>2, <1>4, <2>1 DEF RemAnnounce
  <2>2. CASE RemLoad(t)
    <3>1. Goto(t, "load", "remUnlock") /\ \A u \in Threads : u # t => item'[u] = item[u]
      BY <1>2, <2>2 DEF RemLoad
    <3> QED  BY <1>2, <1>3, <3>1
  <2>3. CASE ~ RemAnnounce(t) /\ ~ RemLoad(t)
    <3>1. UNCHANGED item /\ \E from, to : Goto(t, from, to) /\ to # "idle"
      BY <1>7, <2>3 DEF RemoveStep, CallRemove, RemWaitItem, RemLock, RemAdvance, RemUnlock
    <3> QED  BY <1>2, <1>3, <3>1
  <2> QED  BY <2>1, <2>2, <2>3
<1>8. ASSUME UNCHANGED vars PROVE IdleHoldsNothing'
  <2>1. pc' = pc /\ item' = item  BY <1>8 DEF vars
  <2> QED  BY <2>1 DEF RInv, IdleHoldsNothing
<1>9. CASE \E t \in Inserters : (\E x \in Items : CallInsert(t, x)) \/ InsertStep(t)
  BY <1>1, <1>5, <1>6, <1>9 DEF RInv
<1>10. CASE \E t \in Removers : RemoveStep(t)  BY <1>1, <1>7, <1>10 DEF RInv
<1>11. CASE UNCHANGED vars  BY <1>1, <1>8, <1>11 DEF RInv
<1> QED  BY <1>9, <1>10, <1>11 DEF Next, Exhausted

---------------------------------------------------------------------------
(* The refinement *)

\* No call has been made and nothing is queued.
LEMMA InitRefines == Init => RInv /\ Fifo!Init
<1> SUFFICES ASSUME Init PROVE RInv /\ Fifo!Init  OBVIOUS
<1>1. IInv  BY InitIInv
<1>2. IdleHoldsNothing  BY DEF Init, IdleHoldsNothing
<1>3. At({"store"}) = {} /\ At({"load"}) = {}  BY DEF Init, At
<1>4. Contents = <<>>
  <2>1. Newest - Oldest = 0  BY <1>3 DEF Init, Newest, Oldest
  <2>2. Contents \in Seq(Stored) /\ Len(Contents) = 0  BY <1>1, <2>1, ContentsTyped
  <2> QED  BY <2>2, EmptySeq
<1>5. Calls = [t \in Inserters \cup Removers |-> [phase |-> "idle", item |-> NoItem]]
  BY DEF Init, Calls, Phase, Threads
<1> QED  BY <1>1, <1>2, <1>4, <1>5 DEF RInv, Fifo!Init, Fifo!Idle, Calls

\* Every step is a step of the FIFO or leaves it as it is.
LEMMA StepRefines ==
    ASSUME RInv, RInv', [Next]_vars
    PROVE  Fifo!Next \/ UNCHANGED <<Contents, Calls>>
<1>1. TypeOK /\ IInv /\ IInv' /\ Inserters \subseteq Threads /\ Removers \subseteq Threads
  BY DEF RInv, IInv, Threads
<1>2. \A t \in Threads : pc[t] = "idle" => item[t] = NoItem  BY DEF RInv, IdleHoldsNothing
<1>3. ASSUME NEW t \in Inserters, NEW x \in Items, CallInsert(t, x) PROVE Fifo!InvokeInsert(t, x)
  <2>1. /\ Goto(t, "idle", "waitSlot") /\ item' = [item EXCEPT ![t] = x] /\ pc[t] = "idle"
        /\ UNCHANGED <<buf, front, rear>>
    BY <1>3 DEF CallInsert, Goto
  <2>2. Contents' = Contents  BY <1>1, <2>1, EndsStay, QueueStays
  <2>3. Phase("idle") = "idle" /\ Phase("waitSlot") = "pending"  BY DEF Phase
  <2>4. OnlyItemOf(t) /\ item'[t] = x  BY <1>1, <2>1, ItemSet
  <2>5. /\ Calls[t] = [phase |-> Phase("idle"), item |-> item[t]]
        /\ Calls' = [Calls EXCEPT ![t] = [phase |-> Phase("waitSlot"), item |-> item'[t]]]
    BY <1>1, <2>1, <2>4, CallSet
  <2>6. item[t] = NoItem  BY <1>1, <1>2, <2>1
  <2> QED  BY <2>2, <2>3, <2>5, <2>4, <2>6 DEF Fifo!InvokeInsert, Fifo!Idle, Calls
<1>4. ASSUME NEW t \in Inserters, InsStore(t) PROVE Fifo!Insert(t)
  <2>1. /\ Len(Contents) < N /\ Contents' = Append(Contents, item[t])
        /\ Calls[t] = [phase |-> "pending", item |-> item[t]]
        /\ Calls' = [Calls EXCEPT ![t] = [phase |-> "done", item |-> item[t]]]
    BY <1>1, <1>4, StoreAppends
  <2>2. Calls[t].phase = "pending" /\ Calls[t].item = item[t]  BY <2>1
  <2>3. [Calls[t] EXCEPT !.phase = "done"] = [phase |-> "done", item |-> item[t]]  BY <2>1
  <2>4. Calls' = [Calls EXCEPT ![t].phase = "done"]  BY <2>1, <2>3
  <2> QED  BY <2>1, <2>2, <2>4 DEF Fifo!Insert, Calls
<1>5. ASSUME NEW t \in Removers, CallRemove(t) PROVE Fifo!InvokeRemove(t)
  <2>1. /\ Goto(t, "idle", "waitItem") /\ item' = item /\ pc[t] = "idle"
        /\ UNCHANGED <<buf, front, rear>>
    BY <1>5 DEF CallRemove, Goto
  <2>2. Contents' = Contents  BY <1>1, <2>1, EndsStay, QueueStays
  <2>3. Phase("idle") = "idle" /\ Phase("waitItem") = "pending"  BY DEF Phase
  <2>4. /\ Calls[t] = [phase |-> Phase("idle"), item |-> item[t]]
        /\ Calls' = [Calls EXCEPT ![t] = [phase |-> Phase("waitItem"), item |-> item[t]]]
    BY <1>1, <2>1, CallMoved
  <2>5. item[t] = NoItem  BY <1>1, <1>2, <2>1
  <2>6. Calls[t] = Fifo!Idle  BY <2>3, <2>4, <2>5 DEF Fifo!Idle
  <2>7. [Calls[t] EXCEPT !.phase = "pending"] = [phase |-> "pending", item |-> item[t]]
    BY <2>3, <2>4
  <2>8. Calls' = [Calls EXCEPT ![t].phase = "pending"]  BY <2>3, <2>4, <2>7
  <2> QED  BY <2>2, <2>6, <2>8 DEF Fifo!InvokeRemove, Calls
<1>6. ASSUME NEW t \in Removers, RemLoad(t) PROVE Fifo!Remove(t)
  <2>1. /\ Contents # <<>> /\ Contents' = Tail(Contents)
        /\ Calls[t] = [phase |-> "pending", item |-> item[t]]
        /\ Calls' = [Calls EXCEPT ![t] = [phase |-> "done", item |-> Head(Contents)]]
    BY <1>1, <1>6, LoadTakesHead
  <2>2. Calls[t].phase = "pending"  BY <2>1
  <2> QED  BY <2>1, <2>2 DEF Fifo!Remove, Calls
<1>7. ASSUME NEW t \in Threads, InsAnnounce(t) \/ RemAnnounce(t) PROVE Fifo!Return(t)
  <2>1. PICK from \in {"announceItem", "announceSlot"} : Goto(t, from, "idle")
    BY <1>7 DEF InsAnnounce, RemAnnounce
  <2>2. item' = [item EXCEPT ![t] = NoItem] /\ UNCHANGED <<buf, front, rear>>
    BY <1>7 DEF InsAnnounce, RemAnnounce
  <2>3. Contents' = Contents  BY <1>1, <2>1, <2>2, EndsStay, QueueStays
  <2>4. Phase(from) = "done" /\ Phase("idle") = "idle"  BY DEF Phase
  <2>5. OnlyItemOf(t) /\ item'[t] = NoItem  BY <1>1, <2>2, ItemSet
  <2>6. Calls[t] = [phase |-> Phase(from), item |-> item[t]]
        /\ Calls' = [Calls EXCEPT ![t] = [phase |-> Phase("idle"), item |-> item'[t]]]
    BY <1>1, <2>1, <2>5, CallSet
  <2>7. Calls[t].phase = "done"  BY <2>4, <2>6
  <2>8. [phase |-> Phase("idle"), item |-> item'[t]] = Fifo!Idle  BY <2>4, <2>5 DEF Fifo!Idle
  <2>9. Calls' = [Calls EXCEPT ![t] = Fifo!Idle]  BY <2>6, <2>8
  <2> QED  BY <2>3, <2>7, <2>9 DEF Fifo!Return, Calls
<1>8. ASSUME NEW t \in Inserters, InsWaitSlot(t) \/ InsLock(t) \/ InsUnlock(t)
      PROVE  UNCHANGED <<Contents, Calls>>
  <2>1. \E from, to : /\ Goto(t, from, to) /\ from \notin {"store", "load"} /\ to \notin {"store", "load"}
                      /\ Phase(to) = Phase(from)
    BY <1>8 DEF InsWaitSlot, InsLock, InsUnlock, Phase
  <2>2. UNCHANGED <<buf, front, rear, item>>  BY <1>8 DEF InsWaitSlot, InsLock, InsUnlock
  <2> QED  BY <1>1, <2>1, <2>2, InvisibleStep
<1>9. ASSUME NEW t \in Removers, RemWaitItem(t) \/ RemLock(t) \/ RemUnlock(t)
      PROVE  UNCHANGED <<Contents, Calls>>
  <2>1. \E from, to : /\ Goto(t, from, to) /\ from \notin {"store", "load"} /\ to \notin {"store", "load"}
                      /\ Phase(to) = Phase(from)
    BY <1>9 DEF RemWaitItem, RemLock, RemUnlock, Phase
  <2>2. UNCHANGED <<buf, front, rear, item>>  BY <1>9 DEF RemWaitItem, RemLock, RemUnlock
  <2> QED  BY <1>1, <2>1, <2>2, InvisibleStep
<1>10. ASSUME NEW t \in Threads, InsAdvance(t) \/ RemAdvance(t) PROVE UNCHANGED <<Contents, Calls>>
  BY <1>1, <1>10, AdvanceInvisible
<1>11. CASE UNCHANGED vars
  <2>1. At({"store"})' = At({"store"}) /\ At({"load"})' = At({"load"})  BY <1>11 DEF vars, At
  <2>2. Oldest' = Oldest /\ Newest' = Newest  BY <1>11, <2>1 DEF vars, Oldest, Newest
  <2>3. Contents' = Contents  BY <1>1, <1>11, <2>2, QueueStays DEF vars
  <2>4. Calls' = Calls  BY <1>11 DEF vars, Calls, Phase
  <2> QED  BY <2>3, <2>4
<1>12. CASE \E t \in Inserters : (\E x \in Items : CallInsert(t, x)) \/ InsertStep(t)
  BY <1>1, <1>3, <1>4, <1>7, <1>8, <1>10, <1>12 DEF Fifo!Next, InsertStep
<1>13. CASE \E t \in Removers : RemoveStep(t)
  BY <1>1, <1>5, <1>6, <1>7, <1>9, <1>10, <1>13 DEF Fifo!Next, RemoveStep
<1> QED  BY <1>11, <1>12, <1>13 DEF Next, Exhausted

\* sbuf.c is a bounded FIFO in which each call takes effect at one instant:
\* nothing is lost, duplicated, reordered or handed to two workers, whatever
\* the number of threads and of slots.
THEOREM SbufIsFifo == Spec => ImplementsFifo
<1>1. Init => RInv /\ Fifo!Init  BY InitRefines
<1>2. RInv /\ [Next]_vars => RInv'  BY IdleKept
<1>3. RInv /\ RInv' /\ [Next]_vars => [Fifo!Next]_(Fifo!fifoVars)
  BY StepRefines DEF Fifo!fifoVars, Calls
<1> QED  BY <1>1, <1>2, <1>3, PTL DEF Spec, ImplementsFifo, Fifo!Spec

=============================================================================
