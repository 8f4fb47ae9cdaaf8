------------------------------- MODULE Sbuf -------------------------------
(***************************************************************************)
(* proxy_lab/sbuf.c: the bounded buffer through which the proxy's main     *)
(* thread hands accepted descriptors to its pool of worker threads.        *)
(*                                                                         *)
(* One action per semaphore operation, and `++rear' (`++front') is a step  *)
(* apart from the access to buf[] it indexes, so that what the mutex       *)
(* protects is visible.  front and rear only grow, as in the code; MaxRear *)
(* bounds them (far below the INT_MAX at which the C increment stops being *)
(* defined).                                                               *)
(***************************************************************************)
EXTENDS Integers, FiniteSets, Sequences

CONSTANTS Inserters,   \* threads that call sbuf_insert (the proxy has one, main)
          Removers,    \* threads that call sbuf_remove (the proxy has POOL_SIZE)
          Items,       \* the descriptors inserted
          N,           \* sp->n, the number of slots (SBUF_SIZE in the proxy)
          NoItem,      \* a slot or a local variable holding no item
          MaxRear      \* bound: no sbuf_insert starts once rear has reached it

Threads == Inserters \cup Removers

ASSUME NAssumption == N \in Nat \ {0}
ASSUME ThreadsAssumption == /\ Inserters \cap Removers = {}
                            /\ IsFiniteSet(Threads)
ASSUME ItemsAssumption == NoItem \notin Items
ASSUME BoundAssumption == MaxRear \in Nat

VARIABLES buf,                  \* sp->buf
          front, rear,          \* sp->front, sp->rear
          mutex, slots, items,  \* the values of the three semaphores
          pc,                   \* where each thread is
          item                  \* sbuf_insert's parameter, sbuf_remove's local

vars == <<buf, front, rear, mutex, slots, items, pc, item>>

InsertPoints == {"idle", "waitSlot", "insLock", "insAdvance", "store", "insUnlock", "announceItem"}
RemovePoints == {"idle", "waitItem", "remLock", "remAdvance", "load", "remUnlock", "announceSlot"}

\* Calloc leaves zeroes in the buffer: no item has been put there.
Init == /\ buf = [i \in 0 .. N - 1 |-> NoItem]
        /\ front = 0 /\ rear = 0
        /\ mutex = 1 /\ slots = N /\ items = 0
        /\ pc = [t \in Threads |-> "idle"]
        /\ item = [t \in Threads |-> NoItem]

Goto(t, from, to) == /\ pc[t] = from
                     /\ pc' = [pc EXCEPT ![t] = to]

---------------------------------------------------------------------------
(* sbuf_insert *)

CallInsert(t, x) == /\ rear < MaxRear
                    /\ Goto(t, "idle", "waitSlot")
                    /\ item' = [item EXCEPT ![t] = x]
                    /\ UNCHANGED <<buf, front, rear, mutex, slots, items>>

\* Mutants: P(&slots) that does not block, and no P(&slots) at all.
InsTrySlot(t) == /\ slots' = slots - 1
                 /\ Goto(t, "waitSlot", "insLock")
                 /\ UNCHANGED <<buf, front, rear, mutex, items, item>>

InsNoSlot(t) == /\ Goto(t, "waitSlot", "insLock")
                /\ UNCHANGED <<buf, front, rear, mutex, slots, items, item>>

InsWaitSlot(t) == /\ slots > 0
                  /\ slots' = slots - 1
                  /\ Goto(t, "waitSlot", "insLock")
                  /\ UNCHANGED <<buf, front, rear, mutex, items, item>>

\* Mutant: no P(&mutex).
InsNoLock(t) == /\ Goto(t, "insLock", "insAdvance")
                /\ UNCHANGED <<buf, front, rear, mutex, slots, items, item>>

InsLock(t) == /\ mutex > 0
              /\ mutex' = mutex - 1
              /\ Goto(t, "insLock", "insAdvance")
              /\ UNCHANGED <<buf, front, rear, slots, items, item>>

InsAdvance(t) == /\ rear' = rear + 1
                 /\ Goto(t, "insAdvance", "store")
                 /\ UNCHANGED <<buf, front, mutex, slots, items, item>>

\* Mutant: buf[rear++ % n] for buf[++rear % n].
InsStoreEarly(t) == /\ buf' = [buf EXCEPT ![(rear - 1) % N] = item[t]]
                    /\ Goto(t, "store", "insUnlock")
                    /\ UNCHANGED <<front, rear, mutex, slots, items, item>>

InsStore(t) == /\ buf' = [buf EXCEPT ![rear % N] = item[t]]
               /\ Goto(t, "store", "insUnlock")
               /\ UNCHANGED <<front, rear, mutex, slots, items, item>>

InsUnlock(t) == /\ mutex' = mutex + 1
                /\ Goto(t, "insUnlock", "announceItem")
                /\ UNCHANGED <<buf, front, rear, slots, items, item>>

\* Mutant: no V(&items).
InsNoAnnounce(t) == /\ Goto(t, "announceItem", "idle")
                    /\ item' = [item EXCEPT ![t] = NoItem]
                    /\ UNCHANGED <<buf, front, rear, mutex, slots, items>>

InsAnnounce(t) == /\ items' = items + 1
                  /\ Goto(t, "announceItem", "idle")
                  /\ item' = [item EXCEPT ![t] = NoItem]
                  /\ UNCHANGED <<buf, front, rear, mutex, slots>>

---------------------------------------------------------------------------
(* sbuf_remove *)

CallRemove(t) == /\ Goto(t, "idle", "waitItem")
                 /\ UNCHANGED <<buf, front, rear, mutex, slots, items, item>>

RemWaitItem(t) == /\ items > 0
                  /\ items' = items - 1
                  /\ Goto(t, "waitItem", "remLock")
                  /\ UNCHANGED <<buf, front, rear, mutex, slots, item>>

RemLock(t) == /\ mutex > 0
              /\ mutex' = mutex - 1
              /\ Goto(t, "remLock", "remAdvance")
              /\ UNCHANGED <<buf, front, rear, slots, items, item>>

RemAdvance(t) == /\ front' = front + 1
                 /\ Goto(t, "remAdvance", "load")
                 /\ UNCHANGED <<buf, rear, mutex, slots, items, item>>

RemLoad(t) == /\ item' = [item EXCEPT ![t] = buf[front % N]]
              /\ Goto(t, "load", "remUnlock")
              /\ UNCHANGED <<buf, front, rear, mutex, slots, items>>

RemUnlock(t) == /\ mutex' = mutex + 1
                /\ Goto(t, "remUnlock", "announceSlot")
                /\ UNCHANGED <<buf, front, rear, slots, items, item>>

\* Mutants: V(&items) for V(&slots), and no V(&slots).
RemAnnounceItem(t) == /\ items' = items + 1
                      /\ Goto(t, "announceSlot", "idle")
                      /\ item' = [item EXCEPT ![t] = NoItem]
                      /\ UNCHANGED <<buf, front, rear, mutex, slots>>

RemNoAnnounce(t) == /\ Goto(t, "announceSlot", "idle")
                    /\ item' = [item EXCEPT ![t] = NoItem]
                    /\ UNCHANGED <<buf, front, rear, mutex, slots, items>>

RemAnnounce(t) == /\ slots' = slots + 1
                  /\ Goto(t, "announceSlot", "idle")
                  /\ item' = [item EXCEPT ![t] = NoItem]
                  /\ UNCHANGED <<buf, front, rear, mutex, items>>

---------------------------------------------------------------------------
InsertStep(t) == \/ InsWaitSlot(t) \/ InsLock(t) \/ InsAdvance(t)
                 \/ InsStore(t) \/ InsUnlock(t) \/ InsAnnounce(t)

RemoveStep(t) == \/ CallRemove(t) \/ RemWaitItem(t) \/ RemLock(t) \/ RemAdvance(t)
                 \/ RemLoad(t) \/ RemUnlock(t) \/ RemAnnounce(t)

\* The bound is reached and every thread is where a drained buffer leaves it.
Exhausted == /\ rear >= MaxRear /\ front = rear
             /\ \A t \in Inserters : pc[t] = "idle"
             /\ \A t \in Removers : pc[t] = "waitItem"
             /\ UNCHANGED vars

Next == \/ \E t \in Inserters : (\E x \in Items : CallInsert(t, x)) \/ InsertStep(t)
        \/ \E t \in Removers : RemoveStep(t)
        \/ Exhausted

Spec == Init /\ [][Next]_vars

\* A thread that can take its next step keeps running.  Nothing is assumed
\* of who gets a semaphore several threads wait for, nor that another
\* connection is ever accepted (CallInsert).
Fairness == /\ \A t \in Inserters : WF_vars(InsertStep(t))
            /\ \A t \in Removers : WF_vars(RemoveStep(t))

FairSpec == Spec /\ Fairness

---------------------------------------------------------------------------
(* Safety *)

At(points) == {t \in Threads : pc[t] \in points}

TypeOK == /\ buf \in [0 .. N - 1 -> Items \cup {NoItem}]
          /\ front \in Nat /\ rear \in Nat
          /\ mutex \in {0, 1} /\ slots \in 0 .. N /\ items \in 0 .. N
          /\ pc \in [Threads -> InsertPoints \cup RemovePoints]
          /\ \A t \in Inserters : pc[t] \in InsertPoints
          /\ \A t \in Removers : pc[t] \in RemovePoints
          /\ item \in [Threads -> Items \cup {NoItem}]

Locked == At({"insAdvance", "store", "insUnlock", "remAdvance", "load", "remUnlock"})

\* Inserters that own a slot they have not yet advanced rear to, and that
\* have advanced rear without having announced the item; removers likewise.
SlotTaken  == At({"insLock", "insAdvance"})
Unannounced == At({"store", "insUnlock", "announceItem"})
ItemTaken  == At({"remLock", "remAdvance"})
Unreturned == At({"load", "remUnlock", "announceSlot"})

\* The mutex is held by exactly the threads between P(&mutex) and V(&mutex):
\* at most one.
MutexLedger == mutex + Cardinality(Locked) = 1

\* The counting semaphores account for every item and every slot, wherever
\* in sbuf_insert and sbuf_remove the threads are: a count lost or announced
\* twice on any path would break this.
TicketLedger ==
    /\ rear - front = items + Cardinality(Unannounced) + Cardinality(ItemTaken)
    /\ slots + Cardinality(SlotTaken) + Cardinality(Unreturned) + (rear - front) = N

\* Both ledgers, over semaphores within their ranges: however the inserters'
\* and removers interleave, each token is in exactly one place.
Ledgers == TypeOK /\ MutexLedger /\ TicketLedger

\* A store never hits a slot whose item has not been loaded yet, a load never
\* reads a slot whose item has not been stored yet, and no two threads are
\* inside the buffer together.
SlotSafety ==
    /\ \A t \in Threads : pc[t] = "store" => rear - front <= N
    /\ \A t \in Threads : pc[t] = "load" => front <= rear
    /\ \A t, u \in Locked : t = u

---------------------------------------------------------------------------
(* Refinement: the buffer is a linearizable bounded FIFO queue.  An insert  *)
(* takes effect when the item is stored, a remove when it is loaded.        *)

Oldest == IF At({"load"}) = {} THEN front ELSE front - 1
Newest == IF At({"store"}) = {} THEN rear ELSE rear - 1

\* sbuf.h: buf[(front+1)%n] is the first item, buf[rear%n] the last.
Contents == [i \in 1 .. Newest - Oldest |-> buf[(Oldest + i) % N]]

Phase(point) == IF point = "idle" THEN "idle"
                ELSE IF point \in {"insUnlock", "announceItem", "remUnlock", "announceSlot"}
                THEN "done" ELSE "pending"

Fifo == INSTANCE BoundedFifo
          WITH queue <- Contents,
               call <- [t \in Threads |-> [phase |-> Phase(pc[t]), item |-> item[t]]]

\* Every behaviour of the semaphore code is one of the abstract FIFO: nothing
\* is lost, duplicated, reordered or handed to two workers.
ImplementsFifo == Fifo!Spec

---------------------------------------------------------------------------
(* Liveness *)

\* Every descriptor inserted is eventually taken by some worker.
EveryItemRemoved == \A k \in 1 .. MaxRear + Cardinality(Inserters) : rear >= k ~> front >= k

\* sbuf_insert returns: a full buffer does not block the accept loop forever.
InsertReturns == \A t \in Inserters : pc[t] # "idle" ~> pc[t] = "idle"

=============================================================================
