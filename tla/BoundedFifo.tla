---------------------------- MODULE BoundedFifo ----------------------------
(***************************************************************************)
(* What the shared buffer of proxy_lab/sbuf.c promises its callers: "an    *)
(* empty, bounded, shared FIFO buffer with n slots".  Every call takes     *)
(* effect at one instant between its invocation and its return; an insert  *)
(* takes effect only while fewer than N items are queued, a remove only    *)
(* while there is one, and items leave in the order they entered.          *)
(***************************************************************************)
EXTENDS Naturals, Sequences

CONSTANTS Inserters, Removers,   \* the calling threads
          Items,                 \* what is queued (descriptors, in the proxy)
          N,                     \* the number of slots
          NoItem                 \* no value: outside Items

VARIABLES queue,    \* the items inserted and not yet removed, oldest first
          call      \* the call each thread is in: its phase and its item

fifoVars == <<queue, call>>

Idle == [phase |-> "idle", item |-> NoItem]

Init == /\ queue = <<>>
        /\ call = [t \in Inserters \cup Removers |-> Idle]

InvokeInsert(t, x) == /\ call[t] = Idle
                      /\ call' = [call EXCEPT ![t] = [phase |-> "pending", item |-> x]]
                      /\ UNCHANGED queue

Insert(t) == /\ call[t].phase = "pending"
             /\ Len(queue) < N
             /\ queue' = Append(queue, call[t].item)
             /\ call' = [call EXCEPT ![t].phase = "done"]

InvokeRemove(t) == /\ call[t] = Idle
                   /\ call' = [call EXCEPT ![t].phase = "pending"]
                   /\ UNCHANGED queue

Remove(t) == /\ call[t].phase = "pending"
             /\ queue # <<>>
             /\ queue' = Tail(queue)
             /\ call' = [call EXCEPT ![t] = [phase |-> "done", item |-> Head(queue)]]

Return(t) == /\ call[t].phase = "done"
             /\ call' = [call EXCEPT ![t] = Idle]
             /\ UNCHANGED queue

Next == \/ \E t \in Inserters : (\E x \in Items : InvokeInsert(t, x)) \/ Insert(t) \/ Return(t)
        \/ \E t \in Removers : InvokeRemove(t) \/ Remove(t) \/ Return(t)

Spec == Init /\ [][Next]_fifoVars

=============================================================================
