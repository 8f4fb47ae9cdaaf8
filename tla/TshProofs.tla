----------------------------- MODULE TshProofs -----------------------------
(***************************************************************************)
(* The job list of Tsh, for any children, slots and keys and for every     *)
(* interleaving of the handlers with the main program.                     *)
(*                                                                         *)
(* First the foreground job.  The main program holds the slot of the job   *)
(* it started in the foreground, or brought there, in its local job; the   *)
(* handlers only clear slots or mark them stopped.  As long as fg has not  *)
(* written FG into a slot that was cleared under it, a foreground job is   *)
(* the one in job, and while there is one the main program is between      *)
(* addjob or that write and the test that ends its wait.                   *)
(*                                                                         *)
(* Then the list (LInv): a child is in one slot from addjob until the      *)
(* handler that reaped it clears the slot.  That needs no two frames of    *)
(* handlers to work on one child, and none to run while signals are        *)
(* blocked.                                                                *)
(*                                                                         *)
(* Last the stopped jobs (SInv): a child is stopped and not yet marked     *)
(* only while the news is on its way.                                      *)
(*                                                                         *)
(* The fg command breaks the last (see the README): that theorem is about  *)
(* a shell whose user does not type it.                                    *)
(***************************************************************************)
EXTENDS Tsh, Foundations, FiniteSetTheorems, SequenceTheorems

\* A slot is a record of three fields; nothing is said of what they hold.
SlotsAreRecords ==
    job_list = [s \in Slots |-> [pid |-> job_list[s].pid, jid |-> job_list[s].jid,
                                 state |-> job_list[s].state]]

FgPoints == {"fg", "fgSet", "fgCont", "fgTest", "fgEnter", "fgSuspend", "fgWoken"}
Waiting == {"test", "enter", "suspend", "woken", "fgCont", "fgTest", "fgEnter", "fgSuspend", "fgWoken"}

\* The foreground job is the main program's.
OwnForeground == \A s \in Slots : job_list[s].state = "FG" => s = job /\ job_list[s].pid # NoPid

\* The main program does not move on while there is one.
WaitsAtIt == pc \notin Waiting => \A s \in Slots : job_list[s].state # "FG"

FInv == /\ SlotsAreRecords /\ stray \in BOOLEAN
        /\ (~stray => OwnForeground /\ WaitsAtIt)
        /\ job \in Slots /\ (pc = "add" => child \in Pids)

---------------------------------------------------------------------------
(* The job list *)

\* A change of state changes nothing else.
LEMMA SetStateSets ==
    ASSUME SlotsAreRecords, NEW s \in Slots, NEW state, SetState(s, state)
    PROVE  /\ SlotsAreRecords'
           /\ stray' = (stray \/ (state = "FG" /\ job_list[s].pid = NoPid))
           /\ \A r \in Slots : /\ job_list'[r].pid = job_list[r].pid
                               /\ job_list'[r].state = IF r = s THEN state ELSE job_list[r].state
<1>1. job_list' = [r \in Slots |->
          [pid |-> job_list[r].pid, jid |-> job_list[r].jid,
           state |-> IF r = s THEN state ELSE job_list[r].state]]
  BY DEF SlotsAreRecords, SetState
<1>2. stray' = (stray \/ (state = "FG" /\ job_list[s].pid = NoPid))  BY DEF SetState
<1> QED  BY <1>1, <1>2 DEF SlotsAreRecords

\* deletejob clears one slot or none.
LEMMA DeleteJobClears ==
    ASSUME SlotsAreRecords, NEW p, DeleteJob(p)
    PROVE  /\ SlotsAreRecords' /\ stray' = stray
           /\ \A r \in Slots : job_list'[r] = job_list[r] \/ job_list'[r] = Vacant
<1>1. CASE SlotOf(p) = {}  BY <1>1 DEF DeleteJob, jobs, SlotsAreRecords
<1>2. CASE SlotOf(p) # {}
  <2> DEFINE s == Min(SlotOf(p))
  <2>1. job_list' = [job_list EXCEPT ![s] = Vacant] /\ stray' = stray  BY <1>2 DEF DeleteJob
  <2> HIDE DEF s
  <2>2. job_list' = [r \in Slots |->
            IF r = s THEN Vacant
            ELSE [pid |-> job_list[r].pid, jid |-> job_list[r].jid, state |-> job_list[r].state]]
    BY <2>1 DEF SlotsAreRecords
  <2> QED  BY <2>1, <2>2 DEF SlotsAreRecords, Vacant
<1> QED  BY <1>1, <1>2

\* addjob fills a free slot and leaves the others.
LEMMA AddJobFills ==
    ASSUME SlotsAreRecords, SlotOf(NoPid) # {}, NEW p, NEW state, AddJob(p, state)
    PROVE  /\ SlotsAreRecords' /\ stray' = stray
           /\ Min(SlotOf(NoPid)) \in Slots
           /\ \A r \in Slots :
                IF r = Min(SlotOf(NoPid)) THEN job_list'[r].pid = p /\ job_list'[r].state = state
                ELSE job_list'[r] = job_list[r]
<1> DEFINE s == Min(SlotOf(NoPid))
<1>1. s \in Slots
  <2>1. SlotOf(NoPid) \in SUBSET Nat  BY DEF SlotOf, Slots
  <2>2. s \in SlotOf(NoPid)  BY <2>1, MinIsMember
  <2> QED  BY <2>2 DEF SlotOf
<1>2. job_list' = [job_list EXCEPT ![s] = [pid |-> p, jid |-> nextjid, state |-> state]] /\ stray' = stray
  BY DEF AddJob
<1> HIDE DEF s
<1>3. job_list' = [r \in Slots |->
          IF r = s THEN [pid |-> p, jid |-> nextjid, state |-> state]
          ELSE [pid |-> job_list[r].pid, jid |-> job_list[r].jid, state |-> job_list[r].state]]
  BY <1>2 DEF SlotsAreRecords
<1>4. SlotsAreRecords' /\ \A r \in Slots :
          IF r = s THEN job_list'[r].pid = p /\ job_list'[r].state = state
          ELSE job_list'[r] = job_list[r]
  BY <1>3 DEF SlotsAreRecords
<1> QED  BY <1>1, <1>2, <1>4 DEF s

\* While a job is in the foreground fgpid finds it.
LEMMA TestSeesForeground ==
    ASSUME OwnForeground, ~ JobInForeground
    PROVE  \A s \in Slots : job_list[s].state # "FG"
<1> SUFFICES ASSUME NEW s \in Slots, job_list[s].state = "FG" PROVE FALSE
  OBVIOUS
<1>1. s = job /\ Foreground # {} /\ Foreground \in SUBSET Nat
  BY DEF OwnForeground, Foreground, Slots
<1>2. Min(Foreground) \in Foreground  BY <1>1, MinIsMember
<1>3. job_list[Min(Foreground)].pid # NoPid  BY <1>2 DEF OwnForeground, Foreground
<1> QED  BY <1>1, <1>3 DEF JobInForeground, FgPid

---------------------------------------------------------------------------
(* The invariant *)

\* At first no job is in the foreground.
LEMMA InitFInv == Init => FInv
<1> SUFFICES ASSUME Init PROVE FInv  OBVIOUS
<1>1. job_list = [s \in Slots |-> Vacant] /\ pc = "prompt" /\ stray = FALSE  BY DEF Init
<1>2. SlotsAreRecords /\ \A s \in Slots : job_list[s].state = "UNDEF"
  BY <1>1 DEF SlotsAreRecords, Vacant
<1>3. job \in Slots  BY JobsAssumption DEF Init, Slots
<1> QED  BY <1>1, <1>2, <1>3 DEF FInv, OwnForeground, WaitsAtIt

\* What the main program does without touching the list keeps the invariant,
\* if it does not leave its wait.
LEMMA MainKeeps ==
    ASSUME FInv, NEW from, NEW to, Goto(from, to), UNCHANGED <<job_list, stray>>,
           to \in Waiting \/ from \notin Waiting,
           job' \in Slots, from \in Waiting => job' = job, to = "add" => child' \in Pids
    PROVE  FInv'
BY DEF FInv, Goto, SlotsAreRecords, OwnForeground, WaitsAtIt

\* So does a step of anybody else that leaves the list and the locals.
LEMMA OthersKeep ==
    ASSUME FInv, UNCHANGED <<job_list, stray, job, child>>,
           pc' = pc \/ (pc \in Waiting /\ pc' \in Waiting)
    PROVE  FInv'
BY DEF FInv, SlotsAreRecords, OwnForeground, WaitsAtIt, Waiting

\* A step that takes jobs out of the foreground, or none, keeps it.
LEMMA ForegroundShrinks ==
    ASSUME FInv, SlotsAreRecords', UNCHANGED <<stray, job, child>>, pc' = pc,
           \A s \in Slots : job_list'[s].state = "FG" =>
               job_list[s].state = "FG" /\ job_list'[s].pid = job_list[s].pid
    PROVE  FInv'
BY DEF FInv, OwnForeground, WaitsAtIt

\* What the handler of SIGCHLD finds is deleted or marked stopped.
LEMMA UpdateKeeps == ASSUME FInv, UpdateJob PROVE FInv'
<1>1. SlotsAreRecords /\ stray \in BOOLEAN /\ UNCHANGED <<job, child>> /\ pc' = pc
  BY DEF FInv, UpdateJob, locals
<1>2. CASE Inner.stopped
  <2>1. PICK s \in Slots : SetState(s, "ST")  BY <1>2 DEF UpdateJob, SlotOf
  <2>2. stray' = stray /\ SlotsAreRecords'
        /\ \A r \in Slots : /\ job_list'[r].pid = job_list[r].pid
                            /\ job_list'[r].state = IF r = s THEN "ST" ELSE job_list[r].state
    BY <1>1, <2>1, SetStateSets
  <2> QED  BY <1>1, <2>2, ForegroundShrinks
<1>3. CASE ~ Inner.stopped
  <2>1. DeleteJob(Inner.pid)  BY <1>3 DEF UpdateJob
  <2>2. /\ SlotsAreRecords' /\ stray' = stray
        /\ \A s \in Slots : job_list'[s] = job_list[s] \/ job_list'[s] = Vacant
    BY <1>1, <2>1, DeleteJobClears
  <2>3. Vacant.state # "FG"  BY DEF Vacant
  <2> QED  BY <1>1, <2>2, <2>3, ForegroundShrinks
<1> QED  BY <1>2, <1>3

\* The other statements of the handlers leave the list alone.
LEMMA HandlerKeeps == ASSUME FInv, Handler PROVE FInv'
<1>1. CASE UpdateJob  BY <1>1, UpdateKeeps
<1>2. CASE ~ UpdateJob
  <2>1. UNCHANGED <<job_list, stray, job, child>> /\ pc' = pc
    BY <1>2 DEF Handler, Waitpid, NoneLeft, FindForeground, ForwardKey, ForwardFails, jobs, locals
  <2> QED  BY <2>1, OthersKeep
<1> QED  BY <1>1, <1>2

\* addjob makes the new job the main program's.
LEMMA AddKeeps == ASSUME FInv, Add PROVE FInv'
<1>1. /\ SlotsAreRecords /\ SlotOf(NoPid) # {} /\ AddJob(child, IF bg THEN "BG" ELSE "FG")
      /\ pc = "add" /\ pc' = (IF bg THEN "restore" ELSE "test")
      /\ job' = Min(SlotOf(NoPid)) /\ UNCHANGED child
  BY DEF FInv, Add, Goto
<1>2. ~stray => \A s \in Slots : job_list[s].state # "FG"  BY <1>1 DEF FInv, WaitsAtIt, Waiting
<1>3. child # NoPid  BY <1>1, PidsAssumption DEF FInv
<1>4. /\ SlotsAreRecords' /\ stray' = stray
      /\ \A r \in Slots :
          IF r = job' THEN job_list'[r].pid = child /\ job_list'[r].state = IF bg THEN "BG" ELSE "FG"
          ELSE job_list'[r] = job_list[r]
  BY <1>1, AddJobFills
<1>5. ~stray => OwnForeground'
  BY <1>2, <1>3, <1>4 DEF OwnForeground
<1>6. ~stray => WaitsAtIt'
  BY <1>1, <1>2, <1>4 DEF WaitsAtIt, Waiting
<1>7. job' \in Slots  BY <1>1, AddJobFills
<1> QED  BY <1>1, <1>4, <1>5, <1>6, <1>7 DEF FInv

\* fg makes the job it writes to the main program's, or a stray.
LEMMA FgSetKeeps == ASSUME FInv, FgSet PROVE FInv'
<1>1. /\ SlotsAreRecords /\ stray \in BOOLEAN /\ job \in Slots /\ SetState(job, "FG")
      /\ pc = "fgSet" /\ pc' = "fgCont" /\ UNCHANGED <<job, child>>
  BY DEF FInv, FgSet, Goto, locals
<1>2. ~stray => \A s \in Slots : job_list[s].state # "FG"  BY <1>1 DEF FInv, WaitsAtIt, Waiting
<1>3. /\ SlotsAreRecords' /\ stray' = (stray \/ job_list[job].pid = NoPid)
      /\ \A r \in Slots : /\ job_list'[r].pid = job_list[r].pid
                          /\ job_list'[r].state = IF r = job THEN "FG" ELSE job_list[r].state
  BY <1>1, SetStateSets
<1>4. ~stray' => OwnForeground'  BY <1>1, <1>2, <1>3 DEF OwnForeground
<1>5. WaitsAtIt'  BY <1>1 DEF WaitsAtIt, Waiting
<1> QED  BY <1>1, <1>3, <1>4, <1>5 DEF FInv

\* A test of the foreground job leads on to the wait, or away from it when
\* there is none.
LEMMA TestKeeps ==
    ASSUME FInv, NEW from, NEW on \in Waiting, NEW out, out \notin Waiting \cup {"add"},
           Goto(from, IF JobInForeground THEN on ELSE out), UNCHANGED <<job_list, stray, job, child>>
    PROVE  FInv'
<1>1. on # "add" /\ out # "add" /\ job \in Slots  BY DEF Waiting, FInv
<1>2. CASE JobInForeground
  <2>1. Goto(from, on)  BY <1>2
  <2> QED  BY <1>1, <2>1, MainKeeps
<1>3. CASE ~ JobInForeground
  <2>1. ~stray => \A s \in Slots : job_list[s].state # "FG"  BY <1>3, TestSeesForeground DEF FInv
  <2>2. pc' = out  BY <1>3 DEF Goto
  <2> QED  BY <1>1, <2>1, <2>2 DEF FInv, SlotsAreRecords, OwnForeground, WaitsAtIt
<1> QED  BY <1>2, <1>3

\* Every statement of the main program keeps the invariant.
LEMMA MainStepKeeps == ASSUME FInv, MainStep PROVE FInv'
<1> USE DEF Waiting
<1>1. SlotsAreRecords /\ stray \in BOOLEAN /\ job \in Slots  BY DEF FInv
<1>2. CASE Add  BY <1>2, AddKeeps
<1>3. CASE Fork
  <2>1. Goto("fork", "add") /\ UNCHANGED <<job_list, stray, job>> /\ child' \in Pids
    BY <1>3 DEF Fork, jobs
  <2> QED  BY <1>1, <2>1, MainKeeps
<1>4. CASE ForkFails \/ AddFails
  <2>1. UNCHANGED <<job_list, stray, job, child>> /\ pc' = pc
    BY <1>4 DEF ForkFails, AddFails, jobs, locals
  <2> QED  BY <2>1, OthersKeep
<1>5. CASE Test
  <2>1. /\ Goto("test", IF JobInForeground THEN "enter" ELSE "restore")
        /\ UNCHANGED <<job_list, stray, job, child>>
    BY <1>5 DEF Test, jobs, locals
  <2>2. "enter" \in Waiting /\ "restore" \notin Waiting \cup {"add"}  OBVIOUS
  <2> QED  BY <2>1, <2>2, TestKeeps
<1>6. CASE FgTest
  <2>1. /\ Goto("fgTest", IF JobInForeground THEN "fgEnter" ELSE "prompt")
        /\ UNCHANGED <<job_list, stray, job, child>>
    BY <1>6 DEF FgTest, jobs, locals
  <2>2. "fgEnter" \in Waiting /\ "prompt" \notin Waiting \cup {"add"}  OBVIOUS
  <2> QED  BY <2>1, <2>2, TestKeeps
<1>7. CASE Suspend \/ Woken \/ FgCont \/ FgSuspend \/ FgWoken
  <2>1. \/ Goto("enter", "suspend") \/ Goto("woken", "test") \/ Goto("fgCont", "fgTest")
        \/ Goto("fgEnter", "fgSuspend") \/ Goto("fgWoken", "fgTest")
    BY <1>7 DEF Suspend, Woken, FgCont, Cont, FgSuspend, FgWoken
  <2>2. UNCHANGED <<job_list, stray, job, child>>
    BY <1>7 DEF Suspend, Woken, FgCont, Cont, FgSuspend, FgWoken, jobs, locals
  <2> QED  BY <1>1, <2>1, <2>2, MainKeeps
<1>8. CASE Restore \/ BgCheck \/ BgCont \/ FgCheck
  <2>1. \E from \in {"restore", "bg", "bgCont", "fg"}, to \in {"prompt", "bgSet", "fgSet"} : Goto(from, to)
    BY <1>8 DEF Restore, BgCheck, BgCont, Cont, FgCheck
  <2>2. UNCHANGED <<job_list, stray, job, child>>
    BY <1>8 DEF Restore, BgCheck, BgCont, Cont, FgCheck, jobs, locals
  <2> QED  BY <1>1, <2>1, <2>2, MainKeeps
<1>9. CASE BgSet
  <2>1. Goto("bgSet", "bgCont") /\ SetState(job, "BG") /\ UNCHANGED <<job, child>>
    BY <1>9 DEF BgSet, locals
  <2>2. pc = "bgSet" /\ pc' = "bgCont"  BY <2>1 DEF Goto
  <2>3. ~stray => \A s \in Slots : job_list[s].state # "FG"  BY <2>2 DEF FInv, WaitsAtIt
  <2>4. /\ SlotsAreRecords' /\ stray' = stray
        /\ \A r \in Slots : /\ job_list'[r].pid = job_list[r].pid
                            /\ job_list'[r].state = IF r = job THEN "BG" ELSE job_list[r].state
    BY <1>1, <2>1, SetStateSets
  <2>5. ~stray => \A s \in Slots : job_list'[s].state # "FG"  BY <2>3, <2>4
  <2> QED  BY <1>1, <2>1, <2>2, <2>4, <2>5 DEF FInv, OwnForeground, WaitsAtIt
<1>10. CASE FgSet  BY <1>10, FgSetKeeps
<1> QED  BY <1>2, <1>3, <1>4, <1>5, <1>6, <1>7, <1>8, <1>9, <1>10 DEF MainStep

\* A command is read when nothing is in the foreground, or a stray.
LEMMA CommandKeeps == ASSUME FInv, Command PROVE FInv'
<1> USE DEF Waiting
<1>0. job \in Slots  BY DEF FInv
<1>1. CASE Run(TRUE) \/ Run(FALSE)
  <2>1. Goto("prompt", "fork") /\ UNCHANGED <<job_list, stray, job, child>>  BY <1>1 DEF Run, jobs
  <2> QED  BY <1>0, <2>1, MainKeeps
<1>2. CASE \E command \in Commands \cap {"fg", "bg"} : LookUp(command)
  <2>1. PICK command \in {"fg", "bg"} : LookUp(command)  BY <1>2
  <2>2. /\ Goto("prompt", command) /\ UNCHANGED <<job_list, stray, child>> /\ job' \in Slots
    BY <2>1 DEF LookUp, jobs
  <2>3. command # "add"  OBVIOUS
  <2> QED  BY <2>2, <2>3, MainKeeps
<1>3. CASE Quit \/ BadArgument
  <2>1. UNCHANGED <<job_list, stray, job, child>> /\ pc' = pc
    BY <1>3 DEF BadArgument, Quit, jobs, locals
  <2> QED  BY <2>1, OthersKeep
<1> QED  BY <1>1, <1>2, <1>3 DEF Command

\* The invariant is inductive.
LEMMA StepFInv == FInv /\ [Next]_vars => FInv'
<1> SUFFICES ASSUME FInv, [Next]_vars PROVE FInv'  OBVIOUS
<1>1. CASE Command  BY <1>1, CommandKeeps
<1>2. CASE MainStep  BY <1>2, MainStepKeeps
<1>3. CASE Handler  BY <1>3, HandlerKeeps
<1>4. ASSUME NEW sig \in Signals, Deliver(sig) PROVE FInv'
  <2>1. pc' = CASE pc = "suspend" -> "woken" [] pc = "fgSuspend" -> "fgWoken" [] OTHER -> pc
    BY <1>4 DEF Deliver
  <2>2. pc' = pc \/ (pc \in Waiting /\ pc' \in Waiting)
    <3>1. CASE pc = "suspend"  BY <2>1, <3>1 DEF Waiting
    <3>2. CASE pc = "fgSuspend"  BY <2>1, <3>2 DEF Waiting
    <3>3. CASE pc # "suspend" /\ pc # "fgSuspend"  BY <2>1, <3>3
    <3> QED  BY <3>1, <3>2, <3>3
  <2>3. UNCHANGED <<job_list, stray, job, child>>  BY <1>4 DEF Deliver, jobs, locals
  <2> QED  BY <2>2, <2>3, OthersKeep
<1>5. CASE Children \/ (\E sig \in Keys : Press(sig)) \/ Rest \/ UNCHANGED vars
  <2>1. UNCHANGED <<job_list, stray, job, child>> /\ pc' = pc
    BY <1>5 DEF Children, Exec, Exit, Stop, Press, Rest, vars, jobs, locals
  <2> QED  BY <2>1, OthersKeep
<1> QED  BY <1>1, <1>2, <1>3, <1>4, <1>5 DEF Next, ShellStep

---------------------------------------------------------------------------
(* The theorems *)

\* It holds always.
LEMMA AlwaysFInv == Spec => []FInv
<1>1. Init => FInv  BY InitFInv
<1>2. FInv /\ [Next]_vars => FInv'  BY StepFInv
<1> QED  BY <1>1, <1>2, PTL DEF Spec

\* "At most 1 job can be in the FG state" (tsh.c:49) for every command, fg
\* included, wherever handlers interrupt eval, the waits, fg and bg, as long as
\* fg has not written to a slot that a handler cleared after it was looked up.
THEOREM OneForeground == Spec => []OneForegroundJob
<1>1. FInv => OneForegroundJob
  <2> SUFFICES ASSUME FInv, ~stray PROVE AtMostOneForeground  BY DEF OneForegroundJob
  <2>1. InForeground \subseteq {job}  BY DEF FInv, OwnForeground, InForeground, Foreground
  <2>2. InForeground = {} \/ InForeground = {job}  BY <2>1
  <2>3. Cardinality(InForeground) = 0 \/ Cardinality(InForeground) = 1
    BY <2>2, FS_EmptySet, FS_Singleton
  <2> QED  BY <2>3 DEF AtMostOneForeground
<1> QED  BY <1>1, AlwaysFInv, PTL

\* The shell is back at its prompt only when no job is in the foreground
\* (tsh.c:230-231, 1019), up to the same write: no wake-up of either wait, and
\* no test of it, is taken for the end of the job.
THEOREM PromptWaits == Spec => []WaitsForForeground
<1>1. FInv => WaitsForForeground
  BY DEF FInv, WaitsAtIt, Waiting, WaitsForForeground, InForeground, Foreground
<1> QED  BY <1>1, AlwaysFInv, PTL

---------------------------------------------------------------------------
(* The stack of handlers, as the set of its frames *)

Frame == [sig : Signals, at : {"begin", "update", "kill"}, pid : Pids \cup {NoPid}, stopped : BOOLEAN]
Frames == {handlers[i] : i \in 1 .. Len(handlers)}

\* A signal is handled by one handler at a time.
Apart == handlers \in Seq(Frame) /\ \A i, j \in 1 .. Len(handlers) : handlers[i].sig = handlers[j].sig => i = j

\* A signal that is not being handled begins to be.
LEMMA DeliverFrames ==
    ASSUME Apart, NEW f \in Frame, ~Handling(f.sig), handlers' = <<f>> \o handlers
    PROVE  Apart' /\ Frames' = Frames \cup {f}
<1> DEFINE n == Len(handlers)
<1>1. handlers \in Seq(Frame) /\ <<f>> \in Seq(Frame) /\ Len(<<f>>) = 1 /\ <<f>>[1] = f
  BY DEF Apart
<1>2. /\ handlers' \in Seq(Frame) /\ Len(handlers') = n + 1 /\ n \in Nat
      /\ handlers'[1] = f /\ \A i \in 2 .. n + 1 : handlers'[i] = handlers[i - 1]
  <2>1. n \in Nat  BY <1>1, LenProperties
  <2>2. /\ handlers' \in Seq(Frame) /\ Len(handlers') = 1 + n
        /\ \A i \in 1 .. 1 + n : handlers'[i] = IF i <= 1 THEN <<f>>[i] ELSE handlers[i - 1]
    BY <1>1, ConcatProperties
  <2> QED  BY <1>1, <2>1, <2>2
<1>3. \A i \in 1 .. n : handlers[i].sig # f.sig
  BY DEF Handling
<1> HIDE DEF n
<1>4. ASSUME NEW i \in 1 .. n + 1, NEW j \in 1 .. n + 1, handlers'[i].sig = handlers'[j].sig PROVE i = j
  <2>1. CASE i = 1 /\ j = 1  BY <2>1
  <2>2. CASE i = 1 /\ j # 1
    <3>1. j - 1 \in 1 .. n /\ handlers'[j] = handlers[j - 1]  BY <1>2, <2>2
    <3> QED  BY <1>2, <1>3, <1>4, <2>2, <3>1
  <2>3. CASE i # 1 /\ j = 1
    <3>1. i - 1 \in 1 .. n /\ handlers'[i] = handlers[i - 1]  BY <1>2, <2>3
    <3> QED  BY <1>2, <1>3, <1>4, <2>3, <3>1
  <2>4. CASE i # 1 /\ j # 1
    <3>1. i - 1 \in 1 .. n /\ handlers'[i] = handlers[i - 1]  BY <1>2, <2>4
    <3>2. j - 1 \in 1 .. n /\ handlers'[j] = handlers[j - 1]  BY <1>2, <2>4
    <3>3. i - 1 = j - 1  BY <1>4, <3>1, <3>2 DEF Apart, n
    <3> QED  BY <3>3
  <2> QED  BY <2>1, <2>2, <2>3, <2>4
<1>5. Apart'
  <2>1. Len(handlers') = n + 1 /\ handlers' \in Seq(Frame)  BY <1>2
  <2> HIDE DEF n
  <2> QED  BY <1>4, <2>1, Zenon DEF Apart
<1>6. Frames' = {handlers'[i] : i \in 1 .. n + 1} /\ Frames = {handlers[i] : i \in 1 .. n}
  BY <1>2 DEF Frames, n
<1>7. \A g \in Frames' : g \in Frames \cup {f}
  <2> SUFFICES ASSUME NEW i \in 1 .. n + 1 PROVE handlers'[i] \in Frames \cup {f}
    BY <1>6
  <2>1. CASE i = 1  BY <1>2, <2>1
  <2>2. CASE i # 1
    <3>1. i - 1 \in 1 .. n /\ handlers'[i] = handlers[i - 1]  BY <1>2, <2>2
    <3> QED  BY <1>6, <3>1
  <2> QED  BY <2>1, <2>2
<1>8. \A g \in Frames \cup {f} : g \in Frames'
  <2>1. f \in Frames'
    <3>1. 1 \in 1 .. n + 1  BY <1>2
    <3> QED  BY <1>2, <1>6, <3>1
  <2>2. ASSUME NEW i \in 1 .. n PROVE handlers[i] \in Frames'
    <3>1. i + 1 \in 2 .. n + 1 /\ i + 1 \in 1 .. n + 1 /\ (i + 1) - 1 = i  BY <1>2
    <3>2. handlers'[i + 1] = handlers[i]  BY <1>2, <3>1
    <3> QED  BY <1>6, <3>1, <3>2
  <2> QED  BY <1>6, <2>1, <2>2
<1> QED  BY <1>5, <1>7, <1>8

\* The innermost handler returns: its frame goes and no other is like it.
LEMMA ReturnFrames ==
    ASSUME Apart, handlers # <<>>, Return
    PROVE  /\ Apart' /\ Inner \in Frame /\ Inner \in Frames
           /\ Frames' = Frames \ {Inner}
           /\ \A f \in Frames' : f.sig # Inner.sig
<1> DEFINE n == Len(handlers)
<1>1. /\ n \in Nat \ {0} /\ Inner = handlers[1] /\ Inner \in Frame
      /\ handlers' \in Seq(Frame) /\ Len(handlers') = n - 1
      /\ \A i \in 1 .. n - 1 : handlers'[i] = handlers[i + 1]
  <2>1. handlers \in Seq(Frame)  BY DEF Apart
  <2>2. n \in Nat \ {0}  BY <2>1, EmptySeq
  <2>3. Inner = handlers[1]  BY <2>1 DEF Inner
  <2> QED  BY <2>1, <2>2, <2>3, HeadTailProperties DEF Return, Inner
<1>2. \A i, j \in 1 .. n : handlers[i].sig = handlers[j].sig => i = j
  BY DEF Apart
<1>3. Frames = {handlers[i] : i \in 1 .. n} /\ Frames' = {handlers'[i] : i \in 1 .. n - 1}
  BY <1>1 DEF Frames
<1>4. Apart'
  <2>1. ASSUME NEW i \in 1 .. n - 1, NEW j \in 1 .. n - 1, handlers'[i].sig = handlers'[j].sig PROVE i = j
    <3>1. i + 1 \in 1 .. n /\ j + 1 \in 1 .. n  BY <1>1
    <3>2. handlers[i + 1].sig = handlers[j + 1].sig  BY <1>1, <2>1
    <3>3. i + 1 = j + 1  BY <1>2, <3>1, <3>2
    <3> QED  BY <3>3
  <2> QED  BY <1>1, <2>1 DEF Apart
<1> HIDE DEF n
<1>5. 1 \in 1 .. n /\ Inner \in Frames
  <2>1. 1 \in 1 .. n  BY <1>1
  <2> QED  BY <1>1, <1>3, <2>1
<1>6. ASSUME NEW f \in Frames' PROVE f \in Frames /\ f.sig # Inner.sig
  <2>1. PICK i \in 1 .. n - 1 : f = handlers'[i]  BY <1>3
  <2>2. f = handlers[i + 1] /\ i + 1 \in 1 .. n /\ i + 1 # 1  BY <1>1, <2>1
  <2> QED  BY <1>1, <1>2, <1>3, <1>5, <2>2
<1>7. ASSUME NEW f \in Frames, f # Inner PROVE f \in Frames'
  <2>1. PICK i \in 1 .. n : f = handlers[i]  BY <1>3
  <2>2. i # 1  BY <1>1, <1>7, <2>1
  <2>3. i - 1 \in 1 .. n - 1 /\ (i - 1) + 1 = i  BY <1>1, <2>2
  <2>4. handlers'[i - 1] = handlers[i]  BY <1>1, <2>3
  <2> QED  BY <1>3, <2>1, <2>3, <2>4
<1>8. \A f \in Frames' : f \in Frames /\ f.sig # Inner.sig  BY <1>6
<1>9. \A f \in Frames : f # Inner => f \in Frames'  BY <1>7
<1> QED  BY <1>1, <1>4, <1>5, <1>8, <1>9

\* The innermost handler goes on: its frame is replaced.
LEMMA BecomeFrames ==
    ASSUME Apart, handlers # <<>>, NEW at \in {"begin", "update", "kill"}, NEW p \in Pids \cup {NoPid},
           NEW stopped \in BOOLEAN, Become(at, p, stopped)
    PROVE  LET f == [sig |-> Inner.sig, at |-> at, pid |-> p, stopped |-> stopped] IN
           /\ Apart' /\ Inner \in Frame /\ Inner \in Frames
           /\ Frames' = (Frames \ {Inner}) \cup {f}
           /\ \A g \in Frames \ {Inner} : g.sig # Inner.sig
<1> DEFINE n == Len(handlers)
           f == [sig |-> Inner.sig, at |-> at, pid |-> p, stopped |-> stopped]
<1>1. n \in Nat \ {0} /\ Inner = handlers[1] /\ Inner \in Frame /\ handlers \in Seq(Frame)
  <2>1. handlers \in Seq(Frame)  BY DEF Apart
  <2>2. n \in Nat \ {0}  BY <2>1, EmptySeq
  <2>3. Inner = handlers[1]  BY <2>1 DEF Inner
  <2> QED  BY <2>1, <2>2, <2>3, HeadTailProperties DEF Inner
<1>2. f \in Frame
  BY <1>1 DEF Frame
<1>3. handlers' = <<f>> \o Tail(handlers)
  BY DEF Become
<1> HIDE DEF f
<1>4. /\ handlers' \in Seq(Frame) /\ Len(handlers') = n /\ handlers'[1] = f
      /\ \A i \in 2 .. n : handlers'[i] = handlers[i]
  <2> DEFINE t == Tail(handlers)
  <2>1. t \in Seq(Frame) /\ Len(t) = n - 1 /\ \A i \in 1 .. n - 1 : t[i] = handlers[i + 1]
    BY <1>1, HeadTailProperties
  <2>2. <<f>> \in Seq(Frame) /\ Len(<<f>>) = 1 /\ <<f>>[1] = f  BY <1>2
  <2> HIDE DEF t
  <2>3. /\ handlers' \in Seq(Frame) /\ Len(handlers') = 1 + (n - 1)
        /\ \A i \in 1 .. 1 + (n - 1) : handlers'[i] = IF i <= 1 THEN <<f>>[i] ELSE t[i - 1]
    BY <1>3, <2>1, <2>2, ConcatProperties DEF t
  <2> HIDE DEF n
  <2>4. ASSUME NEW i \in 2 .. n PROVE handlers'[i] = handlers[i]
    <3>1. i \in 1 .. 1 + (n - 1) /\ ~(i <= 1) /\ i - 1 \in 1 .. n - 1 /\ (i - 1) + 1 = i  BY <1>1
    <3>2. handlers'[i] = t[i - 1] /\ t[i - 1] = handlers[(i - 1) + 1]  BY <2>1, <2>3, <3>1
    <3> QED  BY <3>1, <3>2
  <2>5. 1 \in 1 .. 1 + (n - 1) /\ 1 + (n - 1) = n  BY <1>1
  <2> QED  BY <2>2, <2>3, <2>4, <2>5
<1>5. \A i, j \in 1 .. n : handlers[i].sig = handlers[j].sig => i = j
  BY DEF Apart
<1>6. Frames = {handlers[i] : i \in 1 .. n} /\ Frames' = {handlers'[i] : i \in 1 .. n}
  BY <1>4 DEF Frames
<1>7. f.sig = handlers[1].sig  BY <1>1 DEF f
<1> HIDE DEF n
<1>8. \A i \in 1 .. n : handlers'[i].sig = handlers[i].sig
  <2> SUFFICES ASSUME NEW i \in 1 .. n PROVE handlers'[i].sig = handlers[i].sig
    OBVIOUS
  <2>1. CASE i = 1  BY <1>4, <1>7, <2>1
  <2>2. CASE i # 1
    <3>1. i \in 2 .. n  BY <1>1, <2>2
    <3> QED  BY <1>4, <3>1
  <2> QED  BY <2>1, <2>2
<1>9. Apart'
  BY <1>4, <1>5, <1>8 DEF Apart
<1>10. 1 \in 1 .. n /\ Inner \in Frames /\ f \in Frames'
  <2>1. 1 \in 1 .. n  BY <1>1
  <2> QED  BY <1>1, <1>4, <1>6, <2>1
<1>11. \A g \in Frames \ {Inner} : g.sig # Inner.sig /\ g \in Frames'
  <2> SUFFICES ASSUME NEW i \in 1 .. n, handlers[i] # Inner
               PROVE  handlers[i].sig # Inner.sig /\ handlers[i] \in Frames'
    BY <1>6
  <2>1. i # 1 /\ i \in 2 .. n  BY <1>1
  <2> QED  BY <1>1, <1>4, <1>5, <1>6, <1>10, <2>1
<1>12. \A g \in Frames' : g = f \/ g \in Frames \ {Inner}
  <2> SUFFICES ASSUME NEW i \in 1 .. n, i # 1 PROVE handlers'[i] \in Frames \ {Inner}
    BY <1>4, <1>6
  <2>1. i \in 2 .. n  BY <1>1
  <2> QED  BY <1>1, <1>4, <1>5, <1>6, <1>10, <2>1
<1> QED  BY <1>1, <1>9, <1>10, <1>11, <1>12 DEF f

---------------------------------------------------------------------------
(* Each child has its slot *)

\* Only the handler of SIGCHLD takes children from waitpid, and a child it
\* has reaped stays gone until its job is deleted.
FramesSound == \A f \in Frames :
    /\ f.at = "update" => f.sig = "SIGCHLD"
    /\ f.at # "begin" => f.pid \in Pids
    /\ f.at = "update" /\ ~f.stopped => process[f.pid] = "none"

\* Between block_sigs and addjob no handler runs.
Starting == /\ pc \in {"fork", "add"} => blocked /\ handlers = <<>> /\ nextjid <= JidBound
            /\ pc = "add" => child \in Pids /\ process[child] # "none"

ListedOnce(p) == \E s \in Slots : SlotOf(p) = {s}
Expected(p) == IF process[p] = "none" THEN p \in Reaped ELSE ~(pc = "add" /\ p = child)
Exact == alive => \A p \in Pids : IF Expected(p) THEN ListedOnce(p) ELSE SlotOf(p) = {}

LInv == TypeOK /\ Apart /\ FramesSound /\ Starting /\ Exact

Job == [pid : Pids \cup {NoPid}, jid : 0 .. JidBound, state : {"UNDEF", "FG", "BG", "ST"}]

\* The slots of a typed list are records.
LEMMA TypedSlots ==
    ASSUME TypeOK
    PROVE  /\ SlotsAreRecords /\ job_list \in [Slots -> Job]
           /\ nextjid \in 1 .. JidBound + 1 /\ stray \in BOOLEAN
<1>1. job_list \in [Slots -> Job]  BY DEF TypeOK, Job
<1>2. \A s \in Slots : job_list[s] = [pid |-> job_list[s].pid, jid |-> job_list[s].jid, state |-> job_list[s].state]
  BY <1>1 DEF Job
<1> QED  BY <1>1, <1>2 DEF SlotsAreRecords, TypeOK

\* Who has been reaped can be read off the frames.
LEMMA ReapedFrames ==
    \A p : p \in Reaped <=> \E f \in Frames : f.at = "update" /\ ~f.stopped /\ f.pid = p
BY DEF Reaped, Frames

\* The same of the next state.
LEMMA ReapedPrime ==
    \A p : p \in Reaped' <=> \E f \in Frames' : f.at = "update" /\ ~f.stopped /\ f.pid = p
BY DEF Reaped, Frames

\* A change of state moves no child.
LEMMA SetStateTyped ==
    ASSUME TypeOK, NEW s \in Slots, NEW state \in {"UNDEF", "FG", "BG", "ST"}, SetState(s, state)
    PROVE  /\ job_list' \in [Slots -> Job] /\ nextjid' = nextjid /\ stray' \in BOOLEAN
           /\ \A p : SlotOf(p)' = SlotOf(p)
<1>1. SlotsAreRecords /\ job_list \in [Slots -> Job] /\ stray \in BOOLEAN  BY TypedSlots
<1>2. job_list' = [r \in Slots |->
          [pid |-> job_list[r].pid, jid |-> job_list[r].jid,
           state |-> IF r = s THEN state ELSE job_list[r].state]]
  BY <1>1 DEF SlotsAreRecords, SetState
<1>3. \A r \in Slots : job_list'[r] \in Job /\ job_list'[r].pid = job_list[r].pid
  BY <1>1, <1>2 DEF Job
<1>4. job_list' \in [Slots -> Job]  BY <1>2, <1>3
<1>5. stray' = (stray \/ (state = "FG" /\ job_list[s].pid = NoPid))  BY DEF SetState
<1>6. stray' \in BOOLEAN  BY <1>1, <1>5
<1> QED  BY <1>3, <1>4, <1>6 DEF SlotOf, SetState

\* nextjid is one more than a job id in the list.
LEMMA NextJidTyped ==
    ASSUME job_list' \in [Slots -> Job]
    PROVE  Max({job_list'[s].jid : s \in Slots}) + 1 \in 1 .. JidBound + 1
<1> DEFINE S == {job_list'[s].jid : s \in Slots}
<1>1. S \in SUBSET (0 .. JidBound)  BY DEF Job
<1>2. S # {}
  <2>1. 1 \in Slots  BY JobsAssumption DEF Slots
  <2> QED  BY <2>1
<1>3. JidBound \in Nat  BY JobsAssumption
<1> HIDE DEF S
<1>4. Max(S) \in S  BY <1>1, <1>2, <1>3, MaxIsMember
<1>5. Max(S) + 1 \in 1 .. JidBound + 1
  <2> DEFINE m == Max(S)
  <2>1. m \in 0 .. JidBound  BY <1>1, <1>4
  <2> HIDE DEF m
  <2>2. m + 1 \in 1 .. JidBound + 1  BY <1>3, <2>1
  <2> QED  BY <2>2 DEF m
<1> QED  BY <1>5 DEF S

\* deletejob takes a child that is listed once out of the list.
LEMMA DeleteJobTyped ==
    ASSUME TypeOK, NEW p \in Pids, SlotOf(p) = {} \/ ListedOnce(p), DeleteJob(p)
    PROVE  /\ job_list' \in [Slots -> Job] /\ nextjid' \in 1 .. JidBound + 1 /\ stray' = stray
           /\ SlotOf(p)' = {}
           /\ \A q \in Pids \ {p} : SlotOf(q)' = SlotOf(q)
<1>1. SlotsAreRecords /\ job_list \in [Slots -> Job] /\ nextjid \in 1 .. JidBound + 1  BY TypedSlots
<1>2. CASE SlotOf(p) = {}
  <2>1. job_list' = job_list /\ nextjid' = nextjid /\ stray' = stray  BY <1>2 DEF DeleteJob, jobs
  <2> QED  BY <1>1, <1>2, <2>1 DEF SlotOf
<1>3. CASE SlotOf(p) # {}
  <2>1. PICK s \in Slots : SlotOf(p) = {s}  BY <1>3 DEF ListedOnce
  <2>2. Min(SlotOf(p)) = s
    <3>1. SlotOf(p) \in SUBSET Nat  BY DEF SlotOf, Slots
    <3>2. Min(SlotOf(p)) \in SlotOf(p)  BY <1>3, <3>1, MinIsMember
    <3> QED  BY <2>1, <3>2
  <2>3. /\ job_list' = [job_list EXCEPT ![s] = Vacant] /\ stray' = stray
        /\ nextjid' = Max({job_list'[r].jid : r \in Slots}) + 1
    BY <1>3, <2>2 DEF DeleteJob
  <2>4. Vacant \in Job /\ Vacant.pid = NoPid  BY JobsAssumption DEF Vacant, Job
  <2>5. job_list' \in [Slots -> Job] /\ \A r \in Slots : job_list'[r] = IF r = s THEN Vacant ELSE job_list[r]
    BY <1>1, <2>3, <2>4
  <2>6. nextjid' \in 1 .. JidBound + 1  BY <2>3, <2>5, NextJidTyped
  <2>7. p # NoPid /\ \A q \in Pids : q # NoPid  BY PidsAssumption
  <2>8. SlotOf(p)' = {}  BY <2>1, <2>4, <2>5, <2>7 DEF SlotOf
  <2>9. ASSUME NEW q \in Pids \ {p} PROVE SlotOf(q)' = SlotOf(q)
    <3>1. s \notin SlotOf(q)  BY <2>1 DEF SlotOf
    <3> QED  BY <2>4, <2>5, <2>7, <3>1 DEF SlotOf
  <2> QED  BY <2>3, <2>5, <2>6, <2>8, <2>9
<1> QED  BY <1>2, <1>3

\* addjob gives a child that is not listed one slot.
LEMMA AddJobTyped ==
    ASSUME TypeOK, NEW p \in Pids, NEW state \in {"FG", "BG"}, SlotOf(p) = {}, SlotOf(NoPid) # {},
           nextjid <= JidBound, AddJob(p, state)
    PROVE  /\ job_list' \in [Slots -> Job] /\ nextjid' \in 1 .. JidBound + 1 /\ stray' = stray
           /\ Min(SlotOf(NoPid)) \in Slots
           /\ ListedOnce(p)'
           /\ \A q \in Pids \ {p} : SlotOf(q)' = SlotOf(q)
<1>1. SlotsAreRecords /\ job_list \in [Slots -> Job] /\ nextjid \in 1 .. JidBound + 1  BY TypedSlots
<1> DEFINE s == Min(SlotOf(NoPid))
           e == [pid |-> p, jid |-> nextjid, state |-> state]
<1>2. s \in Slots /\ job_list[s].pid = NoPid
  <2>1. SlotOf(NoPid) \in SUBSET Nat  BY DEF SlotOf, Slots
  <2>2. s \in SlotOf(NoPid)  BY <2>1, MinIsMember
  <2> QED  BY <2>2 DEF SlotOf
<1>3. job_list' = [job_list EXCEPT ![s] = e] /\ stray' = stray  BY DEF AddJob
<1>4. e \in Job /\ e.pid = p
  <2>1. nextjid \in 0 .. JidBound  BY <1>1, JobsAssumption
  <2> QED  BY <2>1 DEF Job
<1>5. nextjid' \in 1 .. JidBound + 1
  <2>1. nextjid' = IF nextjid + 1 > MaxJobs THEN 1 ELSE nextjid + 1  BY DEF AddJob
  <2> QED  BY <1>1, <2>1, JobsAssumption
<1> HIDE DEF s, e
<1>6. job_list' \in [Slots -> Job] /\ \A r \in Slots : job_list'[r] = IF r = s THEN e ELSE job_list[r]
  BY <1>1, <1>2, <1>3, <1>4
<1>7. SlotOf(p)' = {s}  BY <1>2, <1>4, <1>6 DEF SlotOf
<1>8. ASSUME NEW q \in Pids \ {p} PROVE SlotOf(q)' = SlotOf(q)
  <2>1. q # NoPid  BY PidsAssumption
  <2> QED  BY <1>2, <1>4, <1>6, <2>1 DEF SlotOf
<1> QED  BY <1>2, <1>3, <1>5, <1>6, <1>7, <1>8 DEF ListedOnce, s

\* At first there are no children and no slots are taken.
LEMMA InitLInv == Init => LInv
<1> SUFFICES ASSUME Init PROVE LInv  OBVIOUS
<1>1. TypeOK
  <2>1. Vacant \in Job  BY JobsAssumption DEF Vacant, Job
  <2>2. 1 \in Slots  BY JobsAssumption DEF Slots
  <2>3. 1 \in 1 .. JidBound + 1  BY JobsAssumption
  <2>4. <<>> \in Seq(Frame)  OBVIOUS
  <2> QED  BY <2>1, <2>2, <2>3, <2>4 DEF Init, TypeOK, Points, ProcessStates, Job, Frame
<1>2. handlers = <<>> /\ Frames = {}  BY EmptySeq DEF Init, Frames
<1>3. Apart  BY <1>2, EmptySeq DEF Apart
<1>4. FramesSound /\ Starting  BY <1>2 DEF FramesSound, Init, Starting
<1>5. Exact
  <2>1. ASSUME NEW p \in Pids PROVE ~Expected(p) /\ SlotOf(p) = {}
    <3>1. p \notin Reaped  BY <1>2, ReapedFrames
    <3>2. p # NoPid  BY PidsAssumption
    <3> QED  BY <3>1, <3>2 DEF Init, Expected, SlotOf, Vacant
  <2> QED  BY <2>1 DEF Exact
<1> QED  BY <1>1, <1>3, <1>4, <1>5 DEF LInv

\* A step that moves no child between slots, reaps none and deletes none.
LEMMA ExactKept ==
    ASSUME Exact, alive' => alive,
           \A p \in Pids : process'[p] = "none" <=> process[p] = "none",
           \A p \in Pids : SlotOf(p)' = SlotOf(p),
           \A p \in Pids : p \in Reaped' <=> p \in Reaped,
           \A p \in Pids : (pc' = "add" /\ p = child') <=> (pc = "add" /\ p = child)
    PROVE  Exact'
<1> SUFFICES ASSUME alive', NEW p \in Pids
             PROVE  (IF Expected(p) THEN ListedOnce(p) ELSE SlotOf(p) = {})'
  BY DEF Exact
<1>1. IF Expected(p) THEN ListedOnce(p) ELSE SlotOf(p) = {}  BY DEF Exact
<1>2. Expected(p)' <=> Expected(p)  BY DEF Expected
<1>3. ListedOnce(p)' <=> ListedOnce(p)  BY DEF ListedOnce
<1> QED  BY <1>1, <1>2, <1>3

\* Steps of the main program, or of the user, that only move it on or stop it.
LEMMA MovesKeepLInv ==
    ASSUME LInv, TypeOK', UNCHANGED <<jobs, handlers, kernel>>, alive' => alive,
           pc' \notin {"fork", "add"} \/ UNCHANGED <<pc, child, blocked>>, pc = "add" => UNCHANGED <<pc, child>>
    PROVE  LInv'
<1> USE DEF LInv
<1>1. Frames' = Frames /\ (\A p : p \in Reaped' <=> p \in Reaped)  BY DEF Frames, Reaped
<1>2. \A p : SlotOf(p)' = SlotOf(p)  BY DEF SlotOf, jobs
<1>3. Apart' /\ FramesSound' /\ Starting'
  BY <1>1 DEF Apart, FramesSound, Starting, kernel, jobs
<1>4. \A p \in Pids : (pc' = "add" /\ p = child') <=> (pc = "add" /\ p = child)
  OBVIOUS
<1>5. \A p \in Pids : process'[p] = "none" <=> process[p] = "none"  BY DEF kernel
<1>6. Exact'  BY <1>1, <1>2, <1>4, <1>5, ExactKept
<1> QED  BY <1>3, <1>6

\* Children that stop, go on or exit stay the shell's.
LEMMA ChildrenKeepLInv ==
    ASSUME LInv, TypeOK', UNCHANGED <<jobs, handlers, blocked, child, alive>>,
           \A p \in Pids : process'[p] = "none" <=> process[p] = "none",
           pc' = pc \/ (pc' \notin {"fork", "add"} /\ pc # "add")
    PROVE  LInv'
<1> USE DEF LInv
<1>1. Frames' = Frames /\ (\A p : p \in Reaped' <=> p \in Reaped)  BY DEF Frames, Reaped
<1>2. \A p : SlotOf(p)' = SlotOf(p)  BY DEF SlotOf, jobs
<1>3. Apart' /\ FramesSound' /\ Starting'
  BY <1>1 DEF Apart, FramesSound, Starting, jobs
<1>4. \A p \in Pids : (pc' = "add" /\ p = child') <=> (pc = "add" /\ p = child)
  OBVIOUS
<1>6. Exact'  BY <1>1, <1>2, <1>4, ExactKept
<1> QED  BY <1>3, <1>6

\* The statements of the main program that touch neither the list nor a child.
LEMMA QuietStepsKeepLInv ==
    ASSUME LInv,
           \/ ForkFails \/ AddFails \/ Test \/ Suspend \/ Woken \/ Restore
           \/ FgCheck \/ FgTest \/ FgSuspend \/ FgWoken \/ BgCheck \/ Quit
           \/ (\E command \in {"fg", "bg"} : LookUp(command))
    PROVE  LInv'
<1> USE DEF LInv, jobs, locals, kernel
<1>1. CASE ForkFails \/ AddFails \/ Quit
  <2>1. alive' = FALSE /\ UNCHANGED <<jobs, handlers, kernel, pc, locals, blocked, pending>>
    BY <1>1 DEF ForkFails, AddFails, Quit
  <2>2. TypeOK'  BY <2>1 DEF TypeOK
  <2> QED  BY <2>1, <2>2, MovesKeepLInv
<1>2. CASE Test \/ Suspend \/ Woken \/ Restore \/ FgCheck \/ FgTest \/ FgSuspend \/ FgWoken \/ BgCheck
  <2>1. UNCHANGED <<alive, jobs, handlers, kernel, locals, pending>> /\ blocked' \in {blocked, FALSE}
    BY <1>2 DEF Test, Suspend, Woken, Restore, FgCheck, FgTest, FgSuspend, FgWoken, BgCheck
  <2>2. pc # "add" /\ pc' \in Points \ {"fork", "add"}
    BY <1>2 DEF Goto, Points, Test, Suspend, Woken, Restore, FgCheck, FgTest, FgSuspend, FgWoken, BgCheck
  <2>3. TypeOK'  BY <2>1, <2>2 DEF TypeOK
  <2> QED  BY <2>1, <2>2, <2>3, MovesKeepLInv
<1>3. ASSUME NEW command \in {"fg", "bg"}, LookUp(command) PROVE LInv'
  <2>1. UNCHANGED <<alive, jobs, handlers, kernel, bg, child, blocked, pending>> /\ job' \in Slots
    BY <1>3 DEF LookUp
  <2>2. pc # "add" /\ pc' \in {"fg", "bg"}
    BY <1>3 DEF Goto, LookUp
  <2>3. TypeOK'  BY <2>1, <2>2 DEF TypeOK, Points
  <2> QED  BY <2>1, <2>2, <2>3, MovesKeepLInv
<1> QED  BY <1>1, <1>2, <1>3

\* A command to run blocks the signals while no handler runs.
LEMMA RunKeepsLInv == ASSUME LInv, NEW background \in BOOLEAN, Run(background) PROVE LInv'
<1> USE DEF LInv, jobs, kernel
<1>1. /\ UNCHANGED <<alive, jobs, handlers, kernel, job, child, pending>> /\ blocked' = TRUE
      /\ pc = "prompt" /\ pc' = "fork" /\ handlers = <<>> /\ nextjid <= JidBound /\ bg' = background
  BY DEF Run, Goto
<1>2. TypeOK'  BY <1>1 DEF TypeOK, Points
<1>3. Frames' = Frames /\ (\A p : p \in Reaped' <=> p \in Reaped)  BY <1>1 DEF Frames, Reaped
<1>4. Apart' /\ FramesSound' /\ Starting'
  BY <1>1, <1>3 DEF Apart, FramesSound, Starting
<1>5. Exact'
  <2>1. \A p : SlotOf(p)' = SlotOf(p)  BY <1>1 DEF SlotOf
  <2> QED  BY <1>1, <1>3, <2>1, ExactKept
<1> QED  BY <1>2, <1>4, <1>5

\* The child of fork has no slot yet: no handler is between waitpid and
\* deletejob.
LEMMA ForkKeepsLInv == ASSUME LInv, Fork PROVE LInv'
<1> USE DEF LInv, jobs
<1>1. PICK c \in Pids : process[c] = "none" /\ process' = [process EXCEPT ![c] = "forked"] /\ child' = c
  BY DEF Fork
<1>2. /\ UNCHANGED <<alive, jobs, bg, job, blocked, pending, handlers, unreported>>
      /\ pc = "fork" /\ pc' = "add" /\ handlers = <<>> /\ alive
  BY DEF Fork, Goto
<1>3. process \in [Pids -> ProcessStates]  BY DEF TypeOK
<1>4. process' \in [Pids -> ProcessStates] /\ process'[c] = "forked" /\ \A p \in Pids \ {c} : process'[p] = process[p]
  BY <1>1, <1>3 DEF ProcessStates
<1>5. TypeOK'  BY <1>1, <1>2, <1>4 DEF TypeOK, Points
<1>6. Frames = {} /\ Frames' = {}  BY <1>2, EmptySeq DEF Frames
<1>7. Apart' /\ FramesSound'  BY <1>2, <1>6 DEF Apart, FramesSound
<1>8. Starting'  BY <1>1, <1>2, <1>4 DEF Starting
<1>9. \A p : p \notin Reaped /\ p \notin Reaped'
  <2>1. \A p : p \in Reaped' <=> p \in Reaped  BY <1>2 DEF Reaped
  <2> QED  BY <1>6, <2>1, ReapedFrames
<1>10. Exact'
  <2> SUFFICES ASSUME NEW p \in Pids
               PROVE  (IF Expected(p) THEN ListedOnce(p) ELSE SlotOf(p) = {})'
    BY DEF Exact
  <2>1. IF Expected(p) THEN ListedOnce(p) ELSE SlotOf(p) = {}  BY <1>2 DEF Exact
  <2>2. SlotOf(p)' = SlotOf(p) /\ (ListedOnce(p)' <=> ListedOnce(p))  BY <1>2 DEF SlotOf, ListedOnce
  <2>3. CASE p = c
    <3>1. ~Expected(p) /\ ~Expected(p)'  BY <1>1, <1>2, <1>4, <1>9, <2>3 DEF Expected
    <3> QED  BY <2>1, <2>2, <3>1
  <2>4. CASE p # c
    <3>1. Expected(p)' <=> Expected(p)  BY <1>1, <1>2, <1>4, <1>9, <2>4 DEF Expected
    <3> QED  BY <2>1, <2>2, <3>1
  <2> QED  BY <2>3, <2>4
<1> QED  BY <1>5, <1>7, <1>8, <1>10

\* addjob lists the child, and nobody has reaped it before.
LEMMA AddKeepsLInv == ASSUME LInv, Add PROVE LInv'
<1> USE DEF LInv, kernel
<1>1. /\ UNCHANGED <<alive, bg, child, blocked, pending, handlers, kernel>>
      /\ pc = "add" /\ pc' \in {"restore", "test"} /\ handlers = <<>> /\ alive
      /\ SlotOf(NoPid) # {} /\ AddJob(child, IF bg THEN "BG" ELSE "FG")
      /\ job' = Min(SlotOf(NoPid))
  BY DEF Add, Goto
<1>2. child \in Pids /\ process[child] # "none" /\ nextjid <= JidBound  BY <1>1 DEF Starting
<1>3. SlotOf(child) = {}  BY <1>1, <1>2 DEF Exact, Expected
<1>4. /\ job_list' \in [Slots -> Job] /\ nextjid' \in 1 .. JidBound + 1 /\ stray' = stray
      /\ job' \in Slots
      /\ ListedOnce(child)'
      /\ \A q \in Pids \ {child} : SlotOf(q)' = SlotOf(q)
  <2>1. (IF bg THEN "BG" ELSE "FG") \in {"FG", "BG"}  OBVIOUS
  <2> QED  BY <1>1, <1>2, <1>3, <2>1, AddJobTyped
<1>5. TypeOK'  BY <1>1, <1>4 DEF TypeOK, Points, Job
<1>6. Frames' = Frames /\ (\A p : p \in Reaped' <=> p \in Reaped)  BY <1>1 DEF Frames, Reaped
<1>7. Apart' /\ FramesSound' /\ Starting'
  BY <1>1, <1>6 DEF Apart, FramesSound, Starting
<1>8. Exact'
  <2> SUFFICES ASSUME NEW p \in Pids
               PROVE  (IF Expected(p) THEN ListedOnce(p) ELSE SlotOf(p) = {})'
    BY DEF Exact
  <2>1. IF Expected(p) THEN ListedOnce(p) ELSE SlotOf(p) = {}  BY <1>1 DEF Exact
  <2>2. CASE p = child
    <3>1. Expected(p)'  BY <1>1, <1>2, <2>2 DEF Expected
    <3>2. ListedOnce(p)'  BY <1>1, <1>4, <2>2 DEF ListedOnce, SlotOf
    <3> QED  BY <3>1, <3>2
  <2>3. CASE p # child
    <3>1. SlotOf(p)' = SlotOf(p) /\ (ListedOnce(p)' <=> ListedOnce(p))  BY <1>4, <2>3 DEF ListedOnce
    <3>2. Expected(p)' <=> Expected(p)  BY <1>1, <1>6, <2>3 DEF Expected
    <3> QED  BY <2>1, <3>1, <3>2
  <2> QED  BY <2>2, <2>3
<1> QED  BY <1>5, <1>7, <1>8

\* fg and bg write the state of a slot and leave its child.
LEMMA SetKeepsLInv == ASSUME LInv, FgSet \/ BgSet PROVE LInv'
<1> USE DEF LInv, kernel, locals
<1>1. PICK state \in {"FG", "BG"} : SetState(job, state)  BY DEF FgSet, BgSet
<1>2. /\ UNCHANGED <<alive, locals, blocked, pending, handlers, kernel>>
      /\ pc # "add" /\ pc' \in {"fgCont", "bgCont"}
  BY DEF FgSet, BgSet, Goto
<1>3. job \in Slots  BY DEF TypeOK
<1>4. /\ job_list' \in [Slots -> Job] /\ nextjid' = nextjid /\ stray' \in BOOLEAN
      /\ \A p : SlotOf(p)' = SlotOf(p)
  BY <1>1, <1>3, SetStateTyped
<1>5. TypeOK'  BY <1>2, <1>4 DEF TypeOK, Points, Job
<1>6. Frames' = Frames /\ (\A p : p \in Reaped' <=> p \in Reaped)  BY <1>2 DEF Frames, Reaped
<1>7. Apart' /\ FramesSound' /\ Starting'
  BY <1>2, <1>6 DEF Apart, FramesSound, Starting
<1>8. Exact'
  <2>1. \A p \in Pids : process'[p] = "none" <=> process[p] = "none"  BY <1>2
  <2> QED  BY <1>2, <1>4, <1>6, <2>1, ExactKept
<1> QED  BY <1>5, <1>7, <1>8

\* SIGCONT wakes a child and ends none.
LEMMA ContKeepsLInv == ASSUME LInv, FgCont \/ BgCont PROVE LInv'
<1> USE DEF LInv, jobs, locals, kernel
<1>1. /\ UNCHANGED <<alive, jobs, locals, blocked, handlers>>
      /\ pc # "add" /\ pc' \in {"fgTest", "prompt"}
  BY DEF FgCont, BgCont, Cont, Goto
<1>2. process \in [Pids -> ProcessStates] /\ unreported \subseteq Pids /\ pending \subseteq Signals  BY DEF TypeOK
<1>3. /\ process' \in [Pids -> ProcessStates] /\ unreported' \subseteq Pids /\ pending' \subseteq Signals
      /\ \A p \in Pids : process'[p] = "none" <=> process[p] = "none"
  <2> DEFINE c == job_list[job].pid
  <2>1. CASE UNCHANGED <<kernel, pending>>  BY <1>2, <2>1
  <2>2. CASE c \in Pids /\ Continue(c)
    <3>1. CASE process[c] \in {"stopped", "doomed"}
      BY <1>2, <2>2, <3>1 DEF Continue, Raise, Signals, ProcessStates
    <3>2. CASE process[c] \notin {"stopped", "doomed"}
      BY <1>2, <2>2, <3>2 DEF Continue
    <3> QED  BY <3>1, <3>2
  <2>3. c \in Pids \cup {NoPid}
    <3>1. job \in Slots /\ job_list \in [Slots -> Job]  BY TypedSlots DEF TypeOK
    <3>2. job_list[job] \in Job  BY <3>1
    <3> QED  BY <3>2 DEF Job
  <2>4. (c = NoPid /\ UNCHANGED <<kernel, pending>>) \/ (c # NoPid /\ Continue(c))
    BY DEF FgCont, BgCont, Cont
  <2> QED  BY <2>1, <2>2, <2>3, <2>4
<1>4. TypeOK'  BY <1>1, <1>3 DEF TypeOK, Points
<1> QED  BY <1>1, <1>3, <1>4, ChildrenKeepLInv

\* A child that stops, ends, runs its program or is sent a key's signal.
LEMMA OutsideKeepsLInv ==
    ASSUME LInv, Children \/ (\E sig \in Keys : Press(sig))
    PROVE  LInv'
<1> USE DEF LInv, jobs, locals, kernel
<1>1. process \in [Pids -> ProcessStates] /\ unreported \subseteq Pids /\ pending \subseteq Signals  BY DEF TypeOK
<1>2. CASE Children
  <2>1. PICK p \in Pids : Exec(p) \/ Exit(p) \/ Stop(p)  BY <1>2 DEF Children
  <2>2. /\ UNCHANGED <<alive, jobs, pc, locals, blocked, handlers>>
        /\ process' \in [Pids -> ProcessStates] /\ unreported' \subseteq Pids /\ pending' \subseteq Signals
        /\ \A q \in Pids : process'[q] = "none" <=> process[q] = "none"
    BY <1>1, <2>1 DEF Exec, Exit, Stop, Raise, Signals, ProcessStates
  <2>3. TypeOK'  BY <2>2 DEF TypeOK
  <2> QED  BY <2>2, <2>3, ChildrenKeepLInv
<1>3. ASSUME NEW sig \in Keys, Press(sig) PROVE LInv'
  <2>1. UNCHANGED <<alive, jobs, pc, locals, blocked, handlers, kernel>> /\ pending' \subseteq Signals
    BY <1>1, <1>3, CommandsAssumption DEF Press, Raise, Signals
  <2>2. TypeOK'  BY <2>1 DEF TypeOK
  <2> QED  BY <2>1, <2>2, ChildrenKeepLInv
<1> QED  BY <1>2, <1>3

\* A signal let in begins a handler that has reaped nobody yet; none is let in
\* between block_sigs and addjob.
LEMMA DeliverKeepsLInv == ASSUME LInv, NEW sig \in Signals, Deliver(sig) PROVE LInv'
<1> USE DEF LInv, jobs, locals, kernel
<1> DEFINE f == [sig |-> sig, at |-> "begin", pid |-> NoPid, stopped |-> FALSE]
<1>1. /\ UNCHANGED <<alive, jobs, locals, blocked, kernel>> /\ pending' = pending \ {sig}
      /\ handlers' = <<f>> \o handlers /\ ~Handling(sig) /\ f \in Frame /\ f.sig = sig
      /\ (~blocked \/ pc \in {"suspend", "fgSuspend"} \/ handlers # <<>>)
  BY DEF Deliver, Frame
<1>2. pc \notin {"fork", "add"}  BY <1>1 DEF Starting
<1>3. pc' \in Points \ {"fork", "add"}
  <2>1. pc' = CASE pc = "suspend" -> "woken" [] pc = "fgSuspend" -> "fgWoken" [] OTHER -> pc  BY DEF Deliver
  <2>2. pc' \in {"woken", "fgWoken", pc}  BY <2>1
  <2> QED  BY <1>2, <2>2 DEF TypeOK, Points
<1> HIDE DEF f
<1>4. Apart' /\ Frames' = Frames \cup {f}  BY <1>1, DeliverFrames
<1>5. f.at = "begin"  BY DEF f
<1>6. TypeOK'
  <2>1. handlers' \in Seq(Frame)  BY <1>4 DEF Apart
  <2> QED  BY <1>1, <1>3, <2>1 DEF TypeOK, Frame
<1>7. FramesSound' /\ Starting'
  BY <1>1, <1>3, <1>4, <1>5 DEF FramesSound, Starting
<1>8. Exact'
  <2>1. \A p \in Pids : p \in Reaped' <=> p \in Reaped
    <3>1. \A p : p \in Reaped' <=> \E g \in Frames' : g.at = "update" /\ ~g.stopped /\ g.pid = p
      BY ReapedPrime
    <3> QED  BY <1>4, <1>5, <3>1, ReapedFrames
  <2>2. \A p : SlotOf(p)' = SlotOf(p)  BY <1>1 DEF SlotOf
  <2> QED  BY <1>1, <1>2, <1>3, <2>1, <2>2, ExactKept
<1> QED  BY <1>4, <1>6, <1>7, <1>8

\* What the frames tell of a step of the innermost handler.
LEMMA HandlerStarting ==
    ASSUME LInv, handlers # <<>>, pc' = pc
    PROVE  Starting' /\ pc \notin {"fork", "add"}
BY DEF LInv, Starting

\* A child that waitpid reaps has its slot until the job is deleted.
LEMMA WaitpidKeepsLInv == ASSUME LInv, Waitpid PROVE LInv'
<1> USE DEF LInv, jobs, locals
<1>1. /\ UNCHANGED <<alive, jobs, pc, locals, blocked, pending>> /\ alive
      /\ handlers # <<>> /\ Inner.sig = "SIGCHLD" /\ Inner.at = "begin"
  BY DEF Waitpid, In
<1>2. PICK c \in Waitable :
          /\ Become("update", c, c \in unreported)
          /\ process' = IF c \in unreported THEN process ELSE [process EXCEPT ![c] = "none"]
          /\ unreported' = unreported \ {c}
  BY DEF Waitpid
<1>3. process \in [Pids -> ProcessStates] /\ unreported \subseteq Pids  BY DEF TypeOK
<1>4. c \in Pids /\ (c \in unreported \/ process[c] = "zombie")  BY <1>3 DEF Waitable
<1>5. /\ process' \in [Pids -> ProcessStates]
      /\ \A p \in Pids : process'[p] = IF p = c /\ c \notin unreported THEN "none" ELSE process[p]
  BY <1>2, <1>3, <1>4 DEF ProcessStates
<1> DEFINE f == [sig |-> Inner.sig, at |-> "update", pid |-> c, stopped |-> c \in unreported]
<1>6. /\ Apart' /\ Inner \in Frame /\ Inner \in Frames
      /\ Frames' = (Frames \ {Inner}) \cup {f}
      /\ \A g \in Frames \ {Inner} : g.sig # Inner.sig
  <2>1. (c \in unreported) \in BOOLEAN /\ c \in Pids \cup {NoPid}  BY <1>4
  <2> QED  BY <1>1, <1>2, <2>1, BecomeFrames
<1>7. f.sig = "SIGCHLD" /\ f.at = "update" /\ f.pid = c /\ (f.stopped <=> c \in unreported)  BY <1>1
<1> HIDE DEF f
<1>8. TypeOK'
  <2>1. handlers' \in Seq(Frame)  BY <1>6 DEF Apart
  <2>2. unreported' \subseteq Pids  BY <1>2, <1>3
  <2> QED  BY <1>1, <1>5, <2>1, <2>2 DEF TypeOK, Frame
<1>9. Starting' /\ pc \notin {"fork", "add"}  BY <1>1, HandlerStarting
<1>10. FramesSound'
  BY <1>4, <1>5, <1>6, <1>7 DEF FramesSound
<1>11. \A p : p \in Reaped' <=> p \in Reaped \/ (p = c /\ c \notin unreported)
  BY <1>1, <1>6, <1>7, ReapedFrames, ReapedPrime
<1>12. Exact'
  <2> SUFFICES ASSUME NEW p \in Pids
               PROVE  (IF Expected(p) THEN ListedOnce(p) ELSE SlotOf(p) = {})'
    BY DEF Exact
  <2>1. IF Expected(p) THEN ListedOnce(p) ELSE SlotOf(p) = {}  BY <1>1 DEF Exact
  <2>2. SlotOf(p)' = SlotOf(p) /\ (ListedOnce(p)' <=> ListedOnce(p))  BY <1>1 DEF SlotOf, ListedOnce
  <2>3. Expected(p)' <=> Expected(p)
    <3>1. CASE p = c /\ c \notin unreported
      BY <1>1, <1>4, <1>5, <1>9, <1>11, <3>1 DEF Expected
    <3>2. CASE ~(p = c /\ c \notin unreported)
      BY <1>1, <1>5, <1>11, <3>2 DEF Expected
    <3> QED  BY <3>1, <3>2
  <2> QED  BY <2>1, <2>2, <2>3
<1> QED  BY <1>6, <1>8, <1>9, <1>10, <1>12

\* Once the job of a child that has been reaped is deleted the child is
\* forgotten; that of one that stopped stays.
LEMMA UpdateJobKeepsLInv == ASSUME LInv, UpdateJob PROVE LInv'
<1> USE DEF LInv, locals, kernel
<1>1. /\ UNCHANGED <<alive, pc, locals, blocked, pending, kernel>> /\ alive
      /\ handlers # <<>> /\ Inner.sig = "SIGCHLD" /\ Inner.at = "update"
      /\ Become("begin", NoPid, FALSE)
  BY DEF UpdateJob, In
<1> DEFINE c == Inner.pid
           f == [sig |-> Inner.sig, at |-> "begin", pid |-> NoPid, stopped |-> FALSE]
<1>2. /\ Apart' /\ Inner \in Frame /\ Inner \in Frames
      /\ Frames' = (Frames \ {Inner}) \cup {f}
      /\ \A g \in Frames \ {Inner} : g.sig # Inner.sig
  BY <1>1, BecomeFrames
<1>3. f.at = "begin"  OBVIOUS
<1> HIDE DEF f
<1>4. c \in Pids /\ (~Inner.stopped => process[c] = "none")  BY <1>1, <1>2 DEF FramesSound
<1>5. Starting' /\ pc \notin {"fork", "add"}
  BY <1>1, HandlerStarting
<1>6. FramesSound'
  BY <1>1, <1>2, <1>3 DEF FramesSound
<1>7. \A p : p \in Reaped' <=> p \in Reaped /\ ~(p = c /\ ~Inner.stopped)
  <2>1. \A g \in Frames \ {Inner} : g.at # "update"  BY <1>1, <1>2 DEF FramesSound
  <2>2. \A p : p \notin Reaped'  BY <1>2, <1>3, <2>1, ReapedPrime
  <2>3. \A p : p \in Reaped => p = c /\ ~Inner.stopped  BY <1>2, <2>1, ReapedFrames
  <2> QED  BY <2>2, <2>3
<1>8. c \in Reaped <=> ~Inner.stopped
  <2>1. \A g \in Frames \ {Inner} : g.at # "update"  BY <1>1, <1>2 DEF FramesSound
  <2> QED  BY <1>1, <1>2, <2>1, ReapedFrames
<1>9. /\ job_list' \in [Slots -> Job] /\ nextjid' \in 1 .. JidBound + 1 /\ stray' \in BOOLEAN
      /\ \A p \in Pids : SlotOf(p)' = IF p = c /\ ~Inner.stopped THEN {} ELSE SlotOf(p)
  <2>1. CASE Inner.stopped
    <3>1. PICK s \in SlotOf(c) : SetState(s, "ST")  BY <2>1 DEF UpdateJob
    <3>2. s \in Slots  BY DEF SlotOf
    <3>3. /\ job_list' \in [Slots -> Job] /\ nextjid' = nextjid /\ stray' \in BOOLEAN
          /\ \A p : SlotOf(p)' = SlotOf(p)
      BY <3>1, <3>2, SetStateTyped
    <3> QED  BY <2>1, <3>3, TypedSlots
  <2>2. CASE ~Inner.stopped
    <3>1. DeleteJob(c)  BY <2>2 DEF UpdateJob
    <3>2. SlotOf(c) = {} \/ ListedOnce(c)  BY <1>1, <1>4 DEF Exact
    <3> HIDE DEF c
    <3>3. /\ job_list' \in [Slots -> Job] /\ nextjid' \in 1 .. JidBound + 1 /\ stray' = stray
          /\ \A p \in Pids : p = c => SlotOf(p)' = {}
          /\ \A p \in Pids \ {c} : SlotOf(p)' = SlotOf(p)
      <4>1. \A x \in Pids : (x = c) => DeleteJob(x) /\ (SlotOf(x) = {} \/ ListedOnce(x))
        BY <3>1, <3>2
      <4> QED  BY <1>4, <4>1, DeleteJobTyped
    <3> QED  BY <2>2, <3>3, TypedSlots
  <2> QED  BY <2>1, <2>2
<1>10. TypeOK'
  <2>1. handlers' \in Seq(Frame)  BY <1>2 DEF Apart
  <2> QED  BY <1>1, <1>9, <2>1 DEF TypeOK, Frame, Job
<1>11. Exact'
  <2> SUFFICES ASSUME NEW p \in Pids
               PROVE  (IF Expected(p) THEN ListedOnce(p) ELSE SlotOf(p) = {})'
    BY DEF Exact
  <2>1. IF Expected(p) THEN ListedOnce(p) ELSE SlotOf(p) = {}  BY <1>1 DEF Exact
  <2>2. CASE p = c /\ ~Inner.stopped
    <3>1. ~Expected(p)'  BY <1>1, <1>4, <1>7, <2>2 DEF Expected
    <3> QED  BY <1>9, <2>2, <3>1
  <2>3. CASE ~(p = c /\ ~Inner.stopped)
    <3>1. SlotOf(p)' = SlotOf(p) /\ (ListedOnce(p)' <=> ListedOnce(p))  BY <1>9, <2>3 DEF ListedOnce
    <3>2. Expected(p)' <=> Expected(p)  BY <1>1, <1>7, <2>3 DEF Expected
    <3> QED  BY <2>1, <3>1, <3>2
  <2> QED  BY <2>2, <2>3
<1> QED  BY <1>2, <1>5, <1>6, <1>10, <1>11

\* A frame that goes, or goes on to kill, has reaped nobody.
LEMMA LeavingKeepsLInv ==
    ASSUME LInv, alive, handlers # <<>>, Inner.at # "update", UNCHANGED <<alive, jobs, pc, locals, blocked>>,
           process' \in [Pids -> ProcessStates], unreported' \subseteq Pids, pending' \subseteq Signals,
           \A p \in Pids : process'[p] = "none" <=> process[p] = "none",
           Return \/ \E p \in Pids : Become("kill", p, FALSE)
    PROVE  LInv'
<1> USE DEF LInv, jobs, locals
<1>1. Apart' /\ \A g \in Frames' : g \in Frames \/ (g.at = "kill" /\ g.pid \in Pids)
  <2>1. CASE Return  BY <2>1, ReturnFrames
  <2>2. ASSUME NEW p \in Pids, Become("kill", p, FALSE) PROVE Apart' /\ \A g \in Frames' : g \in Frames \/ (g.at = "kill" /\ g.pid \in Pids)
    <3> DEFINE f == [sig |-> Inner.sig, at |-> "kill", pid |-> p, stopped |-> FALSE]
    <3>1. Apart' /\ Frames' = (Frames \ {Inner}) \cup {f}  BY <2>2, BecomeFrames
    <3>2. f.at = "kill" /\ f.pid = p  OBVIOUS
    <3> HIDE DEF f
    <3> QED  BY <3>1, <3>2
  <2> QED  BY <2>1, <2>2
<1>2. \A g \in Frames : g.at = "update" => g \in Frames'
  <2>1. CASE Return  BY <2>1, ReturnFrames
  <2>2. ASSUME NEW p \in Pids, Become("kill", p, FALSE) PROVE \A g \in Frames : g.at = "update" => g \in Frames'
    BY <2>2, BecomeFrames
  <2> QED  BY <2>1, <2>2
<1>3. TypeOK'
  <2>1. handlers' \in Seq(Frame)  BY <1>1 DEF Apart
  <2> QED  BY <2>1 DEF TypeOK, Frame
<1>4. Starting' /\ pc \notin {"fork", "add"}  BY HandlerStarting
<1>5. FramesSound'  BY <1>1 DEF FramesSound
<1>6. \A p \in Pids : p \in Reaped' <=> p \in Reaped  BY <1>1, <1>2, ReapedFrames, ReapedPrime
<1>7. Exact'
  <2>1. \A p : SlotOf(p)' = SlotOf(p)  BY DEF SlotOf
  <2> QED  BY <1>6, <2>1, ExactKept
<1> QED  BY <1>1, <1>3, <1>4, <1>5, <1>7

\* What the handlers find in the foreground is a child.
LEMMA FgPidIsChild == ASSUME TypeOK, FgPid # NoPid PROVE FgPid \in Pids
<1>1. Foreground # {} /\ Foreground \in SUBSET Nat /\ FgPid = job_list[Min(Foreground)].pid
  BY DEF FgPid, Foreground, Slots
<1>2. Min(Foreground) \in Foreground  BY <1>1, MinIsMember
<1>3. Min(Foreground) \in Slots  BY <1>2 DEF Foreground
<1>4. job_list[Min(Foreground)] \in Job  BY <1>3, TypedSlots
<1> QED  BY <1>1, <1>4 DEF Job

\* Every statement of the handlers keeps the list exact.
LEMMA HandlerKeepsLInv == ASSUME LInv, Handler PROVE LInv'
<1> USE DEF kernel
<1>0. process \in [Pids -> ProcessStates] /\ unreported \subseteq Pids /\ pending \subseteq Signals  BY DEF LInv, TypeOK
<1>1. CASE Waitpid  BY <1>1, WaitpidKeepsLInv
<1>2. CASE UpdateJob  BY <1>2, UpdateJobKeepsLInv
<1>3. CASE NoneLeft  BY <1>0, <1>3, LeavingKeepsLInv DEF NoneLeft, In
<1>4. CASE FindForeground
  <2>1. Return \/ \E p \in Pids : Become("kill", p, FALSE)
    BY <1>4, FgPidIsChild DEF FindForeground, LInv
  <2> QED  BY <1>0, <1>4, <2>1, LeavingKeepsLInv DEF FindForeground, In
<1>5. CASE ForwardKey
  <2>1. /\ process' \in [Pids -> ProcessStates] /\ unreported' \subseteq Pids /\ pending' \subseteq Signals
        /\ \A p \in Pids : process'[p] = "none" <=> process[p] = "none"
    <3> DEFINE c == Inner.pid
    <3>1. handlers # <<>> /\ Inner.at = "kill"  BY <1>5 DEF ForwardKey, In
    <3>2. Return /\ Signalled(c, Inner.sig)  BY <1>5 DEF ForwardKey
    <3>3. Inner \in Frames  BY <3>1, <3>2, ReturnFrames DEF LInv
    <3>4. c \in Pids  BY <3>1, <3>3 DEF LInv, FramesSound
    <3> HIDE DEF c
    <3> QED  BY <1>0, <3>2, <3>4 DEF Signalled, Raise, Signals, ProcessStates
  <2> QED  BY <1>5, <2>1, LeavingKeepsLInv DEF ForwardKey, In
<1>6. CASE ForwardFails
  <2>1. alive' = FALSE /\ UNCHANGED <<jobs, pc, locals, blocked, pending, handlers, kernel>>
    BY <1>6 DEF ForwardFails
  <2>2. TypeOK'  BY <2>1 DEF LInv, TypeOK, jobs, locals
  <2> QED  BY <2>1, <2>2, MovesKeepLInv DEF locals
<1> QED  BY <1>1, <1>2, <1>3, <1>4, <1>5, <1>6 DEF Handler

\* Every step keeps the list exact.
LEMMA StepLInv == LInv /\ [Next]_vars => LInv'
<1> SUFFICES ASSUME LInv, [Next]_vars PROVE LInv'  OBVIOUS
<1>1. CASE Command
  <2>1. \/ (\E background \in BOOLEAN : Run(background)) \/ Quit
        \/ (\E command \in {"fg", "bg"} : LookUp(command))
    BY <1>1 DEF Command, BadArgument
  <2> QED  BY <2>1, RunKeepsLInv, QuietStepsKeepLInv
<1>2. CASE MainStep
  <2>1. CASE Fork  BY <2>1, ForkKeepsLInv
  <2>2. CASE Add  BY <2>2, AddKeepsLInv
  <2>3. CASE FgSet \/ BgSet  BY <2>3, SetKeepsLInv
  <2>4. CASE FgCont \/ BgCont  BY <2>4, ContKeepsLInv
  <2> QED  BY <1>2, <2>1, <2>2, <2>3, <2>4, QuietStepsKeepLInv DEF MainStep
<1>3. CASE Handler  BY <1>3, HandlerKeepsLInv
<1>4. CASE \E sig \in Signals : Deliver(sig)  BY <1>4, DeliverKeepsLInv
<1>5. CASE Children \/ (\E sig \in Keys : Press(sig))  BY <1>5, OutsideKeepsLInv
<1>6. CASE Rest \/ UNCHANGED vars
  <2>1. UNCHANGED vars  BY <1>6 DEF Rest
  <2>2. UNCHANGED <<alive, jobs, pc, locals, blocked, pending, handlers, kernel, child>>  BY <2>1 DEF vars, locals
  <2>3. TypeOK'  BY <2>2 DEF LInv, TypeOK, jobs, locals, kernel
  <2> QED  BY <2>2, <2>3, MovesKeepLInv
<1> QED  BY <1>1, <1>2, <1>3, <1>4, <1>5, <1>6 DEF Next, ShellStep

\* Whatever the user types and however the handlers interleave with fork,
\* addjob and fg, each child has one slot from addjob until the handler that
\* reaps it deletes its job: no child is forgotten, no slot outlives its child.
THEOREM ChildrenAreListed == Spec => []JobsListed
<1>1. LInv => JobsListed
  <2> SUFFICES ASSUME LInv, alive, NEW p \in Pids
               PROVE  Cardinality(SlotOf(p)) = IF process[p] = "none" THEN (IF p \in Reaped THEN 1 ELSE 0)
                                               ELSE IF pc = "add" /\ p = child THEN 0 ELSE 1
    BY DEF JobsListed, ChildrenListed, LInv
  <2>1. IF Expected(p) THEN ListedOnce(p) ELSE SlotOf(p) = {}  BY DEF LInv, Exact
  <2>2. ListedOnce(p) => Cardinality(SlotOf(p)) = 1  BY FS_Singleton DEF ListedOnce
  <2>3. SlotOf(p) = {} => Cardinality(SlotOf(p)) = 0  BY FS_EmptySet
  <2> QED  BY <2>1, <2>2, <2>3 DEF Expected
<1> QED  BY <1>1, InitLInv, StepLInv, PTL DEF Spec

---------------------------------------------------------------------------
(* The list tells stopped jobs from running ones *)

\* A child whose stop has been reported and that has not been continued since.
Halted(p) == process[p] \in {"stopped", "doomed"} /\ p \notin unreported

\* The stopped children a handler is about to mark.
Marks == {f.pid : f \in {g \in Frames : g.at = "update" /\ g.stopped}}

\* Where a stop is known: in the list, to the handler about to mark it, or to
\* bg, which has marked the job running and is about to make it so.
Marked(p) == \/ \E s \in Slots : job_list[s].pid = p /\ job_list[s].state = "ST"
             \/ p \in Marks
             \/ pc = "bgCont" /\ job_list[job].pid = p

MarkedHalted == \A s \in Slots : job_list[s].state = "ST" => job_list[s].pid \in Pids /\ Halted(job_list[s].pid)
MarksHalted == \A p \in Marks : p \in Pids /\ Halted(p)
HaltedMarked == \A p \in Pids : Halted(p) => Marked(p)
UnreportedStopped == \A p \in unreported : process[p] \in {"stopped", "doomed"}
WaitableSignalled == Waitable # {} => "SIGCHLD" \in pending \/ Handling("SIGCHLD")

\* While bg works on a job nothing happens to it.
BgHolds == /\ pc = "bgSet" => job_list[job].state = "ST"
           /\ pc = "bgCont" => /\ job_list[job].pid \in Pids /\ Halted(job_list[job].pid)
                               /\ job_list[job].state # "ST" /\ job_list[job].pid \notin Marks

SInv == MarkedHalted /\ MarksHalted /\ HaltedMarked /\ UnreportedStopped /\ WaitableSignalled /\ BgHolds

\* Whether a signal is being handled can be read off the frames.
LEMMA HandlingFrames == \A sig : Handling(sig) <=> \E f \in Frames : f.sig = sig
BY DEF Handling, Frames

\* The same of the next state.
LEMMA HandlingPrime == \A sig : Handling(sig)' <=> \E f \in Frames' : f.sig = sig
BY DEF Handling, Frames

\* While no handler runs none is about to mark a child.
LEMMA NoMarks == handlers = <<>> => Marks = {}
BY EmptySeq DEF Marks, Frames

\* At first nothing is stopped.
LEMMA InitSInv == Init => SInv
<1> SUFFICES ASSUME Init PROVE SInv  OBVIOUS
<1>1. Marks = {}  BY NoMarks DEF Init
<1>2. \A s \in Slots : job_list[s].state = "UNDEF"  BY DEF Init, Vacant
<1>3. \A p \in Pids : process[p] = "none"  BY DEF Init
<1>4. unreported = {} /\ Waitable = {}  BY <1>3 DEF Init, Waitable
<1>5. pc = "prompt"  BY DEF Init
<1> QED  BY <1>1, <1>2, <1>3, <1>4, <1>5 DEF SInv, MarkedHalted, MarksHalted, HaltedMarked, Halted,
            UnreportedStopped, WaitableSignalled, BgHolds

\* What changes neither the list nor which children are known to be stopped,
\* and tells the shell of any child there is to wait for.
LEMMA Agrees ==
    ASSUME SInv, job_list' = job_list, Marks' = Marks,
           pc = "bgCont" => pc' = "bgCont", pc' = "bgCont" => pc = "bgCont" /\ job' = job,
           pc' = "bgSet" => job_list[job'].state = "ST",
           \A p \in Pids : Halted(p)' <=> Halted(p),
           UnreportedStopped', WaitableSignalled'
    PROVE  SInv'
<1> USE DEF SInv
<1>1. MarkedHalted' /\ MarksHalted'  BY DEF MarkedHalted, MarksHalted
<1>2. HaltedMarked'  BY DEF HaltedMarked, Marked
<1>3. BgHolds'  BY DEF BgHolds
<1> QED  BY <1>1, <1>2, <1>3

\* The statements of the main program that touch neither the list nor a child.
LEMMA QuietStepsKeepSInv ==
    ASSUME SInv,
           \/ ForkFails \/ AddFails \/ Test \/ Suspend \/ Woken \/ Restore \/ BgCheck \/ Quit
           \/ LookUp("bg") \/ (\E background \in BOOLEAN : Run(background))
           \/ Rest \/ UNCHANGED vars
    PROVE  SInv'
<1>1. UNCHANGED <<job_list, pending, handlers, kernel>>
  BY DEF ForkFails, AddFails, Test, Suspend, Woken, Restore, BgCheck, Quit, LookUp, Run, Rest, vars, jobs
<1>2. /\ (pc' # "bgCont" /\ pc # "bgCont") \/ UNCHANGED <<pc, job>>
      /\ pc' = "bgSet" => job_list[job'].state = "ST"
  BY DEF ForkFails, AddFails, Test, Suspend, Woken, Restore, BgCheck, Quit, LookUp, Run, Rest, vars, locals, Goto,
         SInv, BgHolds
<1>3. Marks' = Marks /\ \A p : Halted(p)' <=> Halted(p)  BY <1>1 DEF Marks, Frames, Halted, kernel
<1>4. UnreportedStopped'  BY <1>1 DEF SInv, UnreportedStopped, kernel
<1>5. WaitableSignalled'  BY <1>1 DEF SInv, WaitableSignalled, Waitable, Handling, kernel
<1> QED  BY <1>1, <1>2, <1>3, <1>4, <1>5, Agrees

\* A child that is forked is not stopped.
LEMMA ForkKeepsSInv == ASSUME SInv, TypeOK, Fork PROVE SInv'
<1>1. PICK c \in Pids : process[c] = "none" /\ process' = [process EXCEPT ![c] = "forked"]  BY DEF Fork
<1>2. UNCHANGED <<job_list, job, pending, handlers, unreported>> /\ pc = "fork" /\ pc' = "add"
  BY DEF Fork, Goto, jobs
<1>3. \A p \in Pids : process'[p] = IF p = c THEN "forked" ELSE process[p]  BY <1>1 DEF TypeOK
<1>4. \A p \in unreported : p \in Pids /\ p # c  BY <1>1 DEF SInv, UnreportedStopped, TypeOK
<1>5. Marks' = Marks  BY <1>2 DEF Marks, Frames
<1>6. \A p \in Pids : Halted(p)' <=> Halted(p)  BY <1>1, <1>2, <1>3 DEF Halted
<1>7. UnreportedStopped'  BY <1>2, <1>3, <1>4 DEF SInv, UnreportedStopped
<1>8. WaitableSignalled'
  <2>1. Waitable' = Waitable  BY <1>1, <1>2, <1>3 DEF Waitable
  <2> QED  BY <1>2, <2>1 DEF SInv, WaitableSignalled, Handling
<1> QED  BY <1>2, <1>5, <1>6, <1>7, <1>8, Agrees

\* A child that stops or ends is reported by a signal.
LEMMA OutsideKeepsSInv ==
    ASSUME SInv, TypeOK, Children \/ (\E sig \in Keys : Press(sig))
    PROVE  SInv'
<1>1. UNCHANGED <<job_list, job, pc, handlers>>
  BY DEF Children, Exec, Exit, Stop, Press, jobs, locals
<1>2. Marks' = Marks /\ \A sig : Handling(sig)' <=> Handling(sig)  BY <1>1 DEF Marks, Frames, Handling
<1>3. /\ \A p \in Pids : Halted(p)' <=> Halted(p)
      /\ UnreportedStopped' /\ WaitableSignalled'
  <2>1. CASE \E sig \in Keys : Press(sig)
    <3>1. UNCHANGED kernel /\ pending \subseteq pending'  BY <2>1 DEF Press, Raise
    <3> QED  BY <1>2, <3>1 DEF Halted, SInv, UnreportedStopped, WaitableSignalled, Waitable, kernel
  <2>2. ASSUME NEW p \in Pids, Exec(p) \/ Exit(p) \/ Stop(p)
        PROVE  /\ \A q \in Pids : Halted(q)' <=> Halted(q)
               /\ UnreportedStopped' /\ WaitableSignalled'
    <3>1. p \notin unreported /\ unreported \subseteq Pids
      BY <2>2 DEF SInv, UnreportedStopped, TypeOK, Exec, Exit, Stop
    <3>2. process[p] \in {"forked", "running"}  BY <2>2 DEF Exec, Exit, Stop
    <3>3. PICK new \in {"running", "zombie", "stopped"} :
             /\ process' = [process EXCEPT ![p] = new]
             /\ unreported' = IF new = "stopped" THEN unreported \cup {p} ELSE unreported
             /\ pending' = IF new = "running" THEN pending ELSE pending \cup {"SIGCHLD"}
      BY <2>2 DEF Exec, Exit, Stop, Raise
    <3>4. \A q \in Pids : process'[q] = IF q = p THEN new ELSE process[q]  BY <3>3 DEF TypeOK
    <3>5. \A q \in Pids : Halted(q)' <=> Halted(q)  BY <3>1, <3>2, <3>3, <3>4 DEF Halted
    <3>6. UnreportedStopped'  BY <3>1, <3>3, <3>4 DEF SInv, UnreportedStopped
    <3>7. WaitableSignalled'
      <4>1. CASE new = "running"
        <5>1. Waitable' \subseteq Waitable /\ pending' = pending  BY <3>3, <3>4, <4>1 DEF Waitable
        <5> QED  BY <1>2, <5>1 DEF SInv, WaitableSignalled
      <4>2. CASE new # "running"  BY <3>3, <4>2 DEF WaitableSignalled
      <4> QED  BY <4>1, <4>2
    <3> QED  BY <3>5, <3>6, <3>7
  <2> QED  BY <2>1, <2>2 DEF Children
<1>4. pc' = "bgSet" => job_list[job'].state = "ST"  BY <1>1 DEF SInv, BgHolds
<1> QED  BY <1>1, <1>2, <1>3, <1>4, Agrees

\* A signal let in has a handler.
LEMMA DeliverKeepsSInv == ASSUME SInv, Apart, NEW sig \in Signals, Deliver(sig) PROVE SInv'
<1> DEFINE f == [sig |-> sig, at |-> "begin", pid |-> NoPid, stopped |-> FALSE]
<1>1. /\ UNCHANGED <<job_list, job, kernel>> /\ pending' = pending \ {sig}
      /\ handlers' = <<f>> \o handlers /\ ~Handling(f.sig) /\ f \in Frame
  BY DEF Deliver, Frame, jobs, locals
<1>2. f.sig = sig /\ f.at = "begin"  OBVIOUS
<1> HIDE DEF f
<1>3. Frames' = Frames \cup {f}  BY <1>1, DeliverFrames
<1>4. pc' = pc \/ (pc' \in {"woken", "fgWoken"} /\ pc \in {"suspend", "fgSuspend"})
  <2>1. pc' = CASE pc = "suspend" -> "woken" [] pc = "fgSuspend" -> "fgWoken" [] OTHER -> pc  BY DEF Deliver
  <2> QED  BY <2>1
<1>5. Marks' = Marks  BY <1>2, <1>3 DEF Marks
<1>6. \A p \in Pids : Halted(p)' <=> Halted(p)  BY <1>1 DEF Halted, kernel
<1>7. UnreportedStopped'  BY <1>1 DEF SInv, UnreportedStopped, kernel
<1>8. WaitableSignalled'
  <2>1. Waitable' = Waitable  BY <1>1 DEF Waitable, kernel
  <2>2. Handling("SIGCHLD") => Handling("SIGCHLD")'  BY <1>3, HandlingFrames, HandlingPrime
  <2>3. sig = "SIGCHLD" => Handling("SIGCHLD")'  BY <1>2, <1>3, HandlingPrime
  <2> QED  BY <1>1, <2>1, <2>2, <2>3 DEF SInv, WaitableSignalled
<1>9. pc = "bgCont" => pc' = "bgCont"  BY <1>4
<1>10. pc' = "bgCont" => pc = "bgCont" /\ job' = job  BY <1>1, <1>4
<1>11. pc' = "bgSet" => job_list[job'].state = "ST"  BY <1>1, <1>4 DEF SInv, BgHolds
<1> QED  BY <1>1, <1>5, <1>6, <1>7, <1>8, <1>9, <1>10, <1>11, Agrees

\* A frame that goes, or goes on to kill, was to mark nobody.
LEMMA LeavingMarks ==
    ASSUME Apart, handlers # <<>>, Inner.at # "update",
           Return \/ \E p \in Pids : Become("kill", p, FALSE)
    PROVE  Marks' = Marks /\ (Inner.sig # "SIGCHLD" => (Handling("SIGCHLD")' <=> Handling("SIGCHLD")))
<1>1. CASE Return
  <2>1. Inner \in Frames /\ Frames' = Frames \ {Inner}  BY <1>1, ReturnFrames
  <2>2. Marks' = Marks  BY <2>1 DEF Marks
  <2> QED  BY <2>1, <2>2, HandlingFrames, HandlingPrime
<1>2. ASSUME NEW p \in Pids, Become("kill", p, FALSE)
      PROVE  Marks' = Marks /\ (Inner.sig # "SIGCHLD" => (Handling("SIGCHLD")' <=> Handling("SIGCHLD")))
  <2> DEFINE f == [sig |-> Inner.sig, at |-> "kill", pid |-> p, stopped |-> FALSE]
  <2>1. Inner \in Frames /\ Frames' = (Frames \ {Inner}) \cup {f}  BY <1>2, BecomeFrames
  <2>2. f.at = "kill" /\ f.sig = Inner.sig  OBVIOUS
  <2> HIDE DEF f
  <2>3. Marks' = Marks  BY <2>1, <2>2 DEF Marks
  <2> QED  BY <2>1, <2>2, <2>3, HandlingFrames, HandlingPrime
<1> QED  BY <1>1, <1>2

\* A key stops or ends children but continues none; the handler of SIGCHLD
\* ends when there is nobody to wait for.
LEMMA LeavingKeepsSInv ==
    ASSUME SInv, LInv, NoneLeft \/ FindForeground \/ ForwardKey \/ ForwardFails
    PROVE  SInv'
<1> USE DEF kernel
<1>0. Apart /\ TypeOK /\ FramesSound /\ UNCHANGED <<job_list, job, pc>>
  BY DEF LInv, NoneLeft, FindForeground, ForwardKey, ForwardFails, jobs, locals
<1>1. /\ Marks' = Marks /\ \A p \in Pids : Halted(p)' <=> Halted(p)
      /\ UnreportedStopped' /\ WaitableSignalled'
  <2>1. CASE NoneLeft
    <3>1. handlers # <<>> /\ Inner.at = "begin" /\ Return /\ UNCHANGED kernel /\ Waitable = {}
      BY <2>1 DEF NoneLeft, In
    <3>2. Marks' = Marks  BY <1>0, <3>1, LeavingMarks
    <3> QED  BY <3>1, <3>2 DEF Halted, SInv, UnreportedStopped, WaitableSignalled, Waitable
  <2>2. CASE FindForeground
    <3>1. handlers # <<>> /\ Inner.at = "begin" /\ Inner.sig \in Keys /\ UNCHANGED <<kernel, pending>>
      BY <2>2 DEF FindForeground, In
    <3>2. Return \/ \E p \in Pids : Become("kill", p, FALSE)
      BY <1>0, <2>2, FgPidIsChild DEF FindForeground
    <3>3. Inner.sig # "SIGCHLD"  BY <3>1, CommandsAssumption
    <3>4. Marks' = Marks /\ (Handling("SIGCHLD")' <=> Handling("SIGCHLD"))
      BY <1>0, <3>1, <3>2, <3>3, LeavingMarks
    <3> QED  BY <3>1, <3>4 DEF Halted, SInv, UnreportedStopped, WaitableSignalled, Waitable
  <2>3. CASE ForwardKey
    <3> DEFINE c == Inner.pid
    <3>1. handlers # <<>> /\ Inner.at = "kill" /\ Inner.sig \in Keys /\ Return /\ Signalled(c, Inner.sig)
      BY <2>3 DEF ForwardKey, In
    <3>2. Inner.sig \in {"SIGINT", "SIGTSTP"}  BY <3>1, CommandsAssumption
    <3>3. Marks' = Marks /\ (Handling("SIGCHLD")' <=> Handling("SIGCHLD"))
      BY <1>0, <3>1, <3>2, LeavingMarks
    <3>4. c \in Pids
      <4>1. Inner \in Frames  BY <1>0, <3>1, ReturnFrames
      <4> QED  BY <1>0, <3>1, <4>1 DEF FramesSound
    <3> HIDE DEF c
    <3>5. CASE UNCHANGED <<kernel, pending>>
      BY <3>3, <3>5 DEF Halted, SInv, UnreportedStopped, WaitableSignalled, Waitable
    <3>6. CASE process[c] = "running" /\ pending' = pending \cup {"SIGCHLD"} /\
               \E new \in {"zombie", "stopped"} :
                  /\ process' = [process EXCEPT ![c] = new]
                  /\ unreported' = IF new = "stopped" THEN unreported \cup {c} ELSE unreported
      <4>1. PICK new \in {"zombie", "stopped"} :
                  /\ process' = [process EXCEPT ![c] = new]
                  /\ unreported' = IF new = "stopped" THEN unreported \cup {c} ELSE unreported
        BY <3>6
      <4>2. \A p \in Pids : process'[p] = IF p = c THEN new ELSE process[p]  BY <1>0, <4>1 DEF TypeOK
      <4>3. c \notin unreported /\ unreported \subseteq Pids  BY <1>0, <3>6 DEF SInv, UnreportedStopped, TypeOK
      <4>4. \A p \in Pids : Halted(p)' <=> Halted(p)  BY <3>6, <4>1, <4>2, <4>3 DEF Halted
      <4>5. UnreportedStopped'  BY <3>4, <4>1, <4>2, <4>3 DEF SInv, UnreportedStopped
      <4> QED  BY <3>3, <3>6, <4>4, <4>5 DEF WaitableSignalled
    <3>7. CASE process[c] = "stopped" /\ process' = [process EXCEPT ![c] = "doomed"] /\ UNCHANGED <<unreported, pending>>
      <4>1. \A p \in Pids : process'[p] = IF p = c THEN "doomed" ELSE process[p]  BY <1>0, <3>7 DEF TypeOK
      <4>2. unreported \subseteq Pids  BY <1>0 DEF TypeOK
      <4>3. Waitable' = Waitable  BY <3>7, <4>1 DEF Waitable
      <4> QED  BY <3>3, <3>7, <4>1, <4>2, <4>3 DEF Halted, SInv, UnreportedStopped, WaitableSignalled
    <3> QED  BY <3>1, <3>2, <3>5, <3>6, <3>7 DEF Signalled, Raise
  <2>4. CASE ForwardFails
    <3>1. UNCHANGED <<handlers, kernel, pending>>  BY <2>4 DEF ForwardFails
    <3> QED  BY <3>1 DEF Marks, Frames, Handling, Halted, SInv, UnreportedStopped, WaitableSignalled, Waitable
  <2> QED  BY <2>1, <2>2, <2>3, <2>4
<1>2. pc' = "bgSet" => job_list[job'].state = "ST"  BY <1>0 DEF SInv, BgHolds
<1> QED  BY <1>0, <1>1, <1>2, Agrees

\* The handler that waitpid gives a stopped child is to mark it.
LEMMA WaitpidKeepsSInv == ASSUME SInv, LInv, Waitpid PROVE SInv'
<1>1. /\ UNCHANGED <<job_list, pc, job, pending>> /\ handlers # <<>> /\ Inner.sig = "SIGCHLD" /\ Inner.at = "begin"
      /\ Apart /\ FramesSound /\ TypeOK
  BY DEF Waitpid, In, LInv, jobs, locals
<1>2. PICK c \in Waitable :
          /\ Become("update", c, c \in unreported)
          /\ process' = IF c \in unreported THEN process ELSE [process EXCEPT ![c] = "none"]
          /\ unreported' = unreported \ {c}
  BY DEF Waitpid
<1>3. c \in Pids /\ (c \in unreported \/ process[c] = "zombie") /\ unreported \subseteq Pids
  BY <1>1 DEF Waitable, TypeOK
<1>4. \A p \in Pids : process'[p] = IF p = c /\ c \notin unreported THEN "none" ELSE process[p]
  BY <1>1, <1>2 DEF TypeOK
<1> DEFINE f == [sig |-> Inner.sig, at |-> "update", pid |-> c, stopped |-> c \in unreported]
<1>5. Frames' = (Frames \ {Inner}) \cup {f} /\ \A g \in Frames \ {Inner} : g.sig # Inner.sig
  <2>1. (c \in unreported) \in BOOLEAN /\ c \in Pids \cup {NoPid}  BY <1>3
  <2> QED  BY <1>1, <1>2, <2>1, BecomeFrames
<1>6. f.sig = "SIGCHLD" /\ f.at = "update" /\ f.pid = c /\ (f.stopped <=> c \in unreported)  BY <1>1
<1> HIDE DEF f
<1>7. Marks = {}  BY <1>1, <1>5 DEF FramesSound, Marks
<1>8. \A p : p \in Marks' <=> p = c /\ c \in unreported
  <2>1. \A g \in Frames \ {Inner} : g.at # "update"  BY <1>1, <1>5 DEF FramesSound
  <2>2. \A g \in Frames' : g.at = "update" => g = f  BY <1>5, <2>1
  <2>3. f \in Frames'  BY <1>5
  <2> QED  BY <1>6, <2>2, <2>3 DEF Marks
<1>9. \A p \in Pids : Halted(p)' <=> Halted(p) \/ (p = c /\ c \in unreported)
  BY <1>2, <1>3, <1>4 DEF Halted, SInv, UnreportedStopped
<1>10. MarkedHalted'  BY <1>1, <1>9 DEF SInv, MarkedHalted
<1>11. MarksHalted'  BY <1>3, <1>8, <1>9 DEF MarksHalted
<1>12. HaltedMarked'  BY <1>1, <1>7, <1>8, <1>9 DEF SInv, HaltedMarked, Marked
<1>13. UnreportedStopped'  BY <1>2, <1>3, <1>4 DEF SInv, UnreportedStopped
<1>14. WaitableSignalled'
  <2>1. f \in Frames'  BY <1>5
  <2> QED  BY <1>6, <2>1, HandlingPrime DEF WaitableSignalled
<1>15. BgHolds'
  <2>1. pc = "bgCont" => job_list[job].pid \in Pids /\ Halted(job_list[job].pid)  BY DEF SInv, BgHolds
  <2>2. pc = "bgCont" => ~(job_list[job].pid = c /\ c \in unreported)  BY <2>1 DEF Halted
  <2> QED  BY <1>1, <1>8, <1>9, <2>1, <2>2 DEF SInv, BgHolds
<1> QED  BY <1>10, <1>11, <1>12, <1>13, <1>14, <1>15 DEF SInv

\* What the handler of SIGCHLD was to mark it has marked; what it has reaped it
\* deletes.
LEMMA UpdateJobKeepsSInv == ASSUME SInv, LInv, UpdateJob PROVE SInv'
<1> USE DEF kernel, locals
<1>1. /\ UNCHANGED <<alive, pc, job, pending, kernel>> /\ handlers # <<>> /\ alive
      /\ Inner.sig = "SIGCHLD" /\ Inner.at = "update" /\ Become("begin", NoPid, FALSE)
      /\ Apart /\ FramesSound /\ TypeOK /\ Exact
  BY DEF UpdateJob, In, LInv
<1> DEFINE c == Inner.pid
           f == [sig |-> Inner.sig, at |-> "begin", pid |-> NoPid, stopped |-> FALSE]
<1>2. /\ Inner \in Frames /\ Frames' = (Frames \ {Inner}) \cup {f}
      /\ \A g \in Frames \ {Inner} : g.sig # Inner.sig
  BY <1>1, BecomeFrames
<1>3. f.at = "begin" /\ f.sig = "SIGCHLD"  BY <1>1
<1> HIDE DEF f
<1>4. c \in Pids /\ (~Inner.stopped => process[c] = "none")  BY <1>1, <1>2 DEF FramesSound
<1>5. Marks' = {} /\ Marks = IF Inner.stopped THEN {c} ELSE {}
  <2>1. \A g \in Frames \ {Inner} : g.at # "update"  BY <1>1, <1>2 DEF FramesSound
  <2>2. Marks' = {}  BY <1>2, <1>3, <2>1 DEF Marks
  <2>3. \A p \in Marks : Inner.stopped /\ p = c  BY <2>1 DEF Marks
  <2>4. Inner.stopped => c \in Marks  BY <1>1, <1>2 DEF Marks
  <2> QED  BY <2>2, <2>3, <2>4
<1> HIDE DEF c
<1>6. \A p : Halted(p)' <=> Halted(p)  BY <1>1 DEF Halted
<1>7. UnreportedStopped'  BY <1>1 DEF SInv, UnreportedStopped
<1>8. WaitableSignalled'
  <2>1. f \in Frames'  BY <1>2
  <2> QED  BY <1>3, <2>1, HandlingPrime DEF WaitableSignalled
<1>9. MarkedHalted' /\ HaltedMarked' /\ BgHolds'
  <2> USE DEF SInv
  <2>0. job \in Slots /\ SlotsAreRecords  BY <1>1, TypedSlots DEF TypeOK
  <2>1. CASE Inner.stopped
    <3>1. PICK s \in SlotOf(c) : SetState(s, "ST")  BY <2>1 DEF UpdateJob, c
    <3>2. s \in Slots /\ job_list[s].pid = c  BY <3>1 DEF SlotOf
    <3>3. \A r \in Slots : /\ job_list'[r].pid = job_list[r].pid
                           /\ job_list'[r].state = IF r = s THEN "ST" ELSE job_list[r].state
      BY <2>0, <3>1, <3>2, SetStateSets
    <3>4. c \in Marks /\ Halted(c)  BY <1>5, <2>1 DEF MarksHalted
    <3>5. MarkedHalted'  BY <1>4, <1>6, <3>2, <3>3, <3>4 DEF MarkedHalted
    <3>6. HaltedMarked'
      <4> SUFFICES ASSUME NEW p \in Pids, Halted(p) PROVE Marked(p)'
        BY <1>6 DEF HaltedMarked
      <4>1. Marked(p)  BY DEF HaltedMarked
      <4>2. p \in Marks => p = c  BY <1>5
      <4>3. \A r \in Slots : job_list[r].pid = p /\ job_list[r].state = "ST" =>
              job_list'[r].pid = p /\ job_list'[r].state = "ST"  BY <3>3
      <4>4. job_list'[s].pid = c /\ job_list'[s].state = "ST"  BY <3>2, <3>3
      <4>5. pc = "bgCont" /\ job_list[job].pid = p => pc' = "bgCont" /\ job_list'[job'].pid = p
        BY <1>1, <2>0, <3>3
      <4> QED  BY <3>2, <4>1, <4>2, <4>3, <4>4, <4>5 DEF Marked
    <3>7. BgHolds'
      BY <1>1, <1>5, <1>6, <2>0, <3>2, <3>3, <3>4 DEF BgHolds
    <3> QED  BY <3>5, <3>6, <3>7
  <2>2. CASE ~Inner.stopped
    <3>1. DeleteJob(c)  BY <2>2 DEF UpdateJob, c
    <3>2. \A r \in Slots : job_list'[r] = job_list[r] \/ job_list'[r] = Vacant
      BY <2>0, <3>1, DeleteJobClears
    <3>3. SlotOf(c) = {} \/ ListedOnce(c)  BY <1>1, <1>4 DEF Exact
    <3>4. \A q \in Pids \ {c} : SlotOf(q)' = SlotOf(q)
      <4>1. \A x \in Pids : (x = c) => DeleteJob(x) /\ (SlotOf(x) = {} \/ ListedOnce(x))
        BY <3>1, <3>3
      <4>2. \A x \in Pids : (x = c) => \A q \in Pids \ {x} : SlotOf(q)' = SlotOf(q)
        BY <1>1, <4>1, DeleteJobTyped
      <4> QED  BY <1>4, <4>2
    <3>5. \A p \in Pids : Halted(p) => p # c  BY <1>4, <2>2 DEF Halted
    <3>6. \A r \in Slots : job_list[r].pid \in Pids \ {c} => job_list'[r] = job_list[r]
      <4>1. Vacant.pid \notin Pids  BY PidsAssumption DEF Vacant
      <4> QED  BY <3>2, <3>4, <4>1 DEF SlotOf
    <3>7. Vacant.state = "UNDEF"  BY DEF Vacant
    <3>8. MarkedHalted'
      <4>1. \A r \in Slots : job_list'[r].state = "ST" => job_list'[r] = job_list[r]  BY <3>2, <3>7
      <4> QED  BY <1>6, <4>1 DEF MarkedHalted
    <3>9. HaltedMarked'
      <4> SUFFICES ASSUME NEW p \in Pids, Halted(p) PROVE Marked(p)'
        BY <1>6 DEF HaltedMarked
      <4>1. Marked(p) /\ p \in Pids \ {c} /\ p \notin Marks  BY <1>5, <2>2, <3>5 DEF HaltedMarked
      <4> QED  BY <1>1, <2>0, <3>6, <4>1 DEF Marked
    <3>10. pc \in {"bgSet", "bgCont"} => job_list'[job] = job_list[job]
      <4>1. pc \in {"bgSet", "bgCont"} => job_list[job].pid \in Pids /\ Halted(job_list[job].pid)
        BY <2>0 DEF BgHolds, MarkedHalted
      <4> QED  BY <2>0, <3>5, <3>6, <4>1
    <3>11. BgHolds'  BY <1>1, <1>5, <1>6, <3>10 DEF BgHolds
    <3> QED  BY <3>8, <3>9, <3>11
  <2> QED  BY <2>1, <2>2
<1>10. MarksHalted'  BY <1>5 DEF MarksHalted
<1> QED  BY <1>7, <1>8, <1>9, <1>10 DEF SInv

\* A new job runs, and no stop of its child has been reported.
LEMMA AddKeepsSInv == ASSUME SInv, LInv, Add PROVE SInv'
<1> USE DEF SInv
<1>1. /\ UNCHANGED <<child, pending, handlers, kernel>> /\ alive /\ handlers = <<>>
      /\ pc = "add" /\ pc' \in {"restore", "test"} /\ SlotOf(NoPid) # {}
      /\ \E state \in {"FG", "BG"} : AddJob(child, state)
      /\ TypeOK /\ SlotsAreRecords
  BY TypedSlots DEF Add, Goto, LInv
<1>2. PICK state \in {"FG", "BG"} : AddJob(child, state)  BY <1>1
<1>3. child \in Pids /\ process[child] # "none" /\ nextjid <= JidBound /\ SlotOf(child) = {}
  BY <1>1 DEF LInv, Starting, Exact, Expected
<1>4. \A q \in Pids \ {child} : SlotOf(q)' = SlotOf(q)  BY <1>1, <1>2, <1>3, AddJobTyped
<1> DEFINE s == Min(SlotOf(NoPid))
<1>5. s \in Slots /\ \A r \in Slots :
          IF r = s THEN job_list'[r].pid = child /\ job_list'[r].state = state ELSE job_list'[r] = job_list[r]
  BY <1>1, <1>2, AddJobFills
<1> HIDE DEF s
<1>6. Marks = {} /\ Marks' = {}
  <2>1. Frames' = Frames  BY <1>1 DEF Frames
  <2>2. Marks' = Marks  BY <2>1 DEF Marks
  <2> QED  BY <1>1, <2>2, NoMarks
<1>7. \A p : Halted(p)' <=> Halted(p)  BY <1>1 DEF Halted, kernel
<1>8. ~Halted(child)  BY <1>1, <1>3, <1>6 DEF HaltedMarked, Marked, SlotOf
<1>9. MarkedHalted'  BY <1>5, <1>7 DEF MarkedHalted
<1>10. HaltedMarked'
  <2> SUFFICES ASSUME NEW p \in Pids, Halted(p) PROVE Marked(p)'
    BY <1>7 DEF HaltedMarked
  <2>1. PICK r \in Slots : job_list[r].pid = p /\ job_list[r].state = "ST"
    BY <1>1, <1>6 DEF HaltedMarked, Marked
  <2>2. p # child  BY <1>8
  <2>3. r # s  BY <1>4, <1>5, <2>1, <2>2 DEF SlotOf
  <2> QED  BY <1>5, <2>1, <2>3 DEF Marked
<1>11. UnreportedStopped' /\ WaitableSignalled'
  BY <1>1 DEF UnreportedStopped, WaitableSignalled, Waitable, Handling, kernel
<1> QED  BY <1>1, <1>6, <1>9, <1>10, <1>11 DEF MarksHalted, BgHolds

\* bg marks a stopped job running and remembers that its child is not yet.
LEMMA BgSetKeepsSInv == ASSUME SInv, TypeOK, BgSet PROVE SInv'
<1> USE DEF SInv
<1>1. /\ UNCHANGED <<job, pending, handlers, kernel>> /\ handlers = <<>>
      /\ pc = "bgSet" /\ pc' = "bgCont" /\ SetState(job, "BG") /\ job \in Slots /\ SlotsAreRecords
  BY TypedSlots DEF BgSet, Goto, locals, TypeOK
<1>2. \A r \in Slots : /\ job_list'[r].pid = job_list[r].pid
                       /\ job_list'[r].state = IF r = job THEN "BG" ELSE job_list[r].state
  BY <1>1, SetStateSets
<1>3. Marks = {} /\ Marks' = {}
  <2>1. Frames' = Frames  BY <1>1 DEF Frames
  <2>2. Marks' = Marks  BY <2>1 DEF Marks
  <2> QED  BY <1>1, <2>2, NoMarks
<1>4. \A p : Halted(p)' <=> Halted(p)  BY <1>1 DEF Halted, kernel
<1>5. job_list[job].pid \in Pids /\ Halted(job_list[job].pid)  BY <1>1 DEF BgHolds, MarkedHalted
<1>6. MarkedHalted'  BY <1>2, <1>4 DEF MarkedHalted
<1>7. HaltedMarked'
  <2> SUFFICES ASSUME NEW p \in Pids, Halted(p) PROVE Marked(p)'
    BY <1>4 DEF HaltedMarked
  <2>1. PICK r \in Slots : job_list[r].pid = p /\ job_list[r].state = "ST"
    BY <1>1, <1>3 DEF HaltedMarked, Marked
  <2> QED  BY <1>1, <1>2, <2>1 DEF Marked
<1>8. UnreportedStopped' /\ WaitableSignalled'
  BY <1>1 DEF UnreportedStopped, WaitableSignalled, Waitable, Handling, kernel
<1>9. BgHolds'  BY <1>1, <1>2, <1>3, <1>4, <1>5 DEF BgHolds
<1> QED  BY <1>3, <1>6, <1>7, <1>8, <1>9 DEF MarksHalted

\* bg wakes the child it has marked running.
LEMMA BgContKeepsSInv == ASSUME SInv, LInv, BgCont PROVE SInv'
<1> USE DEF SInv
<1> DEFINE c == job_list[job].pid
<1>1. /\ UNCHANGED <<alive, job_list, job, handlers>> /\ handlers = <<>> /\ alive
      /\ pc = "bgCont" /\ pc' = "prompt" /\ c \in Pids /\ Halted(c) /\ job_list[job].state # "ST"
      /\ TypeOK /\ job \in Slots
  BY DEF BgCont, Cont, Goto, LInv, TypeOK, BgHolds, jobs, locals
<1>2. Continue(c)
  <2>1. c # NoPid  BY <1>1, PidsAssumption
  <2> QED  BY <2>1 DEF BgCont, Cont
<1>3. ListedOnce(c)  BY <1>1 DEF LInv, Exact, Expected, Halted
<1>4. c = job_list[job].pid  OBVIOUS
<1> HIDE DEF c
<1>5. \A r \in Slots : job_list[r].pid = c => r = job
  BY <1>1, <1>3, <1>4 DEF ListedOnce, SlotOf
<1>6. PICK new \in {"zombie", "running"} :
          /\ process' = [process EXCEPT ![c] = new] /\ unreported' = unreported \ {c}
          /\ pending' = pending \cup {"SIGCHLD"}
  BY <1>1, <1>2 DEF Continue, Halted, Raise
<1>7. \A p \in Pids : process'[p] = IF p = c THEN new ELSE process[p]  BY <1>1, <1>6 DEF TypeOK
<1>8. \A p \in Pids : Halted(p)' <=> Halted(p) /\ p # c  BY <1>6, <1>7 DEF Halted
<1>9. Marks = {} /\ Marks' = {}
  <2>1. Frames' = Frames  BY <1>1 DEF Frames
  <2>2. Marks' = Marks  BY <2>1 DEF Marks
  <2> QED  BY <1>1, <2>2, NoMarks
<1>10. MarkedHalted'  BY <1>1, <1>5, <1>8 DEF MarkedHalted
<1>11. HaltedMarked'
  <2> SUFFICES ASSUME NEW p \in Pids, Halted(p), p # c PROVE Marked(p)'
    BY <1>8 DEF HaltedMarked
  <2>1. PICK r \in Slots : job_list[r].pid = p /\ job_list[r].state = "ST"
    BY <1>4, <1>9 DEF HaltedMarked, Marked
  <2> QED  BY <1>1, <2>1 DEF Marked
<1>12. UnreportedStopped'
  <2>1. unreported \subseteq Pids  BY <1>1 DEF TypeOK
  <2> QED  BY <1>6, <1>7, <2>1 DEF UnreportedStopped
<1>13. WaitableSignalled' /\ BgHolds'  BY <1>1, <1>6 DEF WaitableSignalled, BgHolds
<1> QED  BY <1>9, <1>10, <1>11, <1>12, <1>13 DEF MarksHalted

\* A shell whose user does not type fg never runs it.
NoFg == "fg" \notin Commands /\ pc \notin FgPoints

\* The shell starts at its prompt.
LEMMA InitNoFg == "fg" \notin Commands /\ Init => NoFg
BY DEF Init, NoFg, FgPoints

\* Nothing but the command leads to the statements of fg.
LEMMA StepNoFg == NoFg /\ [Next]_vars => NoFg'
<1> SUFFICES ASSUME NoFg, [Next]_vars PROVE NoFg'  OBVIOUS
<1> USE DEF NoFg, FgPoints
<1>1. CASE Command
  <2>1. (\E background \in BOOLEAN : Run(background)) \/ Quit \/ LookUp("bg")
    BY <1>1 DEF Command, BadArgument
  <2> QED  BY <2>1 DEF Run, Quit, LookUp, Goto
<1>2. CASE MainStep
  <2>1. ~ (FgCheck \/ FgSet \/ FgCont \/ FgTest \/ FgSuspend \/ FgWoken)
    BY DEF FgCheck, FgSet, FgCont, Cont, FgTest, FgSuspend, FgWoken, Goto
  <2> QED
    BY <1>2, <2>1 DEF MainStep, Fork, ForkFails, Add, AddFails, Test, Suspend, Woken, Restore,
                      BgCheck, BgSet, BgCont, Cont, Goto
<1>3. CASE Handler
  BY <1>3 DEF Handler, Waitpid, UpdateJob, NoneLeft, FindForeground, ForwardKey, ForwardFails
<1>4. ASSUME NEW sig \in Signals, Deliver(sig) PROVE NoFg'
  <2>1. pc' = CASE pc = "suspend" -> "woken" [] pc = "fgSuspend" -> "fgWoken" [] OTHER -> pc
    BY <1>4 DEF Deliver
  <2>2. CASE pc = "suspend"  BY <2>1, <2>2
  <2>3. CASE pc # "suspend"
    <3>1. pc # "fgSuspend"  OBVIOUS
    <3> QED  BY <2>1, <2>3, <3>1
  <2> QED  BY <2>2, <2>3
<1>5. CASE Children \/ (\E sig \in Keys : Press(sig)) \/ Rest \/ UNCHANGED vars
  BY <1>5 DEF Children, Exec, Exit, Stop, Press, Rest, vars
<1> QED  BY <1>1, <1>2, <1>3, <1>4, <1>5 DEF Next, ShellStep

\* Every step of a shell whose user does not type fg keeps the list true of
\* the children.
LEMMA StepSInv == NoFg /\ LInv /\ SInv /\ [Next]_vars => SInv'
<1> SUFFICES ASSUME NoFg, LInv, SInv, [Next]_vars PROVE SInv'  OBVIOUS
<1>0. "fg" \notin Commands /\ pc \notin FgPoints /\ TypeOK /\ Apart  BY DEF NoFg, LInv
<1>1. CASE Command
  <2>1. (\E background \in BOOLEAN : Run(background)) \/ Quit \/ LookUp("bg")
    BY <1>0, <1>1 DEF Command, BadArgument
  <2> QED  BY <2>1, QuietStepsKeepSInv
<1>2. CASE MainStep
  <2>1. CASE Fork  BY <1>0, <2>1, ForkKeepsSInv
  <2>2. CASE Add  BY <2>2, AddKeepsSInv
  <2>3. CASE BgSet  BY <1>0, <2>3, BgSetKeepsSInv
  <2>4. CASE BgCont  BY <2>4, BgContKeepsSInv
  <2>5. ~ (FgCheck \/ FgSet \/ FgCont \/ FgTest \/ FgSuspend \/ FgWoken)
    BY <1>0 DEF FgPoints, FgCheck, FgSet, FgCont, Cont, FgTest, FgSuspend, FgWoken, Goto
  <2> QED  BY <1>2, <2>1, <2>2, <2>3, <2>4, <2>5, QuietStepsKeepSInv DEF MainStep
<1>3. CASE Handler
  BY <1>3, WaitpidKeepsSInv, UpdateJobKeepsSInv, LeavingKeepsSInv DEF Handler
<1>4. CASE \E sig \in Signals : Deliver(sig)  BY <1>0, <1>4, DeliverKeepsSInv
<1>5. CASE Children \/ (\E sig \in Keys : Press(sig))  BY <1>0, <1>5, OutsideKeepsSInv
<1>6. CASE Rest \/ UNCHANGED vars  BY <1>6, QuietStepsKeepSInv
<1> QED  BY <1>1, <1>2, <1>3, <1>4, <1>5, <1>6 DEF Next, ShellStep

\* Once every signal has been handled the list tells the stopped jobs from the
\* running ones and holds no child that has ended, however the stops and ends
\* of the children fall between the statements of eval, bg and the handlers,
\* if the user does not type fg.
THEOREM ListTellsStopped == "fg" \notin Commands /\ Spec => []StatesAgree
<1>1. LInv /\ SInv => StatesAgree
  <2> SUFFICES ASSUME LInv, SInv, alive, handlers = <<>>, "SIGCHLD" \notin pending,
                      pc \notin {"add", "bgCont", "fgCont"},
                      NEW s \in Slots, job_list[s].pid # NoPid
               PROVE  /\ process[job_list[s].pid] # "zombie"
                      /\ job_list[s].state = "ST" <=> process[job_list[s].pid] \in {"stopped", "doomed"}
    BY DEF StatesAgree
  <2> DEFINE p == job_list[s].pid
  <2>1. p \in Pids
    <3>1. job_list[s] \in Job  BY TypedSlots DEF LInv
    <3> QED  BY <3>1 DEF Job
  <2>2. p = job_list[s].pid  OBVIOUS
  <2> HIDE DEF p
  <2>3. ~Handling("SIGCHLD") /\ Marks = {}  BY EmptySeq, NoMarks DEF Handling
  <2>4. process[p] # "zombie" /\ p \notin unreported
    BY <2>1, <2>3 DEF SInv, WaitableSignalled, Waitable
  <2>5. \A r \in Slots : job_list[r].pid = p => r = s
    <3>1. ListedOnce(p)  BY <2>1, <2>2 DEF LInv, Exact, SlotOf
    <3> QED  BY <2>2, <3>1 DEF ListedOnce, SlotOf
  <2>6. job_list[s].state = "ST" => Halted(p)  BY <2>2 DEF SInv, MarkedHalted
  <2>7. Halted(p) => job_list[s].state = "ST"
    BY <2>1, <2>3, <2>5 DEF SInv, HaltedMarked, Marked
  <2> QED  BY <2>2, <2>4, <2>6, <2>7 DEF Halted
<1>2. "fg" \notin Commands /\ Init => NoFg  BY InitNoFg
<1>3. NoFg /\ [Next]_vars => NoFg'  BY StepNoFg
<1> QED  BY <1>1, <1>2, <1>3, InitLInv, StepLInv, InitSInv, StepSInv, PTL DEF Spec

=============================================================================
