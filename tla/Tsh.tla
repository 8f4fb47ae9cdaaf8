-------------------------------- MODULE Tsh --------------------------------
(***************************************************************************)
(* shell_lab/tsh.c: the job list, shared by the shell's main program and   *)
(* its three signal handlers, and the children the shell forks.            *)
(*                                                                         *)
(* The main program runs one statement at a time; a handler may begin      *)
(* after any statement that leaves its signal unblocked, in another        *)
(* handler too (Signal installs them with an empty sa_mask), and runs to   *)
(* its end before what it interrupted goes on.  Pending signals of one     *)
(* kind are merged, as the kernel merges them.                             *)
(***************************************************************************)
EXTENDS Integers, Sequences, FiniteSets, FiniteSetsExt

CONSTANTS Pids,        \* what fork() may return
          NoPid,       \* the 0 of a free slot, and of fgpid when there is none
          MaxJobs,     \* MAXJOBS
          Commands,    \* what the user types, of AllCommands
          Keys,        \* what the user presses: SIGINT, SIGTSTP or neither
          JidBound     \* bound: no job is started once nextjid has passed it

AllCommands == {"run", "run&", "fg", "bg", "quit"}

ASSUME PidsAssumption == NoPid \notin Pids /\ IsFiniteSet(Pids)
ASSUME JobsAssumption == MaxJobs \in Nat \ {0} /\ JidBound \in Nat
ASSUME CommandsAssumption == Commands \subseteq AllCommands /\ Keys \subseteq {"SIGINT", "SIGTSTP"}

Signals == {"SIGCHLD", "SIGINT", "SIGTSTP"}
Slots == 1 .. MaxJobs
Vacant == [pid |-> NoPid, jid |-> 0, state |-> "UNDEF"]

VARIABLES alive,     \* the shell has not exited
          job_list, nextjid,
          pc,        \* the main program, between the user's commands at "prompt"
          bg,        \* its local: the job is to run in the background
          job,       \* its local job_ptr (job): a slot
          child,     \* its local child_pid
          blocked,   \* block_sigs is in force
          pending,   \* the signals pending for the shell
          handlers,  \* the handlers running, innermost first
          process,   \* each child as the kernel sees it
          unreported,\* the children whose stop waitpid has not reported yet
          stray      \* history: fg has written FG into a slot that was cleared

jobs == <<job_list, nextjid, stray>>
locals == <<bg, job, child>>
kernel == <<process, unreported>>
vars == <<alive, jobs, pc, locals, blocked, pending, handlers, kernel>>

\* A child is "forked" until it has left the shell's process group (setpgid),
\* "doomed" when it is stopped with a SIGINT waiting for it to continue, and
\* a zombie until it is reaped.
ProcessStates == {"none", "forked", "running", "stopped", "doomed", "zombie"}

Init == /\ alive = TRUE
        /\ job_list = [s \in Slots |-> Vacant] /\ nextjid = 1 /\ stray = FALSE
        /\ pc = "prompt" /\ bg = FALSE /\ job = 1 /\ child = NoPid
        /\ blocked = FALSE /\ pending = {} /\ handlers = <<>>
        /\ process = [p \in Pids |-> "none"] /\ unreported = {}

---------------------------------------------------------------------------
(* The job list *)

MaxJid == Max({job_list[s].jid : s \in Slots})
SlotOf(p) == {s \in Slots : job_list[s].pid = p}
Foreground == {s \in Slots : job_list[s].state = "FG"}
FgPid == IF Foreground = {} THEN NoPid ELSE job_list[Min(Foreground)].pid

\* addjob takes the first free slot and wraps nextjid after MAXJOBS.
AddJob(p, state) ==
    LET s == Min(SlotOf(NoPid)) IN
    /\ job_list' = [job_list EXCEPT ![s] = [pid |-> p, jid |-> nextjid, state |-> state]]
    /\ nextjid' = IF nextjid + 1 > MaxJobs THEN 1 ELSE nextjid + 1
    /\ UNCHANGED stray

\* deletejob clears the slot, then sets nextjid from the jobs that are left.
DeleteJob(p) ==
    IF SlotOf(p) = {} THEN UNCHANGED jobs
    ELSE /\ job_list' = [job_list EXCEPT ![Min(SlotOf(p))] = Vacant]
         /\ nextjid' = Max({job_list'[s].jid : s \in Slots}) + 1
         /\ UNCHANGED stray

\* Through a pointer: the slot may have been cleared since it was looked up.
SetState(s, state) ==
    /\ job_list' = [job_list EXCEPT ![s].state = state]
    /\ stray' = (stray \/ (state = "FG" /\ job_list[s].pid = NoPid))
    /\ UNCHANGED nextjid

---------------------------------------------------------------------------
(* The kernel's side of kill and of the children *)

Raise(sig) == pending' = pending \cup {sig}

\* kill(p, SIGCONT): a stop not reported yet no longer will be.
Continue(p) ==
    IF process[p] \in {"stopped", "doomed"}
    THEN /\ process' = [process EXCEPT ![p] = IF @ = "doomed" THEN "zombie" ELSE "running"]
         /\ unreported' = unreported \ {p}
         /\ Raise("SIGCHLD")
    ELSE UNCHANGED <<kernel, pending>>

\* kill(-p, sig): the program may handle the signal itself and go on.
Signalled(p, sig) ==
    \/ UNCHANGED <<kernel, pending>>
    \/ /\ process[p] = "running"
       /\ process' = [process EXCEPT ![p] = IF sig = "SIGINT" THEN "zombie" ELSE "stopped"]
       /\ unreported' = IF sig = "SIGINT" THEN unreported ELSE unreported \cup {p}
       /\ Raise("SIGCHLD")
    \/ /\ process[p] = "stopped" /\ sig = "SIGINT"
       /\ process' = [process EXCEPT ![p] = "doomed"]
       /\ UNCHANGED <<unreported, pending>>

\* A child leaves the shell's group and execs, exits, or stops itself.
Exec(p) == /\ alive /\ process[p] = "forked"
           /\ process' = [process EXCEPT ![p] = "running"]
           /\ UNCHANGED <<alive, jobs, pc, locals, blocked, pending, handlers, unreported>>

Exit(p) == /\ alive /\ process[p] = "running"
           /\ process' = [process EXCEPT ![p] = "zombie"]
           /\ Raise("SIGCHLD")
           /\ UNCHANGED <<alive, jobs, pc, locals, blocked, handlers, unreported>>

Stop(p) == /\ alive /\ process[p] = "running"
           /\ process' = [process EXCEPT ![p] = "stopped"]
           /\ unreported' = unreported \cup {p}
           /\ Raise("SIGCHLD")
           /\ UNCHANGED <<alive, jobs, pc, locals, blocked, handlers>>

Press(sig) == /\ alive /\ sig \notin pending
              /\ Raise(sig)
              /\ UNCHANGED <<alive, jobs, pc, locals, blocked, handlers, kernel>>

---------------------------------------------------------------------------
(* Signal handlers *)

Handling(sig) == \E i \in 1 .. Len(handlers) : handlers[i].sig = sig

\* sigsuspend(&empty_mask) lets every signal in while it waits, and returns
\* once a handler has run.
Deliver(sig) == /\ alive /\ sig \in pending /\ ~Handling(sig)
                /\ ~blocked \/ pc \in {"suspend", "fgSuspend"} \/ handlers # <<>>
                /\ pending' = pending \ {sig}
                /\ handlers' = <<[sig |-> sig, at |-> "begin", pid |-> NoPid, stopped |-> FALSE]>> \o handlers
                /\ pc' = CASE pc = "suspend" -> "woken" [] pc = "fgSuspend" -> "fgWoken" [] OTHER -> pc
                /\ UNCHANGED <<alive, jobs, locals, blocked, kernel>>

Inner == Head(handlers)
In(sigs, at) == alive /\ handlers # <<>> /\ Inner.sig \in sigs /\ Inner.at = at
Become(at, p, stopped) ==
    handlers' = <<[sig |-> Inner.sig, at |-> at, pid |-> p, stopped |-> stopped]>> \o Tail(handlers)
Return == handlers' = Tail(handlers)

Waitable == {p \in Pids : process[p] = "zombie"} \cup unreported

\* waitpid(-1, &status, WNOHANG|WUNTRACED)
Waitpid == /\ In({"SIGCHLD"}, "begin")
           /\ \E p \in Waitable :
                /\ Become("update", p, p \in unreported)
                /\ process' = IF p \in unreported THEN process ELSE [process EXCEPT ![p] = "none"]
                /\ unreported' = unreported \ {p}
           /\ UNCHANGED <<alive, jobs, pc, locals, blocked, pending>>

\* Mutant: one child is reaped per signal (if for while).
UpdateOneJob == /\ In({"SIGCHLD"}, "update")
                /\ IF Inner.stopped
                   THEN \E s \in SlotOf(Inner.pid) : SetState(s, "ST")
                   ELSE DeleteJob(Inner.pid)
                /\ Return
                /\ UNCHANGED <<alive, pc, locals, blocked, pending, kernel>>

UpdateJob == /\ In({"SIGCHLD"}, "update")
             /\ IF Inner.stopped
                THEN \E s \in SlotOf(Inner.pid) : SetState(s, "ST")
                ELSE DeleteJob(Inner.pid)
             /\ Become("begin", NoPid, FALSE)
             /\ UNCHANGED <<alive, pc, locals, blocked, pending, kernel>>

NoneLeft == /\ In({"SIGCHLD"}, "begin") /\ Waitable = {}
            /\ Return
            /\ UNCHANGED <<alive, jobs, pc, locals, blocked, pending, kernel>>

\* sigint_handler and sigtstp_handler look for the foreground job, then
\* signal its process group.
FindForeground == /\ In(Keys, "begin")
                  /\ IF FgPid = NoPid THEN Return ELSE Become("kill", FgPid, FALSE)
                  /\ UNCHANGED <<alive, jobs, pc, locals, blocked, pending, kernel>>

ForwardKey == /\ In(Keys, "kill")
              /\ process[Inner.pid] \notin {"none", "forked"}
              /\ Signalled(Inner.pid, Inner.sig)
              /\ Return
              /\ UNCHANGED <<alive, jobs, pc, locals, blocked>>

\* There is no such process group: Kill ends in unix_error, which exits.
ForwardFails == /\ In(Keys, "kill")
                /\ process[Inner.pid] \in {"none", "forked"}
                /\ alive' = FALSE
                /\ UNCHANGED <<jobs, pc, locals, blocked, pending, handlers, kernel>>

Handler == Waitpid \/ UpdateJob \/ NoneLeft \/ FindForeground \/ ForwardKey \/ ForwardFails

---------------------------------------------------------------------------
(* The main program: eval, do_fg_job, do_bg_job *)

\* The main program is at `from' and no handler has interrupted it.
Goto(from, to) == alive /\ handlers = <<>> /\ pc = from /\ pc' = to

\* Mutant: signals are not blocked.
RunUnblocked(background) == /\ nextjid <= JidBound
                            /\ Goto("prompt", "fork")
                            /\ bg' = background
                            /\ UNCHANGED <<alive, jobs, job, child, blocked, pending, handlers, kernel>>

Run(background) == /\ nextjid <= JidBound
                   /\ Goto("prompt", "fork")
                   /\ bg' = background
                   /\ blocked' = TRUE
                   /\ UNCHANGED <<alive, jobs, job, child, pending, handlers, kernel>>

Fork == /\ Goto("fork", "add")
        /\ \E p \in Pids : /\ process[p] = "none"
                           /\ process' = [process EXCEPT ![p] = "forked"]
                           /\ child' = p
        /\ UNCHANGED <<alive, jobs, bg, job, blocked, pending, handlers, unreported>>

\* No process can be created: unix_error exits.
ForkFails == /\ alive /\ handlers = <<>> /\ pc = "fork"
             /\ \A p \in Pids : process[p] # "none"
             /\ alive' = FALSE
             /\ UNCHANGED <<jobs, pc, locals, blocked, pending, handlers, kernel>>

Add == /\ Goto("add", IF bg THEN "restore" ELSE "test")
       /\ SlotOf(NoPid) # {}
       /\ AddJob(child, IF bg THEN "BG" ELSE "FG")
       /\ job' = Min(SlotOf(NoPid))
       /\ UNCHANGED <<alive, bg, child, blocked, pending, handlers, kernel>>

\* "Tried to create too many jobs": app_error exits.
AddFails == /\ alive /\ handlers = <<>> /\ pc = "add" /\ SlotOf(NoPid) = {}
            /\ alive' = FALSE
            /\ UNCHANGED <<jobs, pc, locals, blocked, pending, handlers, kernel>>

JobInForeground == FgPid # NoPid /\ job_list[job].state = "FG"

\* Mutant: signals are let in between the test and sigsuspend.
TestUnblocked == /\ Goto("test", IF JobInForeground THEN "enter" ELSE "restore")
                 /\ blocked' = FALSE
                 /\ UNCHANGED <<alive, jobs, locals, pending, handlers, kernel>>

Test == /\ Goto("test", IF JobInForeground THEN "enter" ELSE "restore")
        /\ UNCHANGED <<alive, jobs, locals, blocked, pending, handlers, kernel>>

\* Entering sigsuspend: a handler that has run before does not end it.
Suspend == /\ Goto("enter", "suspend")
           /\ UNCHANGED <<alive, jobs, locals, blocked, pending, handlers, kernel>>

\* Mutant: sigsuspend is called once (if for while).
WokenOnce == /\ Goto("woken", "restore")
             /\ UNCHANGED <<alive, jobs, locals, blocked, pending, handlers, kernel>>

Woken == /\ Goto("woken", "test")
         /\ UNCHANGED <<alive, jobs, locals, blocked, pending, handlers, kernel>>

Restore == /\ Goto("restore", "prompt")
           /\ blocked' = FALSE
           /\ UNCHANGED <<alive, jobs, locals, pending, handlers, kernel>>

---------------------------------------------------------------------------
(* Builtin commands: no signal is blocked *)

\* The job is looked up by pid or by jid; getjobjid takes the first it meets.
LookUp(command) ==
    /\ Goto("prompt", command)
    /\ \E s \in Slots : job_list[s].pid # NoPid /\ job' = s
    /\ UNCHANGED <<alive, jobs, bg, child, blocked, pending, handlers, kernel>>

FgCheck == /\ Goto("fg", IF job_list[job].state \in {"ST", "BG"} THEN "fgSet" ELSE "prompt")
           /\ UNCHANGED <<alive, jobs, locals, blocked, pending, handlers, kernel>>

FgSet == /\ Goto("fgSet", "fgCont")
         /\ SetState(job, "FG")
         /\ UNCHANGED <<alive, locals, blocked, pending, handlers, kernel>>

\* kill(0, SIGCONT), of a slot cleared meanwhile, only reaches the shell's group.
Cont(from, to) == /\ Goto(from, to)
                  /\ LET p == job_list[job].pid IN
                       IF p = NoPid THEN UNCHANGED <<kernel, pending>> ELSE Continue(p)
                  /\ UNCHANGED <<alive, jobs, locals, blocked, handlers>>

FgCont == Cont("fgCont", "fgTest")

FgTest == /\ Goto("fgTest", IF JobInForeground THEN "fgEnter" ELSE "prompt")
          /\ UNCHANGED <<alive, jobs, locals, blocked, pending, handlers, kernel>>

FgSuspend == /\ Goto("fgEnter", "fgSuspend")
             /\ UNCHANGED <<alive, jobs, locals, blocked, pending, handlers, kernel>>

\* Mutant: sigsuspend is called once (if for while).
FgWokenOnce == /\ Goto("fgWoken", "prompt")
               /\ UNCHANGED <<alive, jobs, locals, blocked, pending, handlers, kernel>>

FgWoken == /\ Goto("fgWoken", "fgTest")
           /\ UNCHANGED <<alive, jobs, locals, blocked, pending, handlers, kernel>>

BgCheck == /\ Goto("bg", IF job_list[job].state = "ST" THEN "bgSet" ELSE "prompt")
           /\ UNCHANGED <<alive, jobs, locals, blocked, pending, handlers, kernel>>

\* Mutant: the state stays ST.
BgKeepsState == /\ Goto("bgSet", "bgCont")
                /\ UNCHANGED <<alive, jobs, locals, blocked, pending, handlers, kernel>>

BgSet == /\ Goto("bgSet", "bgCont")
         /\ SetState(job, "BG")
         /\ UNCHANGED <<alive, locals, blocked, pending, handlers, kernel>>

BgCont == Cont("bgCont", "prompt")

\* quit, or end of file.
Quit == /\ alive /\ handlers = <<>> /\ pc = "prompt"
        /\ alive' = FALSE
        /\ UNCHANGED <<jobs, pc, locals, blocked, pending, handlers, kernel>>

\* An argument of fg or bg that is no number: unix_error exits.  No argument:
\* argv[1] is NULL, and looking at its first character kills the shell.
BadArgument == Quit

---------------------------------------------------------------------------
Command == \/ "run" \in Commands /\ Run(FALSE)
           \/ "run&" \in Commands /\ Run(TRUE)
           \/ \E command \in Commands \cap {"fg", "bg"} : LookUp(command)
           \/ Commands \cap {"fg", "bg"} # {} /\ BadArgument
           \/ "quit" \in Commands /\ Quit

MainStep == \/ Fork \/ ForkFails \/ Add \/ AddFails \/ Test \/ Suspend \/ Woken \/ Restore
            \/ FgCheck \/ FgSet \/ FgCont \/ FgTest \/ FgSuspend \/ FgWoken
            \/ BgCheck \/ BgSet \/ BgCont

Children == \E p \in Pids : Exec(p) \/ Exit(p) \/ Stop(p)

ShellStep == MainStep \/ Handler \/ \E sig \in Signals : Deliver(sig)

\* The shell has exited, or waits for the user or for a signal.
Rest == /\ ~alive \/ (pc \in {"prompt", "suspend", "fgSuspend"} /\ handlers = <<>> /\ pending = {})
        /\ UNCHANGED vars

Next == Command \/ ShellStep \/ Children \/ (\E sig \in Keys : Press(sig)) \/ Rest

Spec == Init /\ [][Next]_vars

\* The shell keeps running and its signals are delivered, and the user does
\* not press keys for ever.  Nothing is assumed of the commands typed, nor that
\* a job ever ends.
FairSpec == Spec /\ WF_vars(MainStep) /\ WF_vars(Handler)
                 /\ WF_vars(\E sig \in Signals : Deliver(sig))
                 /\ <>[][\A sig \in Keys : ~Press(sig)]_vars

---------------------------------------------------------------------------
(* Safety *)

Points == {"prompt", "fork", "add", "test", "enter", "suspend", "woken", "restore",
           "fg", "fgSet", "fgCont", "fgTest", "fgEnter", "fgSuspend", "fgWoken", "bg", "bgSet", "bgCont"}

TypeOK == /\ alive \in BOOLEAN /\ blocked \in BOOLEAN /\ bg \in BOOLEAN /\ stray \in BOOLEAN
          /\ job_list \in [Slots -> [pid : Pids \cup {NoPid}, jid : 0 .. JidBound, state : {"UNDEF", "FG", "BG", "ST"}]]
          /\ nextjid \in 1 .. JidBound + 1
          /\ pc \in Points /\ job \in Slots /\ child \in Pids \cup {NoPid}
          /\ pending \subseteq Signals
          /\ handlers \in Seq([sig : Signals, at : {"begin", "update", "kill"}, pid : Pids \cup {NoPid}, stopped : BOOLEAN])
          /\ process \in [Pids -> ProcessStates] /\ unreported \subseteq Pids

Reaped == {handlers[i].pid : i \in {j \in 1 .. Len(handlers) : handlers[j].at = "update" /\ ~handlers[j].stopped}}

\* Each child has one slot from the time it is added until the handler that
\* reaps it deletes it, however the exit of the child, addjob and the handlers
\* interleave: no child is forgotten and no slot outlives its child.
ChildrenListed ==
    alive => \A p \in Pids :
        Cardinality(SlotOf(p)) = IF process[p] = "none" THEN (IF p \in Reaped THEN 1 ELSE 0)
                                 ELSE IF pc = "add" /\ p = child THEN 0 ELSE 1

\* The job list and the mask are well-formed and complete.
JobsListed == TypeOK /\ ChildrenListed

\* Once every signal has been handled, the list tells the stopped jobs from
\* the running ones, and no job in it has ended.
StatesAgree ==
    alive /\ handlers = <<>> /\ "SIGCHLD" \notin pending /\ pc \notin {"add", "bgCont", "fgCont"} =>
        \A s \in Slots : job_list[s].pid # NoPid =>
            /\ process[job_list[s].pid] # "zombie"
            /\ job_list[s].state = "ST" <=> process[job_list[s].pid] \in {"stopped", "doomed"}

InForeground == {s \in Foreground : job_list[s].pid # NoPid}

\* "At most 1 job can be in the FG state." (tsh.c:49)
AtMostOneForeground == Cardinality(InForeground) <= 1

\* Only one thing can make it two: that fg wrote FG into a slot which a handler
\* had cleared since fg looked the job up.  Until then no order of commands,
\* keys, handlers and children does, fg of a job that stops or ends included.
OneForegroundJob == ~stray => AtMostOneForeground

\* Until then too, the shell reads no command while a job started or brought
\* to the foreground runs there (tsh.c:230-231: "wait for it to terminate and
\* then return"; tsh.c:1019: "wait until foreground job complete").
WaitsForForeground == alive /\ pc = "prompt" /\ ~stray => InForeground = {}

---------------------------------------------------------------------------
(* Liveness *)

\* A shell that waits for a job that is no longer in the foreground comes
\* back to its prompt.
ForegroundReturns ==
    pc \in {"suspend", "fgSuspend"} /\ job_list[job].state # "FG" ~> ~alive \/ pc = "prompt"

\* Every child that ends is reaped, though signals of children that end
\* together are merged into one.
ZombiesReaped == \A p \in Pids : process[p] = "zombie" ~> ~alive \/ process[p] = "none"

=============================================================================
