----------------------------- MODULE Scheduler -----------------------------
(***************************************************************************)
(* The MiskOS task scheduler (src/kernel/src/Scheduler.cpp).               *)
(*                                                                         *)
(* One Scheduler object per core, each with its own currentTask, idle     *)
(* task, restoreFrame flag, timer entries and LAPIC one-shot timer, all    *)
(* sharing ONE global run queue `taskQueue` guarded by taskQueueLock.      *)
(*                                                                         *)
(* Every scheduler entry point runs in an interrupt handler entered        *)
(* through an interrupt gate (IDT.cpp:344, type 0b1110), so interrupts are *)
(* off on that core for the whole handler: a handler is one atomic step    *)
(* of its core.  Cores interleave with each other; the only state they     *)
(* share is the run queue, the PID counter and the tasks in the queue.     *)
(*                                                                         *)
(* Data is abstracted: an interrupt frame, address space and descriptor    *)
(* table are not represented; a task is its PID, scheduling state and the  *)
(* identity of the system-call stack its TSS entry points at (kstack).     *)
(* The fields inSys, wake and left are ghost state used by properties.     *)
(***************************************************************************)
EXTENDS Naturals, Sequences, FiniteSets, SequencesExt

CONSTANTS
    Cores,          \* the cores, each running one Scheduler object
    InitTasks,      \* tasks created by CreateTaskFromELF before the timers start
    MaxPid,         \* bound on the PID counter (bounds ForkCurrentTask)
    TimerCap,       \* the 100 ms preemption cap of ConfigureTimerClosestExpiry
    SleepTimes,     \* durations a task may pass to the Sleep system call
    LapicReadCeil,  \* TRUE iff GetTimeRemainingMilliseconds rounds up
    CrossCoreWake   \* TRUE iff Unsuspend may run on a core other than the waiter's

ASSUME /\ Cores # {}
       /\ InitTasks \in Nat /\ MaxPid \in Nat /\ InitTasks <= MaxPid
       /\ TimerCap \in Nat \ {0}
       /\ SleepTimes \subseteq Nat \ {0}
       /\ LapicReadCeil \in BOOLEAN /\ CrossCoreWake \in BOOLEAN

Pids == 1..MaxPid
States == {"Normal", "Blocked", "WaitingForChild"}

VARIABLES
    taskQueue,      \* the global run queue: a sequence of tasks
    currentTask,    \* currentTask of each core's Scheduler
    restoreFrame,   \* restoreFrame of each core's Scheduler
    timerEntries,   \* timerEntries of each core: sequences of [ms, pid]
    timerTime,      \* currentTimerTime: the value the LAPIC was last armed with
    elapsed,        \* whole milliseconds since each core's LAPIC was armed
    nextPid,        \* the static PID counter of CreateTask
    live,           \* ghost: PIDs created and not exited
    panicked,       \* an Assert or Panic() has halted a core
    up              \* the core has built its Scheduler and armed its timer

vars == <<taskQueue, currentTask, restoreFrame, timerEntries, timerTime,
          elapsed, nextPid, live, panicked, up>>

Task == [pid : 0..MaxPid, state : States, kstack : 0..MaxPid,
         inSys : BOOLEAN, wake : {"none", "sleep", "event"},
         left : 0..TimerCap + 1 + (IF SleepTimes = {} THEN 0
                                   ELSE CHOOSE m \in SleepTimes :
                                          \A n \in SleepTimes : m >= n)]

-----------------------------------------------------------------------------
(* Task construction.                                                      *)

\* CreateTask: a fresh task in state Normal with its own freshly allocated
\* system-call stack (named after the task's PID); the PID comes from the
\* static counter, except for the idle task which gets PID 0.
CreateTask(pid) ==
    [pid |-> pid, state |-> "Normal", kstack |-> pid,
     inSys |-> FALSE, wake |-> "none", left |-> 0]

\* The idle task built by the Scheduler constructor: PID 0, never enqueued.
IdleTask == CreateTask(0)

IsIdle(t) == t.pid = 0

-----------------------------------------------------------------------------
(* Timer bookkeeping: UpdateTimerEntries and ConfigureTimerClosestExpiry.  *)

\* deltaTime of UpdateTimerEntries: currentTimerTime minus the LAPIC's
\* remaining milliseconds.  When the timer itself fired the remaining time
\* is 0; on a software interrupt it is read from the counter, rounded by
\* the LAPIC driver.
DeltaTime(c, fired) ==
    IF fired THEN timerTime[c]
    ELSE IF LapicReadCeil THEN elapsed[c] ELSE elapsed[c] + 1

\* Indices of the entries that expire: milliseconds <= deltaTime.
Expired(entries, delta) == {i \in DOMAIN entries : entries[i].ms <= delta}

\* Mutant: an expired entry that is not popped.
UpdatedEntriesNoPop(entries, delta) ==
    [i \in DOMAIN entries |->
        IF entries[i].ms <= delta THEN entries[i]
        ELSE [entries[i] EXCEPT !.ms = @ - delta]]

\* Mutant: every entry is decremented and none is popped.
UpdatedEntriesDecrementAll(entries, delta) ==
    [i \in DOMAIN entries |-> [entries[i] EXCEPT !.ms = @ - delta]]

\* Mutant: the surviving entries are not decremented.
UpdatedEntriesNoDecrement(entries, delta) ==
    SelectSeq(entries, LAMBDA e : e.ms > delta)

\* The entries left by UpdateTimerEntries: expired ones popped, the others
\* decremented by deltaTime.
UpdatedEntries(entries, delta) ==
    LET keep == SelectSeq(entries, LAMBDA e : e.ms > delta)
    IN  [i \in DOMAIN keep |-> [keep[i] EXCEPT !.ms = @ - delta]]

\* Unblock(pid) through GetTask: it Panics when no task of the queue has
\* that PID and fails its Assert when the task is not Blocked.  Entries are
\* handled one by one, so two expiring entries of one PID fail the Assert
\* on the second.
UnblockFails(queue, pids, nEntries) ==
    \/ \E p \in pids : ~\E i \in DOMAIN queue : queue[i].pid = p
    \/ \E i \in DOMAIN queue : queue[i].pid \in pids /\ queue[i].state # "Blocked"
    \/ Cardinality(pids) < nEntries

Unblock(queue, pids) ==
    [i \in DOMAIN queue |->
        IF queue[i].pid \in pids THEN [queue[i] EXCEPT !.state = "Normal"]
        ELSE queue[i]]

\* ConfigureTimerClosestExpiry: arm the LAPIC with the smallest remaining
\* time of an entry, capped at 100 ms.
ClosestExpiry(entries) ==
    LET ts == {TimerCap} \cup {entries[i].ms : i \in DOMAIN entries}
    IN  CHOOSE m \in ts : \A n \in ts : m <= n

-----------------------------------------------------------------------------
(* Task selection.                                                         *)

\* The selection loop of SwitchToNextTask: for i in 0..Length-1, every task
\* in state Normal is popped and assigned to currentTask; there is no break,
\* so the loop continues at i+1 over the shortened queue.  Returns the
\* queue left and the last task popped (IdleTask if none).
RECURSIVE Select(_, _, _)
Select(queue, i, found) ==
    IF i > Len(queue) THEN <<queue, found>>
    ELSE IF queue[i].state = "Normal"
         THEN Select(RemoveAt(queue, i), i + 1, queue[i])
         ELSE Select(queue, i + 1, found)

\* A task leaving the scheduler resumes where it was stopped; one suspended
\* in SuspendSystemCall returns from its system call before it can be
\* interrupted again, so it is out of the system call at once.
Resume(t) == [t EXCEPT !.inSys = FALSE, !.wake = "none", !.left = 0]

\* Lines 63-68: with restoreFrame set, the interrupted task's frame is
\* saved and the task pushed at the tail of the queue; otherwise it is
\* dropped (it exited, or it is the idle task).
Requeue(queue, cur, save) == IF save THEN Append(queue, cur) ELSE queue

\* Mutant: restoreFrame is left set when the idle task is chosen.
RestoreKept(chosen) == TRUE

\* restoreFrame after the switch: the else-branch of line 68 sets it, and
\* lines 82-86 clear it again when the idle task is chosen.
RestoreAfter(chosen) == ~IsIdle(chosen)

\* SwitchToNextTask on core c.  cur is currentTask as the caller left it,
\* save the restoreFrame flag on entry, delta the deltaTime it reads and
\* entries the core's timer entries on entry.
\*  1. UpdateTimerEntries: Assert(currentTimerTime > remaining), Unblock the
\*     PIDs of the expired entries (the running task is not in the queue
\*     yet), pop them and decrement the others;
\*  2. under taskQueueLock: push cur if restoreFrame, then the selection loop;
\*  3. no Normal task: restoreFrame = false and the idle task runs;
\*  4. ConfigureTimerClosestExpiry re-arms the LAPIC (elapsed restarts);
\*  5. the chosen task's frame, syscall stack and CR3 are loaded.
SwitchToNextTask(c, cur, save, delta, entries) ==
    LET exp   == Expired(entries, delta)
        pids  == {entries[i].pid : i \in exp}
        sel   == Select(Requeue(Unblock(taskQueue, pids), cur, save), 1, IdleTask)
        left  == UpdatedEntries(entries, delta)
    IN  IF delta = 0 \/ UnblockFails(taskQueue, pids, Cardinality(exp))
        THEN /\ panicked' = TRUE
             /\ UNCHANGED <<taskQueue, currentTask, restoreFrame,
                            timerEntries, timerTime, elapsed>>
        ELSE /\ taskQueue' = sel[1]
             /\ currentTask' = [currentTask EXCEPT ![c] = Resume(sel[2])]
             /\ restoreFrame' = [restoreFrame EXCEPT ![c] = RestoreAfter(sel[2])]
             /\ timerEntries' = [timerEntries EXCEPT ![c] = left]
             /\ timerTime' = [timerTime EXCEPT ![c] = ClosestExpiry(left)]
             /\ elapsed' = [elapsed EXCEPT ![c] = 0]
             /\ UNCHANGED panicked

-----------------------------------------------------------------------------
(* Initial state: the Scheduler constructors and the boot-time            *)
(* CreateTaskFromELF calls, which push tasks 1..InitTasks in order.        *)

Init ==
    /\ taskQueue = [i \in 1..InitTasks |-> CreateTask(i)]
    /\ currentTask = [c \in Cores |-> IdleTask]
    /\ restoreFrame = [c \in Cores |-> FALSE]
    /\ timerEntries = [c \in Cores |-> <<>>]
    /\ timerTime = [c \in Cores |-> TimerCap]
    /\ elapsed = [c \in Cores |-> 0]
    /\ nextPid = InitTasks + 1
    /\ live = 1..InitTasks
    /\ panicked = FALSE
    /\ up = [c \in Cores |-> FALSE]

-----------------------------------------------------------------------------
(* Actions.                                                                *)

\* Bringing core c up: its Scheduler (idle task, currentTask = idleTask)
\* is built, ConfigureTimerClosestExpiry arms its LAPIC (no entries yet:
\* TimerCap) and sti lets its interrupts in.  Until then the core takes
\* no interrupt and runs nothing.
CoreUp(c) ==
    /\ up' = [up EXCEPT ![c] = TRUE]
    /\ currentTask' = [currentTask EXCEPT ![c] = IdleTask]
    /\ timerTime' = [timerTime EXCEPT ![c] = ClosestExpiry(timerEntries[c])]
    /\ elapsed' = [elapsed EXCEPT ![c] = 0]
    /\ UNCHANGED <<taskQueue, restoreFrame, timerEntries, nextPid, live, panicked>>

\* StartCores on the bootstrap core: its Scheduler, the application
\* cores' goto_address (they may start from here on), its timer, sti.
StartCores(c) ==
    /\ \A d \in Cores : ~up[d]
    /\ CoreUp(c)

\* InitializeCore on an application core once StartCores released it:
\* GDT, IDT, TSS, its Scheduler, its timer, sti, then hlt until an interrupt.
InitializeCore(c) ==
    /\ \E d \in Cores : up[d]
    /\ ~up[c]
    /\ CoreUp(c)

\* One millisecond of real time passes on every core at once.  A core
\* whose one-shot timer has run out takes its interrupt before more time
\* passes, and a core inside SuspendSystemCall reaches its int 0x81 within
\* the millisecond.
SleepTick(t) ==
    IF t.wake = "sleep" /\ t.left > 0 THEN [t EXCEPT !.left = @ - 1] ELSE t

Tick ==
    /\ ~panicked
    /\ \A c \in Cores : up[c] => elapsed[c] < timerTime[c] /\ currentTask[c].state = "Normal"
    /\ elapsed' = [c \in Cores |-> IF up[c] THEN elapsed[c] + 1 ELSE elapsed[c]]
    /\ taskQueue' = [i \in DOMAIN taskQueue |-> SleepTick(taskQueue[i])]
    /\ currentTask' = [c \in Cores |-> SleepTick(currentTask[c])]
    /\ UNCHANGED <<restoreFrame, timerEntries, timerTime, nextPid, live, panicked, up>>

\* LAPICTimerInterrupt: the one-shot timer of core c fires.
LAPICTimerInterrupt(c) ==
    /\ ~panicked /\ up[c]
    /\ elapsed[c] = timerTime[c]
    /\ SwitchToNextTask(c, currentTask[c], restoreFrame[c], DeltaTime(c, TRUE),
                         timerEntries[c])
    /\ UNCHANGED <<nextPid, live, up>>

Running == {c \in Cores : ~IsIdle(currentTask[c])}

\* Every place a task can be: an index of the queue or a core running it.
Places == {<<"q", i>> : i \in DOMAIN taskQueue} \cup {<<"c", c>> : c \in Running}
TaskAt(pl) == IF pl[1] = "q" THEN taskQueue[pl[2]] ELSE currentTask[pl[2]]

\* The running (non-idle) task of core c may issue a system call; it is in
\* state Normal unless core c is inside SuspendSystemCall, with interrupts
\* off, between setting the state and raising int 0x81.
CanSyscall(c) ==
    /\ ~panicked
    /\ ~IsIdle(currentTask[c])
    /\ currentTask[c].state = "Normal"
    /\ elapsed[c] < timerTime[c]

\* SuspendSystemCall(newState) then int 0x81: the task's state changes
\* and SwitchToNextTask saves it at the tail of the queue.
Suspended(t, newState, why, ms) ==
    [t EXCEPT !.state = newState, !.inSys = TRUE, !.wake = why, !.left = ms]

\* Sleep system call: SleepCurrentTask pushes {ms, true, pid} on this
\* core's timer entries, then SuspendSystemCall(Blocked) raises int 0x81.
SleepCurrentTask(c, ms) ==
    /\ CanSyscall(c)
    /\ SwitchToNextTask(c, Suspended(currentTask[c], "Blocked", "sleep", ms),
                        restoreFrame[c], DeltaTime(c, FALSE),
                        Append(timerEntries[c],
                               [ms |-> ms, pid |-> currentTask[c].pid]))
    /\ UNCHANGED <<nextPid, live, up>>

\* A system call whose handler waits for an event (a blocking device read,
\* a wait for a child) calls SuspendSystemCall(Blocked or WaitingForChild):
\* Assert(state == Normal), then currentTask.state = newState.  The task is
\* now a waiter its waker may name, but it is still only currentTask of c.
SuspendSystemCall(c, newState) ==
    /\ CanSyscall(c)
    /\ currentTask' = [currentTask EXCEPT ![c] =
                          Suspended(@, newState, "event", 0)]
    /\ UNCHANGED <<taskQueue, restoreFrame, timerEntries, timerTime, elapsed,
                   nextPid, live, panicked, up>>

\* int 0x81 raised by SuspendSystemCall: ISRHandler calls SwitchToNextTask,
\* which saves the waiting task at the tail of the queue.
SuspendInterrupt(c) ==
    /\ ~panicked
    /\ currentTask[c].state # "Normal"
    /\ SwitchToNextTask(c, currentTask[c], restoreFrame[c], DeltaTime(c, FALSE),
                        timerEntries[c])
    /\ UNCHANGED <<nextPid, live, up>>

\* The tasks an event may name: those that called SuspendSystemCall and
\* have not been woken, wherever they are (queue index or core).
Waiters == {pl \in Places : TaskAt(pl).wake = "event" /\ TaskAt(pl).state # "Normal"}

\* Unsuspend(pid, value) from an interrupt: under taskQueueLock, GetTask
\* looks the PID up in the queue and Panics when it is absent; the Assert
\* on the state holds for a waiter; the task becomes Normal with its saved
\* rax set to value (return values are not modelled).  The interrupt runs
\* on the waiter's own core only once that core has left SuspendSystemCall;
\* with CrossCoreWake it may run on another core at any time.
Unsuspend(p) ==
    /\ ~panicked
    /\ \E pl \in Waiters :
          /\ TaskAt(pl).pid = p
          /\ pl[1] = "q" \/ (CrossCoreWake /\ \E d \in Cores : up[d] /\ d # pl[2])
    /\ IF \E i \in DOMAIN taskQueue : taskQueue[i].pid = p
       THEN /\ taskQueue' = [i \in DOMAIN taskQueue |->
                               IF taskQueue[i].pid = p
                               THEN [taskQueue[i] EXCEPT !.state = "Normal"]
                               ELSE taskQueue[i]]
            /\ UNCHANGED panicked
       ELSE /\ panicked' = TRUE
            /\ UNCHANGED taskQueue
    /\ UNCHANGED <<currentTask, restoreFrame, timerEntries, timerTime,
                   elapsed, nextPid, live, up>>

\* ForkCurrentTask: a child with a fresh PID, state Normal, whose frame is
\* the parent's with rax = 0; its syscall stack is a copy of the parent's
\* but syscallStackAddr is set to the PARENT's stack top (line 267).  The
\* child is pushed on the queue and the parent continues.
ForkCurrentTask(c) ==
    /\ CanSyscall(c)
    /\ nextPid <= MaxPid
    /\ LET child == [CreateTask(nextPid) EXCEPT !.kstack = currentTask[c].kstack]
       IN  taskQueue' = Append(taskQueue, child)
    /\ nextPid' = nextPid + 1
    /\ live' = live \cup {nextPid}
    /\ UNCHANGED <<currentTask, restoreFrame, timerEntries, timerTime,
                   elapsed, panicked, up>>

\* The exec_elf system call (spec section 4.1) is
\* Scheduler::CreateTaskFromELF run by core c's task: CreateTask takes the
\* next PID and a fresh system-call stack, and the new task is pushed on
\* the run queue under taskQueueLock; the caller continues.  LoadELF and
\* the three /dev/tty opens are modelled in ELFLoader and DeviceFS.
CreateTaskFromELF(c) ==
    /\ CanSyscall(c)
    /\ nextPid <= MaxPid
    /\ taskQueue' = Append(taskQueue, CreateTask(nextPid))
    /\ nextPid' = nextPid + 1
    /\ live' = live \cup {nextPid}
    /\ UNCHANGED <<currentTask, restoreFrame, timerEntries, timerTime,
                   elapsed, panicked, up>>

\* ExitCurrentTask: restoreFrame = false, then SwitchToNextTask; the
\* exiting task is dropped.
ExitCurrentTask(c) ==
    /\ CanSyscall(c)
    /\ SwitchToNextTask(c, currentTask[c], FALSE, DeltaTime(c, FALSE),
                        timerEntries[c])
    /\ live' = live \ {currentTask[c].pid}
    /\ UNCHANGED <<nextPid, up>>

Next ==
    \/ Tick
    \/ \E c \in Cores : StartCores(c) \/ InitializeCore(c)
    \/ \E c \in Cores :
          \/ LAPICTimerInterrupt(c)
          \/ \E ms \in SleepTimes : SleepCurrentTask(c, ms)
          \/ \E st \in {"Blocked", "WaitingForChild"} : SuspendSystemCall(c, st)
          \/ SuspendInterrupt(c)
          \/ ForkCurrentTask(c)
          \/ CreateTaskFromELF(c)
          \/ ExitCurrentTask(c)
    \/ \E p \in Pids : Unsuspend(p)

\* Boot runs to the end on every core; time always passes and an expired one-shot timer always interrupts its
\* core; int 0x81 is the instruction after the state change in
\* SuspendSystemCall; system calls and device events are the tasks' and
\* devices' choice.
Fairness ==
    /\ WF_vars(\E c \in Cores : StartCores(c))
    /\ \A c \in Cores : WF_vars(InitializeCore(c))
    /\ WF_vars(Tick)
    /\ \A c \in Cores : WF_vars(LAPICTimerInterrupt(c))
    /\ \A c \in Cores : WF_vars(SuspendInterrupt(c))

Spec == Init /\ [][Next]_vars
FairSpec == Spec /\ Fairness

-----------------------------------------------------------------------------
(* Properties.                                                             *)

TypeOK ==
    /\ taskQueue \in Seq(Task)
    /\ currentTask \in [Cores -> Task]
    /\ restoreFrame \in [Cores -> BOOLEAN]
    /\ timerEntries \in [Cores -> Seq([ms : Nat \ {0}, pid : Pids])]
    /\ timerTime \in [Cores -> 1..TimerCap]
    /\ elapsed \in [Cores -> 0..TimerCap]
    /\ nextPid \in 1..MaxPid + 1
    /\ live \subseteq Pids
    /\ panicked \in BOOLEAN
    /\ up \in [Cores -> BOOLEAN]

\* The queue and the cores' currentTask slots hold each task at most once,
\* and the idle task (PID 0) is never enqueued: the restoreFrame protocol
\* of SwitchToNextTask / ExitCurrentTask never saves a task twice nor saves
\* an idle task.
TaskAtMostOnce ==
    /\ \A i \in DOMAIN taskQueue : taskQueue[i].pid # 0
    /\ \A p1, p2 \in Places : p1 # p2 => TaskAt(p1).pid # TaskAt(p2).pid

\* Every timer entry names a task that is in the run queue, Blocked in a
\* Sleep, and each sleeping task has exactly one entry: so the Unblock of
\* UpdateTimerEntries always finds (GetTask) a Blocked task.
TimerEntriesTargetSleepers ==
    LET entries == UNION {{<<c, i>> : i \in DOMAIN timerEntries[c]} : c \in Cores}
        pidOf(e) == timerEntries[e[1]][e[2]].pid
        sleepers == {taskQueue[i].pid : i \in {j \in DOMAIN taskQueue :
                        taskQueue[j].wake = "sleep" /\ taskQueue[j].state = "Blocked"}}
    IN  /\ \A e \in entries : pidOf(e) \in sleepers
        /\ \A e1, e2 \in entries : e1 # e2 => pidOf(e1) # pidOf(e2)
        /\ \A p \in sleepers : \E e \in entries : pidOf(e) = p

\* A task that sleeps is eventually woken by its timer entry.
SleeperWakes ==
    \A p \in Pids :
        (\E i \in DOMAIN taskQueue : taskQueue[i].pid = p /\ taskQueue[i].wake = "sleep")
            ~> (\E c \in Cores : currentTask[c].pid = p)

\* No task that was created and has not exited disappears: each is in the
\* queue or running on a core (spec: a Normal task is running or present
\* exactly once in a run queue).
NoTaskLost ==
    live = {TaskAt(pl).pid : pl \in Places}

\* Two tasks suspended inside system calls never share a system-call stack:
\* a task's kernel frames stay intact while it is suspended (spec: every
\* task owns a separate system-call stack).
KernelStackExclusive ==
    \A p1, p2 \in Places :
        (p1 # p2 /\ TaskAt(p1).inSys /\ TaskAt(p2).inSys)
            => TaskAt(p1).kstack # TaskAt(p2).kstack

\* A sleeping task is not made Normal before its time has passed (one
\* millisecond of slack for reading the LAPIC counter).
SleepNotEarly ==
    \A i \in DOMAIN taskQueue :
        (taskQueue[i].wake = "sleep" /\ taskQueue[i].state = "Normal")
            => taskQueue[i].left <= 1

\* No Assert and no Panic() is hit by the scheduler.
NoPanic == ~panicked

=============================================================================
