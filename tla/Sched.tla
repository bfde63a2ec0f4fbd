------------------------------- MODULE Sched -------------------------------
(***************************************************************************)
(* The process life cycle of kernel/sched/sched.c on the one CPU that      *)
(* entry.c brings up: spawn, the foreground hand-over of sched_reap and    *)
(* sched_exit through one global jump buffer, signals, yield and the timer *)
(* tick.  System calls run with interrupts off, so a call is one step up   *)
(* to the point where control passes to another process.                   *)
(*                                                                         *)
(* A pcb is a slot of g_proc_table or one of the two static pcbs Boot (the *)
(* init thread with the kernel shell) and Idle.  Everything is spawned by  *)
(* macho_spawn or elf_spawn, hence SCHED_BATCH with priority 0: the        *)
(* red-black trees are kept as sequences, in which rb_insert puts a key    *)
(* behind its equals.                                                      *)
(***************************************************************************)
EXTENDS Integers, Sequences, FiniteSets, SequencesExt

CONSTANTS
    MaxProcs,     \* MAX_PROCS, slots of g_proc_table
    MaxLive,      \* bound: processes alive at the same time
    MaxSpawns,    \* bound: calls of sched_spawn that take a slot
    Codes,        \* arguments of sched_exit
    ReaperSets,   \* the sets of pcbs that call sched_reap in a behaviour
    KstackOk,     \* outcomes of kmalloc for a kernel stack
    Signals       \* the signals sent, of those that end a process

Slots == 0..(MaxProcs - 1)
Boot == MaxProcs
Idle == MaxProcs + 1
NoPcb == MaxProcs + 2
Procs == Slots \cup {Boot, Idle}
KillCode == -9
TermCode == -15

ASSUME SchedAssumption ==
    /\ MaxProcs \in Nat /\ MaxProcs >= 2
    /\ MaxLive \in Nat /\ MaxSpawns \in Nat
    /\ Codes \subseteq Int
    /\ ReaperSets \subseteq SUBSET (Slots \cup {Boot})
    /\ KstackOk \subseteq BOOLEAN
    /\ Signals \subseteq {"KILL", "TERM"}

VARIABLES
    pid, state, class, ppid, exit_code, kstack, va_map, sig_pending,
                         \* fields of the pcbs
    g_next_pid, g_proc_count,
    runq,                \* the trees of run queue 0: class -> sequence
    rq_lock,             \* rq->lock is taken
    g_current,
    g_reap_waiter,
    g_reap_jmp_active,
    g_reap_jmp,          \* the pcb whose sched_reap frame g_reap_jmp restores
    frame,               \* locals of a pcb suspended inside sched_reap
    phase,               \* "run"; "jmp": g_reap_jmp was just restored;
                         \* "sysret": syscall_check_signals is next;
                         \* "spin": spinning on rq->lock
    serial,              \* history: which spawn made the process in a slot
    gave,                \* history: the last sched_exit: which spawn's
                         \* process called it, and with which code
    held,                \* history: per pid, the spawn that returned it to
                         \* the init thread, until that has waited for it
    misreaped,           \* history: a process was waited for while it ran or
                         \* was suspended
    reapers,             \* who calls sched_reap, of ReaperSets
    spawns

pcbs == <<pid, state, class, ppid, exit_code, kstack, va_map, sig_pending>>
reapvars == <<g_reap_waiter, g_reap_jmp_active, g_reap_jmp, frame>>
hist == <<serial, gave, held, misreaped, reapers>>
counters == <<g_next_pid, g_proc_count, spawns>>
vars == <<pcbs, reapvars, hist, counters, runq, rq_lock, g_current, phase>>

RT == 0
BATCH == 2
Classes == {RT, BATCH}
NoFrame == [target |-> NoPcb, saved |-> BATCH, spawn |-> 0]
NoExit == [spawn |-> 0, code |-> 0]

Init ==
    /\ pid = [p \in Procs |-> IF p = Boot THEN 1 ELSE 0]
    /\ state = [p \in Procs |-> IF p \in Slots THEN "NEW" ELSE "RUN"]
    /\ class = [p \in Procs |-> IF p \in Slots THEN RT ELSE BATCH]
    /\ ppid = [p \in Procs |-> 0]
    /\ exit_code = [p \in Procs |-> 0]
    /\ kstack = [p \in Procs |-> p \notin Slots]
    /\ va_map = [p \in Procs |-> "null"]
    /\ sig_pending = [p \in Procs |-> {}]
    /\ g_next_pid = 1 /\ g_proc_count = 0
    /\ runq = [c \in Classes |-> <<>>]
    /\ rq_lock = FALSE
    /\ g_current = Boot
    /\ g_reap_waiter = NoPcb /\ g_reap_jmp_active = FALSE
    /\ g_reap_jmp = NoPcb
    /\ frame = [p \in Procs |-> NoFrame]
    /\ phase = "run"
    /\ serial = [s \in Slots |-> 0]
    /\ gave = NoExit
    /\ held = [n \in Slots |-> 0]
    /\ misreaped = FALSE
    /\ reapers \in ReaperSets
    /\ spawns = 0

-----------------------------------------------------------------------------
\* sched_find
Find(n) == IF /\ n # 0 /\ n < MaxProcs
              /\ pid[n % MaxProcs] = n /\ state[n % MaxProcs] # "DEAD"
           THEN n % MaxProcs
           ELSE NoPcb

\* Faulty: a slot counts as free unless its process runs.
FreeUnlessRunning(s) == state[s] # "RUN"

\* Faulty: a slot counts as free unless its process is queued.
FreeUnlessReady(s) == state[s] # "READY"

\* A slot sched_spawn may take.
Free(s) == state[s] = "DEAD" \/ pid[s] = 0

\* The pid the search loop of sched_spawn stops at.
SpawnPid == CHOOSE n \in g_next_pid..(g_next_pid + MaxProcs - 1) :
                /\ Free(n % MaxProcs)
                /\ \A m \in g_next_pid..(n - 1) : ~Free(m % MaxProcs)

\* Faulty: g_next_pid may become 0.
NextPidUnchecked(n) == (n + 1) % MaxProcs

\* g_next_pid after pid n was handed out.
NextPid(n) == IF (n + 1) % MaxProcs = 0 THEN 1 ELSE (n + 1) % MaxProcs

\* Where a step of g_current leaves it: a process returns from its system
\* call, the init thread from a plain function call.
Returned == IF g_current = Boot THEN "run" ELSE "sysret"

Running == phase = "run" /\ g_current # Idle

-----------------------------------------------------------------------------
\* sched_spawn finds no slot: MAX_PROCS processes, or the search loop came
\* round (after 2^32 increments of pid).
SpawnNoSlot ==
    /\ Running
    /\ g_proc_count >= MaxProcs \/ \A s \in Slots : ~Free(s)
    /\ phase' = Returned
    /\ UNCHANGED <<pcbs, reapvars, hist, counters, runq, rq_lock, g_current>>

\* macho_spawn: sched_spawn, then sched_find and sched_enqueue.
Spawn ==
    /\ Running
    /\ g_proc_count < MaxProcs /\ \E s \in Slots : Free(s)
    /\ Cardinality({s \in Slots : ~Free(s)}) < MaxLive /\ spawns < MaxSpawns
    /\ \E ok \in KstackOk :
         LET n == SpawnPid
             s == n % MaxProcs
             found == n < MaxProcs   \* sched_find(n) after the call
         IN  /\ g_next_pid' = NextPid(n)
             /\ pid' = [pid EXCEPT ![s] = n]
             /\ state' = [state EXCEPT ![s] =
                             IF ok /\ found THEN "READY" ELSE "NEW"]
             /\ class' = [class EXCEPT ![s] = BATCH]
             /\ ppid' = [ppid EXCEPT ![s] = pid[g_current]]
             /\ exit_code' = [exit_code EXCEPT ![s] = 0]
             /\ kstack' = [kstack EXCEPT ![s] = ok]
             /\ va_map' = [va_map EXCEPT ![s] =
                              IF ~ok THEN "null"
                              ELSE IF found THEN "live" ELSE "freed"]
             /\ sig_pending' = [sig_pending EXCEPT ![s] = {}]
             /\ g_proc_count' = IF ok THEN g_proc_count + 1 ELSE g_proc_count
             /\ runq' = IF ok /\ found
                        THEN [runq EXCEPT ![BATCH] = Append(@, s)] ELSE runq
             /\ serial' = [serial EXCEPT ![s] = spawns + 1]
             /\ held' = IF ok /\ found /\ g_current = Boot
                        THEN [held EXCEPT ![n] = spawns + 1] ELSE held
    /\ spawns' = spawns + 1
    /\ phase' = Returned
    /\ UNCHANGED <<reapvars, gave, misreaped, reapers, rq_lock, g_current>>

-----------------------------------------------------------------------------
\* Faulty: the class is boosted before the removal.
TakeoffBoosted(q, t) == [q EXCEPT ![RT] = SelectSeq(@, LAMBDA s : s # t)]

\* sched_takeoff_runq_locked: removed only from the tree of its class.
Takeoff(q, t) == [q EXCEPT ![class[t]] = SelectSeq(@, LAMBDA s : s # t)]

\* sched_reap of a pid that sched_find does not know returns -1.
ReapNoProcess ==
    /\ Running /\ g_current \in reapers
    /\ \E n \in 1..MaxProcs : Find(n) = NoPcb
    /\ phase' = Returned
    /\ UNCHANGED <<pcbs, reapvars, hist, counters, runq, rq_lock, g_current>>

\* History: the spawn that the init thread takes the process in t for.
Expected(t) == IF g_current = Boot /\ pid[t] \in Slots THEN held[pid[t]] ELSE 0

\* Faulty: g_reap_waiter is not set.
SuspendForgetsWaiter(t) ==
    /\ g_reap_waiter' = NoPcb
    /\ g_reap_jmp_active' = TRUE
    /\ g_reap_jmp' = g_current
    /\ frame' = [frame EXCEPT ![g_current] =
                    [target |-> t, saved |-> class[t], spawn |-> Expected(t)]]

\* What sched_reap records before it leaves the caller's stack.
Suspend(t) ==
    /\ g_reap_waiter' = g_current
    /\ g_reap_jmp_active' = TRUE
    /\ g_reap_jmp' = g_current
    /\ frame' = [frame EXCEPT ![g_current] =
                    [target |-> t, saved |-> class[t], spawn |-> Expected(t)]]

\* sched_reap: suspend the caller and run a READY process; on any other
\* process restore g_reap_jmp at once.  Whose child the process is does not
\* matter: it may be the caller itself or one that is suspended.
Reap(t) ==
    /\ Running /\ g_current \in reapers
    /\ Find(pid[t]) = t
    /\ Suspend(t)
    /\ \/ /\ state[t] = "READY"
          /\ runq' = Takeoff(runq, t)
          /\ class' = [class EXCEPT ![t] = RT]
          /\ g_current' = t
          /\ state' = [state EXCEPT ![t] = "RUN"]
          /\ UNCHANGED <<phase, misreaped>>
       \/ /\ state[t] # "READY"
          /\ phase' = "jmp"
          /\ misreaped' = (misreaped \/ state[t] = "RUN")
          /\ UNCHANGED <<runq, class, g_current, state>>
    /\ UNCHANGED <<pid, ppid, exit_code, kstack, va_map, sig_pending, serial,
                   gave, held, reapers, counters, rq_lock>>

\* The second return of sched_jmp_save inside sched_reap, to its end.
ReapFinish ==
    LET w == g_reap_jmp
        t == frame[w].target
        code == IF state[t] # "DEAD" THEN -1 ELSE exit_code[t]
    IN  /\ phase = "jmp"
        /\ class' = [class EXCEPT ![t] = frame[w].saved]
        /\ g_reap_jmp_active' = FALSE
        /\ state' = [state EXCEPT ![t] = "DEAD"]
        /\ exit_code' = [exit_code EXCEPT ![t] = code]
        /\ g_reap_waiter' = NoPcb
        /\ held' = IF w = Boot /\ pid[t] \in Slots
                   THEN [held EXCEPT ![pid[t]] = 0] ELSE held
        /\ kstack' = [kstack EXCEPT ![t] = @ /\ pid[t] = 0]
        /\ pid' = [pid EXCEPT ![t] = 0]
        /\ frame' = [frame EXCEPT ![w] = NoFrame]
        /\ g_reap_jmp' = g_reap_jmp
        /\ phase' = Returned
        /\ UNCHANGED <<ppid, va_map, sig_pending, serial, gave, misreaped,
                       reapers, counters, runq, rq_lock, g_current>>

-----------------------------------------------------------------------------
\* SIGCHLD: sched_find(ppid) is taken for the parent.
Notified == IF ppid[g_current] > 0 THEN Find(ppid[g_current]) ELSE NoPcb

\* Faulty: the process is not discounted.
DieUncounted(code) ==
    /\ exit_code' = [exit_code EXCEPT ![g_current] = code]
    /\ gave' = [spawn |-> serial[g_current], code |-> code]
    /\ va_map' = [va_map EXCEPT ![g_current] = "null"]
    /\ sig_pending' = sig_pending
    /\ g_proc_count' = g_proc_count

\* The part of sched_exit both of its paths share.
Die(code) ==
    /\ exit_code' = [exit_code EXCEPT ![g_current] = code]
    /\ gave' = [spawn |-> serial[g_current], code |-> code]
    /\ va_map' = [va_map EXCEPT ![g_current] = "null"]
    /\ sig_pending' = IF Notified = NoPcb THEN sig_pending
                      ELSE [sig_pending EXCEPT ![Notified] = @ \cup {"CHLD"}]
    /\ g_proc_count' = g_proc_count - 1

\* sched_exit while a reap waits: free the stack, longjmp to the waiter.
ExitToWaiter(code) ==
    /\ g_current \in Slots
    /\ g_reap_jmp_active /\ g_reap_waiter # NoPcb
    /\ Die(code)
    /\ state' = [state EXCEPT ![g_current] = "DEAD", ![g_reap_waiter] = "RUN"]
    /\ kstack' = [kstack EXCEPT ![g_current] = FALSE]
    /\ g_current' = g_reap_waiter
    /\ g_reap_jmp_active' = FALSE
    /\ phase' = "jmp"
    /\ UNCHANGED <<pid, class, ppid, g_reap_waiter, g_reap_jmp, frame,
                   serial, held, misreaped, reapers, g_next_pid,
                   spawns, runq, rq_lock>>

\* sched_dequeue: RT before BATCH, else the idle pcb.
Dequeued == IF runq[RT] # <<>> THEN Head(runq[RT])
            ELSE IF runq[BATCH] # <<>> THEN Head(runq[BATCH]) ELSE Idle

RunqAfterDequeue ==
    IF runq[RT] # <<>> THEN [runq EXCEPT ![RT] = Tail(@)]
    ELSE IF runq[BATCH] # <<>> THEN [runq EXCEPT ![BATCH] = Tail(@)] ELSE runq

\* sched_exit otherwise: the next process of the run queue, or idle.
ExitToNext(code) ==
    /\ g_current \in Slots
    /\ ~(g_reap_jmp_active /\ g_reap_waiter # NoPcb)
    /\ Die(code)
    /\ LET waits == /\ g_reap_waiter \notin {NoPcb, g_current}
                    /\ state[g_reap_waiter] # "DEAD"
           picked == IF waits THEN g_reap_waiter ELSE Dequeued
           next == IF state[picked] = "DEAD" \/ picked = g_current
                   THEN Idle ELSE picked
       IN  /\ g_current' = next
           /\ state' = [state EXCEPT ![g_current] = "DEAD", ![next] = "RUN"]
           /\ runq' = IF waits THEN runq ELSE RunqAfterDequeue
           /\ g_reap_waiter' = IF waits THEN NoPcb ELSE g_reap_waiter
    /\ phase' = "run"
    /\ UNCHANGED <<pid, class, ppid, kstack, g_reap_jmp_active, g_reap_jmp,
                   frame, serial, held, misreaped, reapers, g_next_pid,
                   spawns, rq_lock>>

\* sys_exit, or a fault in user mode (kill_user_fault, code -1).
Exit ==
    /\ Running
    /\ \E code \in Codes : ExitToWaiter(code) \/ ExitToNext(code)

\* sys_kill of the target found by its pid; other signals have no effect.
Kill(t, sig) ==
    /\ Running /\ g_current \in Slots
    /\ Find(pid[t]) = t
    /\ sig_pending' = [sig_pending EXCEPT ![t] = @ \cup {sig}]
    /\ phase' = "sysret"
    /\ UNCHANGED <<pid, state, class, ppid, exit_code, kstack, va_map,
                   reapvars, hist, counters, runq, rq_lock, g_current>>

\* syscall_check_signals, run at the end of every system call.
CheckSignals ==
    /\ phase = "sysret"
    /\ \/ /\ sig_pending[g_current] \cap {"KILL", "TERM"} = {}
          /\ sig_pending' = [sig_pending EXCEPT ![g_current] = {}]
          /\ phase' = "run"
          /\ UNCHANGED <<pid, state, class, ppid, exit_code, kstack, va_map,
                         reapvars, hist, counters, runq, rq_lock, g_current>>
       \/ /\ "KILL" \in sig_pending[g_current]
          /\ ExitToWaiter(KillCode) \/ ExitToNext(KillCode)
       \/ /\ sig_pending[g_current] \cap {"KILL", "TERM"} = {"TERM"}
          /\ ExitToWaiter(TermCode) \/ ExitToNext(TermCode)

-----------------------------------------------------------------------------
(***************************************************************************)
(* pit_isr: sched_tick preempts only a table process whose deadline_ns has *)
(* passed.  sched_spawn and macho_spawn set deadline_ns to UINT64_MAX and  *)
(* only sched_switch_to, which nothing but a preemption or a yield calls,  *)
(* sets another one, so every tick takes one of the early exits.           *)
(***************************************************************************)
Tick ==
    /\ phase = "run"
    /\ UNCHANGED vars

(***************************************************************************)
(* sys_yield: sched_yield takes rq->lock and calls sched_enqueue, which    *)
(* marks the caller READY and takes rq->lock again.                        *)
(***************************************************************************)
Yield ==
    /\ Running /\ g_current \in Slots
    /\ rq_lock' = TRUE
    /\ state' = [state EXCEPT ![g_current] = "READY"]
    /\ phase' = "spin"
    /\ UNCHANGED <<pid, class, ppid, exit_code, kstack, va_map, sig_pending,
                   reapvars, hist, counters, runq, g_current>>

Next ==
    \/ SpawnNoSlot
    \/ Spawn
    \/ ReapNoProcess
    \/ \E t \in Slots : Reap(t)
    \/ ReapFinish
    \/ Exit
    \/ \E t \in Slots, sig \in Signals : Kill(t, sig)
    \/ CheckSignals
    \/ Tick

Spec == Init /\ [][Next]_vars

\* The kernel finishes what it started and a foreground process ends.
FairSpec == Spec /\ WF_vars(ReapFinish) /\ WF_vars(CheckSignals)
                 /\ SF_vars(Exit)

YieldSpec == Init /\ [][Next \/ Yield]_vars

-----------------------------------------------------------------------------
States == {"NEW", "READY", "RUN", "DEAD"}

TypeOK ==
    /\ pid \in [Procs -> 0..(2 * MaxProcs)]
    /\ state \in [Procs -> States]
    /\ class \in [Procs -> Classes]
    /\ ppid \in [Procs -> 0..(2 * MaxProcs)]
    /\ exit_code \in [Procs -> Codes \cup {0, -1, KillCode, TermCode}]
    /\ kstack \in [Procs -> BOOLEAN]
    /\ va_map \in [Procs -> {"null", "live", "freed"}]
    /\ sig_pending \in [Procs -> SUBSET {"KILL", "TERM", "CHLD"}]
    /\ g_next_pid \in 1..(MaxProcs - 1)
    /\ g_proc_count \in 0..MaxProcs
    /\ runq \in [Classes -> Seq(Slots)]
    /\ rq_lock \in BOOLEAN
    /\ g_current \in Procs
    /\ g_reap_waiter \in Slots \cup {Boot, NoPcb}
    /\ g_reap_jmp_active \in BOOLEAN
    /\ g_reap_jmp \in Slots \cup {Boot, NoPcb}
    /\ frame \in [Procs -> [target : Slots \cup {NoPcb}, saved : Classes,
                           spawn : 0..MaxSpawns]]
    /\ phase \in {"run", "jmp", "sysret", "spin"}
    /\ serial \in [Slots -> 0..MaxSpawns] /\ held \in [Slots -> 0..MaxSpawns]
    /\ misreaped \in BOOLEAN
    /\ reapers \in ReaperSets /\ spawns \in 0..MaxSpawns

(***************************************************************************)
(* The run queue holds exactly the READY processes, each once and in the   *)
(* tree of its class: the priority boost of sched_reap comes after the     *)
(* removal (the comment at sched.c:766 tells of the time it did not).      *)
(* This and the next two hold until sched_reap names a process that runs   *)
(* or is suspended: it then frees the pcb and the stack of that process    *)
(* (misreaped), and a spawn may reuse them under it.                       *)
(***************************************************************************)
QueueExact ==
    ~misreaped =>
        /\ \A c \in Classes : IsInjective(runq[c])
        /\ \A s \in Slots :
             (state[s] = "READY") <=>
                \E c \in Classes : c = class[s] /\ s \in Range(runq[c])
        /\ \A c \in Classes : \A s \in Range(runq[c]) : class[s] = c

(***************************************************************************)
(* g_proc_count counts the processes that have a kernel stack and are not  *)
(* dead, so the MAX_PROCS test of sched_spawn refuses and admits rightly.  *)
(* sched_reap of a process that has not exited buries it uncounted, and is *)
(* the only call that does.                                                *)
(***************************************************************************)
ProcCountExact ==
    ~misreaped =>
        g_proc_count = Cardinality({s \in Slots : /\ pid[s] # 0
                                                  /\ state[s] # "DEAD"
                                                  /\ kstack[s]})

(***************************************************************************)
(* The status that a wait of the init thread returns is the one that the   *)
(* process it got the pid for passed to sched_exit (or the code of the     *)
(* signal that ended it): neither the pid nor the slot is given to another *)
(* process between the spawn and the return of the wait.  Where processes  *)
(* wait as well, they can reap init's children and their pids are reused.  *)
(***************************************************************************)
ReapedExitCode ==
    [][ phase = "jmp" /\ phase' # "jmp" /\ g_reap_jmp = Boot
        /\ reapers = {Boot} /\ frame[Boot].spawn # 0 =>
            gave = [spawn |-> frame[Boot].spawn,
                    code |-> exit_code'[frame[Boot].target]] ]_vars

(***************************************************************************)
(* The running process and every process suspended in sched_reap keep      *)
(* their kernel stack and their slot, whoever waits for whom: only         *)
(* sched_reap of a process that runs or is suspended takes them away.      *)
(***************************************************************************)
StacksInUse ==
    ~misreaped => \A p \in Slots :
        p = g_current \/ frame[p] # NoFrame =>
            kstack[p] /\ state[p] = "RUN" /\ pid[p] # 0 /\ va_map[p] = "live"

(***************************************************************************)
(* sched_reap blocks until its process exits and then returns (sched.h:    *)
(* "Block until pid exits"): nobody stays suspended in sched_reap on a     *)
(* process that is dead once the CPU has moved on.                         *)
(***************************************************************************)
ReapReturns ==
    \A p \in Procs :
        /\ frame[p] # NoFrame /\ phase # "jmp"
        => state[frame[p].target] # "DEAD"

(***************************************************************************)
(* The same where only the init thread waits, as the kernel shell does:    *)
(* then the one jump buffer is enough, with slots and pids being reused    *)
(* and signals ending processes at any system call.                        *)
(***************************************************************************)
FlatReapReturns == reapers = {Boot} => ReapReturns

(***************************************************************************)
(* Every sched_reap of the init thread returns, since its process ends.    *)
(***************************************************************************)
BootResumes ==
    (reapers = {Boot} /\ g_current # Boot) ~> (g_current = Boot /\ phase = "run")

(***************************************************************************)
(* sched_yield gives the rest of the quantum away and returns (sched.h:    *)
(* "Yield the remaining quantum"): it never waits for a lock it holds.     *)
(***************************************************************************)
NoSelfDeadlock == phase # "spin"
=============================================================================
