-------------------------------- MODULE Stcf --------------------------------
(***************************************************************************)
(* The process table of the P3 xv6 kernel with the shortest-time-to-      *)
(* completion-first scheduler (proc.c, sysproc.c, trap.c, uvmrefcount in   *)
(* vm.c, compiled with -DSTCF).                                            *)
(*                                                                         *)
(* A section of the kernel that runs under ptable.lock is one step.  The   *)
(* two halves of sched() are two steps: the process leaves the CPU and the *)
(* scheduler thread releases the lock (Yield, GiveCpu, NapSleep, Wait,     *)
(* Exit); later a scheduler thread takes the lock, scans the table and     *)
(* switches to the process it picked (Schedule).  Unlocked kernel code     *)
(* between two sections has steps of its own, so that with Cpus > 1 other  *)
(* processors interleave with it; with Cpus = 1 only the timer does.       *)
(***************************************************************************)
EXTENDS Integers, FiniteSets, FiniteSetsExt

CONSTANTS
    NPROC,      \* slots of the process table
    Cpus,       \* processors
    Times,      \* completion times programs pass to remain and exec2
    Naps,       \* tick counts programs pass to sleep
    MaxInt,     \* 0x7fffffff, the starting minimum of the scan
    MaxPid,     \* bound: no process is created after pid MaxPid
    MaxTicks,   \* bound: the timer stops after MaxTicks interrupts
    Loads       \* what programs run: their calls, and tighter bounds of both

Slots    == 1..NPROC
None     == 0                       \* the null struct proc *
initproc == 1
Ticks    == NPROC + 1               \* &ticks, as a sleep channel
Timer    == NPROC + 1               \* the timer handler, as owner of tickslock
Pgdirs   == 1..(NPROC + 1)          \* page directories kalloc can hand out
States   == {"UNUSED", "EMBRYO", "SLEEPING", "RUNNABLE", "RUNNING", "ZOMBIE"}

ASSUME StcfAssumption ==
    /\ NPROC \in Nat \ {0} /\ Cpus \in Nat \ {0}
    /\ MaxPid \in Nat \ {0} /\ MaxTicks \in Nat /\ MaxInt \in Nat
    /\ Times \subseteq 1..MaxInt /\ Naps \subseteq Int
    /\ \A l \in Loads : l.pids \in 1..MaxPid /\ l.ticks \in 0..MaxTicks

VARIABLES
    ptable,     \* ptable.proc: one struct proc per slot
    holder,     \* the process resumed inside wait() with ptable.lock held
    nextpid,
    ticks,
    tickslock,  \* owner of tickslock: None, Timer or a process in sys_sleep
    uvmrefcount,\* sharers of a page directory; -1 when it has no descriptor
    vm,         \* page directories in use
    pc,         \* where each process is inside the kernel ("user": outside)
    local,      \* kernel stack: child slot, nap length and start, loaded count
    load        \* one of Loads; it never changes

vars == <<ptable, holder, nextpid, ticks, tickslock, uvmrefcount, vm, pc, local, load>>

NoLocal == [np |-> None, n |-> 0, t0 |-> 0, rc |-> 0]

Blank == [state |-> "UNUSED", pid |-> 0, parent |-> None, chan |-> None,
          killed |-> FALSE, sleepticks |-> 0, ec |-> 0, globalTick |-> 0,
          skip |-> FALSE, pgdir |-> 0]

\* userinit: slot 1 holds the first process, everything else is zero.
Init ==
    /\ ptable = [p \in Slots |-> IF p = initproc
                   THEN [Blank EXCEPT !.state = "RUNNABLE", !.pid = 1,
                                      !.sleepticks = -1, !.pgdir = 1]
                   ELSE Blank]
    /\ holder = None /\ nextpid = 2 /\ ticks = 0 /\ tickslock = None
    /\ uvmrefcount = [d \in Pgdirs |-> -1]
    /\ vm = {1}
    /\ pc = [p \in Slots |-> IF p = initproc THEN "born" ELSE "user"]
    /\ local = [p \in Slots |-> NoLocal]
    /\ load \in Loads

-----------------------------------------------------------------------------
In(p, s)  == ptable[p].state = s
Running   == {p \in Slots : In(p, "RUNNING")}

\* On one processor the timer handler runs to its end before anything else.
Interrupted == Cpus = 1 /\ tickslock = Timer
LockFree    == holder = None /\ ~Interrupted

\* p executes kernel code at l.
At(p, l) == In(p, "RUNNING") /\ pc[p] = l /\ ~Interrupted
\* p, in user mode and not killed, makes system call c (trap checks killed
\* on entry and on return).
Enter(p, c) == At(p, "user") /\ ~ptable[p].killed /\ c \in load.calls
Goto(p, l)  == pc' = [pc EXCEPT ![p] = l]
Return(p)   == Goto(p, "user") /\ local' = [local EXCEPT ![p] = NoLocal]

-----------------------------------------------------------------------------
(* The scheduler *)

Candidate(p) == In(p, "RUNNABLE") /\ ~ptable[p].skip

\* A bug that must not happen: a tie goes to the lower pid.
BeatsOlder(p, b) ==
    \/ ptable[p].ec < (IF b = None THEN MaxInt ELSE ptable[b].ec)
    \/ b # None /\ ptable[p].ec = ptable[b].ec /\ ptable[p].pid < ptable[b].pid

\* The comparison of the scan: strictly shorter, or as short with a higher pid.
Beats(p, b) ==
    \/ ptable[p].ec < (IF b = None THEN MaxInt ELSE ptable[b].ec)
    \/ b # None /\ ptable[p].ec = ptable[b].ec /\ ptable[p].pid > ptable[b].pid

\* The scan in table order: what it has picked after slot i, None for nothing.
Scan[i \in 0..NPROC] ==
    IF i = 0 THEN None
    ELSE IF Candidate(i) /\ Beats(i, Scan[i - 1]) THEN i ELSE Scan[i - 1]

Best == Scan[NPROC]

\* A bug that must not happen: the mark is never taken off.
KeepSkipped == ptable

\* The scan passes over a process that gave up the CPU, once.
Unskipped == [p \in Slots |-> IF In(p, "RUNNABLE") THEN [ptable[p] EXCEPT !.skip = FALSE]
                                                   ELSE ptable[p]]

\* The picked process continues after sched(); in wait it still holds
\* ptable.lock and scans the table before it releases it.
Resume(p) ==
    /\ ptable' = [Unskipped EXCEPT ![p].state = "RUNNING", ![p].globalTick = ticks,
                                   ![p].chan = None]
    /\ holder' = IF pc[p] = "wait" THEN p ELSE None
    /\ IF pc[p] \in {"born", "given"}
         THEN Return(p)
         ELSE UNCHANGED <<pc, local>>

\* A bug that must not happen: the scheduler does not wait for a free processor.
ScheduleBusy ==
    /\ LockFree
    /\ IF Best = None
         THEN ptable' = Unskipped /\ UNCHANGED <<holder, pc, local>>
         ELSE Resume(Best)
    /\ UNCHANGED <<nextpid, ticks, tickslock, uvmrefcount, vm, load>>

Schedule ==
    /\ LockFree /\ Cardinality(Running) < Cpus
    /\ IF Best = None
         THEN ptable' = Unskipped /\ UNCHANGED <<holder, pc, local>>
         ELSE Resume(Best)
    /\ UNCHANGED <<nextpid, ticks, tickslock, uvmrefcount, vm, load>>

-----------------------------------------------------------------------------
(* Leaving the CPU *)

Elapsed(p) == ticks - ptable[p].globalTick
Charged(p) == ptable[p].ec - Elapsed(p)

\* sleep charges only a positive time and stops at 0.
SleepCharged(p) == IF ptable[p].ec > 0 THEN Max({0, Charged(p)}) ELSE ptable[p].ec
Asleep(p, c) == [ptable EXCEPT ![p].state = "SLEEPING", ![p].chan = c,
                               ![p].ec = SleepCharged(p), ![p].globalTick = ticks]

\* yield, called by sleep(0), remain and exec2; exec2 continues with exec.
Yield(p) ==
    /\ LockFree
    /\ \/ At(p, "yield") /\ Goto(p, "given")
       \/ At(p, "exec2") /\ Goto(p, "exec")
    /\ ptable' = [ptable EXCEPT ![p].state = "RUNNABLE", ![p].ec = Charged(p)]
    /\ UNCHANGED <<holder, nextpid, ticks, tickslock, uvmrefcount, vm, local, load>>

\* give_cpu, as a system call and at the end of fork.
GiveCpu(p) ==
    /\ LockFree
    /\ Enter(p, "give_cpu") \/ At(p, "giving")
    /\ ptable' = [ptable EXCEPT ![p].state = "RUNNABLE", ![p].skip = TRUE]
    /\ Goto(p, "given")
    /\ UNCHANGED <<holder, nextpid, ticks, tickslock, uvmrefcount, vm, local, load>>

-----------------------------------------------------------------------------
(* Completion times *)

\* remain: the time left decides whether the caller yields afterwards.
Remain(p) ==
    /\ LockFree /\ Enter(p, "remain")
    /\ \E t \in Times :
         IF ptable[p].ec = 0
           THEN /\ ptable' = [ptable EXCEPT ![p].ec = t, ![p].globalTick = ticks]
                /\ UNCHANGED pc
           ELSE /\ ptable' = [ptable EXCEPT ![p].ec = t]
                /\ IF t > Charged(p) THEN Goto(p, "yield") ELSE UNCHANGED pc
    /\ UNCHANGED <<holder, nextpid, ticks, tickslock, uvmrefcount, vm, local, load>>

\* sys_exec2 stores the time first, without the lock.
Exec2(p) ==
    /\ Enter(p, "exec2")
    /\ \E t \in Times :
         /\ ptable' = [ptable EXCEPT ![p].ec = t]
         /\ Goto(p, IF t > ptable[p].ec THEN "exec2" ELSE "exec")
    /\ UNCHANGED <<holder, nextpid, ticks, tickslock, uvmrefcount, vm, local, load>>

\* freevm: only the last sharer frees the memory.
Freevm(d, fresh) ==
    IF uvmrefcount[d] > 1
      THEN /\ uvmrefcount' = [uvmrefcount EXCEPT ![d] = @ - 1]
           /\ vm' = vm \union fresh
      ELSE /\ uvmrefcount' = [uvmrefcount EXCEPT ![d] = -1]
           /\ vm' = (vm \union fresh) \ {d}

FreshPgdir == Min(Pgdirs \ vm)

\* exec: a new image replaces the old one, or it fails and changes nothing.
Exec(p) ==
    /\ At(p, "exec") \/ Enter(p, "exec")
    /\ Return(p)
    /\ \/ UNCHANGED <<ptable, uvmrefcount, vm>>
       \/ /\ Pgdirs # vm
          /\ ptable' = [ptable EXCEPT ![p].pgdir = FreshPgdir]
          /\ Freevm(ptable[p].pgdir, {FreshPgdir})
    /\ UNCHANGED <<holder, nextpid, ticks, tickslock, load>>

-----------------------------------------------------------------------------
(* fork and clone *)

\* allocproc's locked part: the first free slot.  killed is left as it was.
Alloc(p, c, l) ==
    /\ LockFree /\ Enter(p, c) /\ nextpid <= MaxPid /\ nextpid <= load.pids
    /\ \E np \in Slots :
         /\ In(np, "UNUSED") /\ \A q \in 1..(np - 1) : ~In(q, "UNUSED")
         /\ ptable' = [ptable EXCEPT ![np].state = "EMBRYO", ![np].pid = nextpid,
                                     ![np].sleepticks = -1, ![np].chan = None]
         /\ local' = [local EXCEPT ![p].np = np]
    /\ nextpid' = nextpid + 1
    /\ Goto(p, l)
    /\ UNCHANGED <<holder, ticks, tickslock, uvmrefcount, vm, load>>

Fork(p)  == Alloc(p, "fork", "fork")
Clone(p) == Alloc(p, "clone", "clone")

\* The fields allocproc sets after it released the lock.
Fresh(np) == [ptable[np] EXCEPT !.ec = 0, !.globalTick = ticks, !.skip = FALSE]

\* kalloc fails in allocproc, or copyuvm fails in fork: the slot is UNUSED
\* again and keeps the pid and killed it has.
AllocFail(p) ==
    /\ At(p, "fork") \/ At(p, "clone")
    /\ LET np == local[p].np
       IN \E s \in IF pc[p] = "fork" THEN {ptable[np], Fresh(np)} ELSE {ptable[np]} :
            ptable' = [ptable EXCEPT ![np] = [s EXCEPT !.state = "UNUSED"]]
    /\ Return(p)
    /\ UNCHANGED <<holder, nextpid, ticks, tickslock, uvmrefcount, vm, load>>

\* A bug that must not happen: the child inherits the time as it was before the parent's charge.
InheritUncharged(p) ==
    /\ LockFree /\ At(p, "fork") /\ Pgdirs # vm
    /\ LET np == local[p].np
       IN ptable' = [ptable EXCEPT
            ![p].ec = Charged(p), ![p].globalTick = ticks,
            ![np] = [Fresh(np) EXCEPT !.parent = p, !.pgdir = FreshPgdir,
                                      !.ec = ptable[p].ec]]
    /\ vm' = vm \union {FreshPgdir}
    /\ Goto(p, "forked")
    /\ UNCHANGED <<holder, nextpid, ticks, tickslock, uvmrefcount, local, load>>

\* The child gets a copy of the image; the parent is charged and the child
\* inherits the time that is left.
ForkInherit(p) ==
    /\ LockFree /\ At(p, "fork") /\ Pgdirs # vm
    /\ LET np == local[p].np
       IN ptable' = [ptable EXCEPT
            ![p].ec = Charged(p), ![p].globalTick = ticks,
            ![np] = [Fresh(np) EXCEPT !.parent = p, !.pgdir = FreshPgdir,
                                      !.ec = Charged(p)]]
    /\ vm' = vm \union {FreshPgdir}
    /\ Goto(p, "forked")
    /\ UNCHANGED <<holder, nextpid, ticks, tickslock, uvmrefcount, local, load>>

\* A bug that must not happen: a new descriptor counts only the child.
CloneCountsOne(p) ==
    /\ At(p, "clone")
    /\ LET np == local[p].np
           d  == ptable[p].pgdir
       IN /\ ptable' = [ptable EXCEPT ![np] = [Fresh(np) EXCEPT !.parent = p, !.pgdir = d]]
          /\ local' = [local EXCEPT ![p].rc = Max({0, uvmrefcount[d]}) + 1]
    /\ Goto(p, "count")
    /\ UNCHANGED <<holder, nextpid, ticks, tickslock, uvmrefcount, vm, load>>

\* clone shares the page directory; its count is read and written without a
\* lock.
CloneLoad(p) ==
    /\ At(p, "clone")
    /\ LET np == local[p].np
           d  == ptable[p].pgdir
       IN /\ ptable' = [ptable EXCEPT ![np] = [Fresh(np) EXCEPT !.parent = p, !.pgdir = d]]
          /\ local' = [local EXCEPT ![p].rc = IF uvmrefcount[d] = -1
                                                THEN 2 ELSE uvmrefcount[d] + 1]
    /\ Goto(p, "count")
    /\ UNCHANGED <<holder, nextpid, ticks, tickslock, uvmrefcount, vm, load>>

CloneStore(p) ==
    /\ At(p, "count")
    /\ uvmrefcount' = [uvmrefcount EXCEPT ![ptable[p].pgdir] = local[p].rc]
    /\ Goto(p, "cloned")
    /\ UNCHANGED <<ptable, holder, nextpid, ticks, tickslock, vm, local, load>>

\* The child becomes RUNNABLE; fork goes on to give_cpu, clone returns.
Publish(p) ==
    /\ LockFree /\ (At(p, "forked") \/ At(p, "cloned"))
    /\ ptable' = [ptable EXCEPT ![local[p].np].state = "RUNNABLE"]
    /\ pc' = [pc EXCEPT ![p] = IF pc[p] = "forked" THEN "giving" ELSE "user",
                        ![local[p].np] = "born"]
    /\ local' = IF pc[p] = "forked" THEN local ELSE [local EXCEPT ![p] = NoLocal]
    /\ UNCHANGED <<holder, nextpid, ticks, tickslock, uvmrefcount, vm, load>>

-----------------------------------------------------------------------------
(* wait, exit and kill *)

Children(p) == {q \in Slots : ptable[q].parent = p}

\* One pass of wait over the table, ptable.lock held: reap the first zombie
\* child, give up without children or when killed, else sleep on itself.
Wait(p) ==
    /\ \/ LockFree /\ Enter(p, "wait")
       \/ At(p, "wait") /\ holder = p
    /\ LET zombies == {q \in Children(p) : In(q, "ZOMBIE")}
           z == Min(zombies)
       IN IF zombies # {}
            THEN /\ Freevm(ptable[z].pgdir, {})
                 /\ ptable' = [ptable EXCEPT ![z].pid = 0, ![z].parent = None,
                                             ![z].killed = FALSE, ![z].state = "UNUSED"]
                 /\ Return(p)
            ELSE IF Children(p) = {} \/ ptable[p].killed
                   THEN Return(p) /\ UNCHANGED <<ptable, uvmrefcount, vm>>
                   ELSE /\ ptable' = Asleep(p, p)
                        /\ Goto(p, "wait")
                        /\ UNCHANGED <<uvmrefcount, vm, local>>
    /\ holder' = None
    /\ UNCHANGED <<nextpid, ticks, tickslock, load>>

\* wakeup1(chan) on table t.
Wakeup1(t, c) == [p \in Slots |-> IF t[p].state = "SLEEPING" /\ t[p].chan = c
                                    THEN [t[p] EXCEPT !.state = "RUNNABLE"] ELSE t[p]]

\* A bug that must not happen: the parent in wait is not woken.
ExitUnheard(p) ==
    /\ LockFree /\ At(p, "user") /\ p # initproc
    /\ "exit" \in load.calls \/ ptable[p].killed
    /\ ptable' = [q \in Slots |->
          IF q = p THEN [ptable[p] EXCEPT !.state = "ZOMBIE"]
          ELSE IF q \in Children(p) THEN [ptable[q] EXCEPT !.parent = initproc]
          ELSE ptable[q]]
    /\ UNCHANGED <<holder, nextpid, ticks, tickslock, uvmrefcount, vm, pc, local, load>>

\* A bug that must not happen: the children keep their dead parent.
ExitAlone(p) ==
    /\ LockFree /\ At(p, "user") /\ p # initproc
    /\ "exit" \in load.calls \/ ptable[p].killed
    /\ ptable' = [Wakeup1(ptable, ptable[p].parent) EXCEPT ![p].state = "ZOMBIE"]
    /\ UNCHANGED <<holder, nextpid, ticks, tickslock, uvmrefcount, vm, pc, local, load>>

\* exit: wake the parent, hand the children to init, become a zombie.
\* A killed process in user mode gets here on its next trap.  init panics
\* if it exits, so it does not.
Exit(p) ==
    /\ LockFree /\ At(p, "user") /\ p # initproc
    /\ "exit" \in load.calls \/ ptable[p].killed
    /\ LET woken   == Wakeup1(ptable, ptable[p].parent)
           orphans == Children(p)
           given   == [q \in Slots |-> IF q \in orphans
                         THEN [woken[q] EXCEPT !.parent = initproc] ELSE woken[q]]
           told    == IF \E q \in orphans : In(q, "ZOMBIE")
                        THEN Wakeup1(given, initproc) ELSE given
       IN ptable' = [told EXCEPT ![p].state = "ZOMBIE"]
    /\ UNCHANGED <<holder, nextpid, ticks, tickslock, uvmrefcount, vm, pc, local, load>>

\* kill(k): the first slot with that pid, whatever its state.  Nobody kills
\* init, whose exit would panic.
Kill(p) ==
    /\ LockFree /\ Enter(p, "kill")
    /\ \E q \in Slots \ {initproc} :
         /\ \A r \in 1..(q - 1) : ptable[r].pid # ptable[q].pid
         /\ ptable' = [ptable EXCEPT ![q].killed = TRUE,
                         ![q].state = IF @ = "SLEEPING" THEN "RUNNABLE" ELSE @]
    /\ UNCHANGED <<holder, nextpid, ticks, tickslock, uvmrefcount, vm, pc, local, load>>

-----------------------------------------------------------------------------
(* sys_sleep and the timer *)

TakeTickslock(p) == tickslock = None /\ tickslock' = p

\* A bug that must not happen: the count of ticks to sleep is not stored.
NapUncounted(p) ==
    /\ Enter(p, "sleep")
    /\ \E n \in Naps \ {0} :
         /\ TakeTickslock(p)
         /\ local' = [local EXCEPT ![p].n = n, ![p].t0 = ticks]
         /\ Goto(p, "nap")
    /\ UNCHANGED <<ptable, holder, nextpid, ticks, uvmrefcount, vm, load>>

\* sleep(n): n = 0 is a yield.
Nap(p) ==
    /\ Enter(p, "sleep")
    /\ \E n \in Naps :
         IF n = 0
           THEN Goto(p, "yield") /\ UNCHANGED <<ptable, tickslock, local>>
           ELSE /\ TakeTickslock(p)
                /\ ptable' = [ptable EXCEPT ![p].sleepticks = n]
                /\ local' = [local EXCEPT ![p].n = n, ![p].t0 = ticks]
                /\ Goto(p, "nap")
    /\ UNCHANGED <<holder, nextpid, ticks, uvmrefcount, vm, load>>

\* ticks - ticks0 < n compares as unsigned: a negative n is a huge one.
NapOver(p) == local[p].n >= 0 /\ ticks - local[p].t0 >= local[p].n

\* The loop test under tickslock, then the killed test.
NapTest(p) ==
    /\ At(p, "nap")
    /\ IF NapOver(p) \/ ptable[p].killed
         THEN /\ ptable' = IF NapOver(p) THEN [ptable EXCEPT ![p].sleepticks = -1]
                                         ELSE ptable
              /\ Return(p)
              /\ tickslock' = None
         ELSE Goto(p, "drowse") /\ UNCHANGED <<ptable, tickslock, local>>
    /\ UNCHANGED <<holder, nextpid, ticks, uvmrefcount, vm, load>>

\* sleep(&ticks, &tickslock): take ptable.lock, release tickslock, sleep.
NapSleep(p) ==
    /\ LockFree /\ At(p, "drowse")
    /\ ptable' = Asleep(p, Ticks)
    /\ tickslock' = None
    /\ Goto(p, "roused")
    /\ UNCHANGED <<holder, nextpid, ticks, uvmrefcount, vm, local, load>>

NapWake(p) ==
    /\ At(p, "roused")
    /\ TakeTickslock(p)
    /\ Goto(p, "nap")
    /\ UNCHANGED <<ptable, holder, nextpid, ticks, uvmrefcount, vm, local, load>>

\* The timer interrupt on cpu 0.  On one processor it waits until the code
\* that holds a lock enables interrupts again.
Tick ==
    /\ ticks < MaxTicks /\ ticks < load.ticks /\ tickslock = None /\ (Cpus = 1 => holder = None)
    /\ ticks' = ticks + 1
    /\ tickslock' = Timer
    /\ UNCHANGED <<ptable, holder, nextpid, uvmrefcount, vm, pc, local, load>>

\* A bug that must not happen: the sleeper is woken when its count reaches zero.
NotifiedEarly(s) == IF s.state = "SLEEPING" /\ s.chan = Ticks
                      THEN [s EXCEPT !.sleepticks = @ - 1,
                                     !.state = IF s.sleepticks <= 1 THEN "RUNNABLE" ELSE @]
                      ELSE s

Notified(s) == IF s.state = "SLEEPING" /\ s.chan = Ticks
                 THEN IF s.sleepticks = 0 THEN [s EXCEPT !.state = "RUNNABLE"]
                                          ELSE [s EXCEPT !.sleepticks = @ - 1]
                 ELSE s

\* sleep_proc_notify, tickslock held.
Notify ==
    /\ tickslock = Timer /\ holder = None
    /\ ptable' = [p \in Slots |-> Notified(ptable[p])]
    /\ tickslock' = None
    /\ UNCHANGED <<holder, nextpid, ticks, uvmrefcount, vm, pc, local, load>>

-----------------------------------------------------------------------------
\* What a process does once it is inside the kernel.
Kernel(p) ==
    \/ Yield(p) \/ (pc[p] = "giving" /\ GiveCpu(p)) \/ (pc[p] = "exec" /\ Exec(p))
    \/ AllocFail(p) \/ ForkInherit(p) \/ CloneLoad(p) \/ CloneStore(p) \/ Publish(p)
    \/ (pc[p] = "wait" /\ Wait(p)) \/ NapTest(p) \/ NapSleep(p) \/ NapWake(p)

Syscall(p) ==
    \/ (pc[p] = "user" /\ GiveCpu(p)) \/ Remain(p) \/ Exec2(p) \/ Fork(p) \/ Clone(p)
    \/ (pc[p] = "user" /\ (Wait(p) \/ Exec(p))) \/ Exit(p) \/ Kill(p) \/ Nap(p)

Next == Schedule \/ Tick \/ Notify \/ \E p \in Slots : Syscall(p) \/ Kernel(p)

\* The processors keep executing kernel code and the timer keeps ticking; no
\* program is assumed to make a system call.
Fairness == /\ WF_vars(Schedule) /\ WF_vars(Tick) /\ WF_vars(Notify)
            /\ \A p \in Slots : WF_vars(Kernel(p))

Spec == Init /\ [][Next]_vars /\ Fairness

-----------------------------------------------------------------------------
(* Properties *)

Locations == {"user", "born", "given", "giving", "yield", "exec2", "exec", "fork",
              "forked", "clone", "count", "cloned", "wait", "nap", "drowse", "roused"}

\* Type correctness: the process table, the locks and the kernel stacks only
\* hold values of their C types, and no more processes run than there are
\* processors.
TypeOK ==
    /\ ptable \in [Slots -> [state : States, pid : 0..MaxPid, parent : Slots \union {None},
                             chan : 0..(NPROC + 1), killed : BOOLEAN, sleepticks : Int,
                             ec : Int, globalTick : 0..MaxTicks, skip : BOOLEAN,
                             pgdir : Pgdirs \union {0}]]
    /\ holder \in Slots \union {None} /\ tickslock \in 0..(NPROC + 1)
    /\ nextpid \in 2..(MaxPid + 1) /\ ticks \in 0..MaxTicks
    /\ uvmrefcount \in [Pgdirs -> {-1} \union Nat] /\ vm \subseteq Pgdirs
    /\ pc \in [Slots -> Locations]
    /\ local \in [Slots -> [np : Slots \union {None}, n : Int, t0 : Nat, rc : Int]]
    /\ Cardinality(Running) <= Cpus

Dispatched(p) == In(p, "RUNNABLE") /\ ptable'[p].state = "RUNNING"

\* The scheduler never runs a process while a candidate has less time to
\* completion, or as much and a higher pid (README.md, step 5), whatever the
\* order of the table.
ShortestRuns ==
    [][\A p \in Slots : Dispatched(p) =>
         \A q \in Slots \ {p} : Candidate(q) =>
            \/ ptable[p].ec < ptable[q].ec
            \/ ptable[p].ec = ptable[q].ec /\ ptable[p].pid > ptable[q].pid]_vars

\* After fork the child runs before its parent runs again (README.md, step 1),
\* although other processes may run first and ticks may pass in between: it
\* needs the equal times, the higher pid and the skip of the parent together.
ForkChildFirst ==
    [][\A p \in Slots : Dispatched(p) /\ pc[p] = "given" /\ local[p].np # None =>
         ~(In(local[p].np, "RUNNABLE") /\ pc[local[p].np] = "born")]_vars

\* The timer wakes a sleeper after exactly n + 1 ticks: never early, so that
\* the loop of sys_sleep never sleeps twice, and never later.
NapLasts ==
    [][\A p \in Slots :
         In(p, "SLEEPING") /\ ptable[p].chan = Ticks /\ ptable'[p].state = "RUNNABLE"
            /\ ~ptable'[p].killed
         => ticks - local[p].t0 = local[p].n + 1]_vars

\* A process has its page directory from the moment fork or clone counted it.
Owns(q) ==
    \/ ~In(q, "UNUSED") /\ ~In(q, "EMBRYO")
    \/ \E p \in Slots : local[p].np = q /\ pc[p] \in {"forked", "cloned"}

Sharers(d) == {q \in Slots : Owns(q) /\ ptable[q].pgdir = d}

\* Page directories are freed exactly when their last sharer is reaped or
\* replaces its image: none in use is freed, none unused is kept, and a
\* descriptor of uvmrefcount counts the sharers.
SharersCounted ==
    /\ vm = {d \in Pgdirs : Sharers(d) # {}}
    /\ \A d \in vm : LET n == Cardinality(Sharers(d))
                     IN uvmrefcount[d] = n \/ (uvmrefcount[d] = -1 /\ n = 1)

\* An idle processor with something to run gets to run something, although
\* the scan may pass over the process that gave up the CPU.
IdleEnds ==
    (Running = {} /\ \E p \in Slots : In(p, "RUNNABLE") /\ ptable[p].ec < MaxInt)
        ~> (Running # {})

\* A process that sleeps n ticks becomes RUNNABLE once the timer got that far.
NapEnds ==
    \A p \in Slots :
        (In(p, "SLEEPING") /\ ptable[p].chan = Ticks /\ local[p].n >= 0
            /\ local[p].t0 + local[p].n < load.ticks) ~> ~In(p, "SLEEPING")

\* No wakeup of wait is lost: a process asleep in wait is not killed, has no
\* zombie to reap and has a child whose exit will wake it.
WaitersCanBeWoken ==
    \A p \in Slots : In(p, "SLEEPING") /\ ptable[p].chan = p =>
        /\ ~ptable[p].killed
        /\ Children(p) # {}
        /\ \A q \in Children(p) : ~In(q, "ZOMBIE")

\* The slots implement the tree of processes: an EMBRYO is not there yet.
There(p) == ~In(p, "UNUSED") /\ ~In(p, "EMBRYO")

Tree == INSTANCE ProcessTree WITH
    Pids <- 1..MaxPid, Root <- initproc, FirstPid <- 1, Nobody <- None,
    status <- [p \in Slots |-> IF ~There(p) THEN "free"
                               ELSE IF In(p, "ZOMBIE") THEN "zombie" ELSE "live"],
    parent <- [p \in Slots |-> IF There(p) THEN ptable[p].parent ELSE None],
    pid    <- [p \in Slots |-> IF There(p) THEN ptable[p].pid ELSE None]

\* fork, clone, exit and wait keep the promises of ProcessTree.
TreeSpec == Tree!TreeSpec
=============================================================================
