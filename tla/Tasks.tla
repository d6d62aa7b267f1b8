-------------------------------- MODULE Tasks --------------------------------
(***************************************************************************)
(* Processes of Linux 0.01: the scheduler, fork, exit, wait and signals.   *)
(*                                                                         *)
(* There is one processor and the kernel is not preempted: a step of the   *)
(* current task runs from one place where it may lose the processor to the *)
(* next (pc says where it goes on), and only the timer comes in between.   *)
(* Time is kept relative: alarm is the number of ticks left, -1 once       *)
(* alarm < jiffies.                                                        *)
(***************************************************************************)
EXTENDS Integers, FiniteSets, FiniteSetsExt

CONSTANTS
  NR_TASKS,     \* slots of task[] (64)
  MaxPid,       \* the pid after which last_pid starts again from 1 (2^31 - 1)
  Priority,     \* the priority of INIT_TASK (15)
  HZ,           \* ticks in the second an alarm is set for (100)
  Signals,      \* the signal numbers in use
  Uids          \* user ids; 0 is the superuser

SIGKILL == 9
SIGALRM == 14
SIGCHLD == 17

ASSUME TasksAssumption ==
  /\ NR_TASKS \in Nat \ {0} /\ MaxPid \in Nat /\ MaxPid >= NR_TASKS
  /\ Priority \in Nat \ {0} /\ HZ \in Nat
  /\ Signals \subseteq 1 .. 32 /\ {SIGKILL, SIGALRM, SIGCHLD} \subseteq Signals
  /\ 0 \in Uids

VARIABLES
  state, counter, priority, signal, sig_fn, alarm,      \* by slot of task[]
  pid, father, pgrp, session, leader, uid, euid,
  pc,           \* where the task goes on when it has the processor
  warg,         \* the pid a task in waitpid waits for
  current, last_pid

ids == <<pid, father, pgrp, session, leader, uid, euid>>
run == <<state, counter, signal, alarm, current>>
tvars == <<run, priority, sig_fn, ids, pc, warg, last_pid>>

Slots == 0 .. (NR_TASKS - 1)
FIRST_TASK == 0
NoAlarm == -2

\* Signals whose handler a task may change.
Catchable == Signals \ {SIGKILL}

Used(s) == state[s] # "none"
\* Slots that do_kill, schedule and waitpid look at.
Others == {s \in Slots \ {FIRST_TASK} : Used(s)}

-----------------------------------------------------------------------------
\* For the mutation of Picked: the last task of the table is never looked at.
Picked_NotLast(ready, ct) ==
  LET seen == ready \ {NR_TASKS - 1}
  IN  IF seen = {} THEN FIRST_TASK
      ELSE Max({s \in seen : \A r \in seen : ct[r] <= ct[s]})

\* The task with most time left, the last one among equals; else task 0.
Picked(ready, ct) ==
  IF ready = {} THEN FIRST_TASK
  ELSE Max({s \in ready : \A r \in ready : ct[r] <= ct[s]})


\* A signal ends an interruptible sleep.
Wakes(st, pending) == st = "interruptible" /\ pending # {}

\* For the mutation of Ready: a task that sleeps is taken as well.
Ready_AnyLiving(st, live) == {s \in live : st[s] # "zombie"}

\* The tasks the scheduler chooses from.
Ready(st, live) == {s \in live : st[s] = "running"}

(***************************************************************************)
(* schedule() with the states, signals, alarms and counters its caller has *)
(* set.  One round of the loop is enough: priorities are positive.         *)
(***************************************************************************)
Schedule(st, sg, al, ct) ==
  LET live == {s \in Slots \ {FIRST_TASK} : st[s] # "none"}
      due == {s \in live : al[s] = -1}
      sg1 == [s \in Slots |-> IF s \in due THEN sg[s] \cup {SIGALRM} ELSE sg[s]]
      woken == {s \in live : Wakes(st[s], sg1[s])}
      ready == Ready(st, live) \cup woken
      spent == ready # {} /\ \A s \in ready : ct[s] = 0
      ct1 == [s \in Slots |-> IF spent /\ s \in live
                              THEN ct[s] \div 2 + priority[s] ELSE ct[s]]
  IN  /\ signal' = sg1
      /\ alarm' = [s \in Slots |-> IF s \in due THEN NoAlarm ELSE al[s]]
      /\ state' = [s \in Slots |-> IF s \in woken THEN "running" ELSE st[s]]
      /\ counter' = ct1
      /\ current' = Picked(ready, ct1)

\* The current task is to go on at label l.
GoesTo(l) == pc' = [pc EXCEPT ![current] = l]

Reschedule == Schedule(state, signal, alarm, counter)

\* A system call has returned to system_call without rescheduling.
SysDone == GoesTo("sysret") /\ UNCHANGED run

InUser == pc[current] = "user"

\* Tasks other than the idle task, which only pauses, call what they like.
Caller == InUser /\ current # FIRST_TASK

-----------------------------------------------------------------------------
Ticked(c) == IF c > 0 THEN c - 1 ELSE 0

(***************************************************************************)
(* The timer: one tick for the current task and for every alarm.  It       *)
(* reschedules, and delivers signals, only when it interrupts user mode.   *)
(***************************************************************************)
TimerInterrupt ==
  LET al == [s \in Slots |-> IF alarm[s] >= 0 THEN alarm[s] - 1 ELSE alarm[s]]
      ct == [counter EXCEPT ![current] = Ticked(@)]
  IN  /\ \/ InUser /\ GoesTo("ret") /\ ct[current] = 0 /\ Schedule(state, signal, al, ct)
         \/ /\ IF InUser THEN GoesTo("ret") ELSE UNCHANGED pc
            /\ InUser => ct[current] > 0
            /\ alarm' = al /\ counter' = ct
            /\ UNCHANGED <<state, signal, current>>
      /\ UNCHANGED <<priority, sig_fn, ids, warg, last_pid>>

OutOfTime(s) == state[s] # "running" \/ counter[s] = 0

\* The end of system_call: reschedule if the task stopped or has no time left.
SysRet ==
  /\ pc[current] = "sysret"
  /\ GoesTo("ret")
  /\ IF OutOfTime(current) THEN Reschedule
     ELSE UNCHANGED run
  /\ UNCHANGED <<priority, sig_fn, ids, warg, last_pid>>

\* What ret_from_sys_call passes over: ignored signals and a default SIGCHLD.
Passed(s, g) == sig_fn[s][g] = "ign" \/ (sig_fn[s][g] = "dfl" /\ g = SIGCHLD)

\* What is pending behind the delivery of g.
StillPending(pending, g) == {h \in pending : h > g}

(***************************************************************************)
(* ret_from_sys_call: pending signals are taken from the lowest number up. *)
(* The first one that is not passed over ends the task or has its handler  *)
(* called, which resets the handler; those above it stay pending.          *)
(***************************************************************************)
RetFromSysCall ==
  /\ pc[current] = "ret"
  /\ LET s == current
         calls == {g \in signal[s] : ~Passed(s, g)}
     IN  \/ /\ s = FIRST_TASK \/ calls = {}
            /\ signal' = IF s = FIRST_TASK THEN signal ELSE [signal EXCEPT ![s] = {}]
            /\ GoesTo("user") /\ UNCHANGED sig_fn
         \/ /\ s # FIRST_TASK /\ calls # {}
            /\ LET g == Min(calls)
               IN  /\ signal' = [signal EXCEPT ![s] = StillPending(@, g)]
                   /\ \/ sig_fn[s][g] = "dfl" /\ GoesTo("exit") /\ UNCHANGED sig_fn
                      \/ /\ sig_fn[s][g] = "fn" /\ GoesTo("user")
                         /\ sig_fn' = [sig_fn EXCEPT ![s][g] = "dfl"]
  /\ UNCHANGED <<state, counter, alarm, current, priority, ids, warg, last_pid>>

-----------------------------------------------------------------------------
\* The idle task pauses for ever; it is run when nothing else can.
Pause ==
  /\ InUser
  /\ GoesTo("sysret")
  /\ Schedule([state EXCEPT ![current] = "interruptible"], signal, alarm, counter)
  /\ UNCHANGED <<priority, sig_fn, ids, warg, last_pid>>

\* sys_alarm for no time or for one second.
Alarm(seconds) ==
  /\ Caller /\ GoesTo("sysret")
  /\ alarm' = [alarm EXCEPT ![current] = IF seconds > 0 THEN HZ * seconds ELSE NoAlarm]
  /\ UNCHANGED <<state, counter, signal, current, priority, sig_fn, ids, warg, last_pid>>

\* sys_nice does not let a priority fall to 0 or below.
Lowers(p, increment) == p - increment > 0

Nice(increment) ==
  /\ Caller /\ SysDone
  /\ priority' = [priority EXCEPT ![current] =
                    IF Lowers(@, increment) THEN @ - increment ELSE @]
  /\ UNCHANGED <<sig_fn, ids, warg, last_pid>>

\* sys_signal; SIGKILL is not among the signals the switch accepts.
SysSignal(g, fn) ==
  /\ Caller /\ g \in Catchable /\ SysDone
  /\ sig_fn' = [sig_fn EXCEPT ![current][g] = fn]
  /\ UNCHANGED <<priority, ids, warg, last_pid>>

\* send_sig: the sender is privileged or shares a user id with the receiver.
MaySignal(s, priv) == priv \/ {uid[current], euid[current]} \cap {uid[s], euid[s]} # {}

\* do_kill: whom a pid stands for.  A pid of 0 means the group that bears the
\* caller's pid, which is not its own group unless it leads it.
Addressed(p) ==
  {s \in Others : \/ p = 0 /\ pgrp[s] = pid[current]
                  \/ p > 0 /\ pid[s] = p
                  \/ p = -1
                  \/ p < -1 /\ pgrp[s] = -p}

Signalled(sg, p, g, priv) ==
  [s \in Slots |-> IF s \in Addressed(p) /\ MaySignal(s, priv)
                   THEN sg[s] \cup {g} ELSE sg[s]]

Kill(p, g) ==
  /\ Caller /\ GoesTo("sysret")
  /\ signal' = Signalled(signal, p, g, uid[current] = 0 /\ euid[current] = 0)
  /\ UNCHANGED <<state, counter, alarm, current, priority, sig_fn, ids, warg, last_pid>>

-----------------------------------------------------------------------------
\* How many steps after last_pid the number q comes up.
After(q) == (q - last_pid - 1) % MaxPid

\* For the mutation of HasPid: zombies are passed over.
HasPid_NotZombie(s, q) == state[s] \notin {"none", "zombie"} /\ pid[s] = q

HasPid(s, q) == Used(s) /\ pid[s] = q

\* find_empty_process: p is the first pid after last_pid that no task has.
IsNextPid(p) ==
  LET free(q) == \A s \in Slots : ~HasPid(s, q)
  IN  free(p) /\ \A q \in 1 .. MaxPid : After(q) < After(p) => ~free(q)

FreeSlots == {s \in Slots \ {FIRST_TASK} : ~Used(s)}

\* The function f with a copy of the current task's value for slot n.
Inherit(f, n) == [f EXCEPT ![n] = f[current]]

(***************************************************************************)
(* sys_fork.  last_pid moves on even when there is no slot or no memory    *)
(* for the child; the child is a copy but for what copy_process resets.    *)
(***************************************************************************)
Fork(memory) ==
  /\ InUser /\ (current = FIRST_TASK => last_pid = 0)
  /\ GoesTo("sysret")
  /\ \E p \in 1 .. MaxPid : IsNextPid(p) /\ last_pid' = p
  /\ UNCHANGED <<current, warg>>
  /\ \/ /\ FreeSlots = {} \/ ~memory
        /\ UNCHANGED <<state, counter, signal, alarm, priority, sig_fn, ids>>
     \/ /\ FreeSlots # {} /\ memory
        /\ LET n == Min(FreeSlots)
           IN  /\ state' = [state EXCEPT ![n] = "running"]
               /\ pid' = [pid EXCEPT ![n] = last_pid']
               /\ father' = [father EXCEPT ![n] = pid[current]]
               /\ counter' = [counter EXCEPT ![n] = priority[current]]
               /\ signal' = [signal EXCEPT ![n] = {}]
               /\ alarm' = [alarm EXCEPT ![n] = NoAlarm]
               /\ leader' = [leader EXCEPT ![n] = FALSE]
               /\ priority' = Inherit(priority, n) /\ sig_fn' = Inherit(sig_fn, n)
               /\ pgrp' = Inherit(pgrp, n) /\ session' = Inherit(session, n)
               /\ uid' = Inherit(uid, n) /\ euid' = Inherit(euid, n)

-----------------------------------------------------------------------------
\* release(): the slot becomes free; its pc is made that of a child to come.
Released(st, s) == [st EXCEPT ![s] = "none"]

Exit ==
  /\ Caller
  /\ GoesTo("exit")
  /\ UNCHANGED <<run, priority, sig_fn, ids, warg, last_pid>>

\* The children of a task that exits.
Orphaned(s) == Used(s) /\ father[s] = pid[current]

(***************************************************************************)
(* do_exit, first part: the children lose their father; closing the files  *)
(* and releasing the directories may sleep on the disk.                    *)
(***************************************************************************)
ExitBegin ==
  /\ pc[current] = "exit"
  /\ GoesTo("closing")
  /\ father' = [s \in Slots |-> IF Orphaned(s) THEN 0 ELSE father[s]]
  /\ \/ UNCHANGED run
     \/ Schedule([state EXCEPT ![current] = "uninterruptible"], signal, alarm, counter)
  /\ UNCHANGED <<priority, sig_fn, pid, pgrp, session, leader, uid, euid, warg, last_pid>>

\* The disk interrupt that ends such a sleep.
DiskWakes(s) ==
  /\ state[s] = "uninterruptible"
  /\ state' = [state EXCEPT ![s] = "running"]
  /\ UNCHANGED <<counter, signal, alarm, current, priority, sig_fn, ids, pc, warg, last_pid>>

\* For the mutation of ToldFather: SIGCHLD is lost.
ToldFather_Nobody == signal

ToldFather == Signalled(signal, father[current], SIGCHLD, TRUE)

\* do_exit, second part: a task with a father stays as a zombie and the father
\* gets SIGCHLD; the slot of any other is free at once.
ExitEnd ==
  /\ pc[current] = "closing"
  /\ GoesTo("user")
  /\ IF father[current] # 0
     THEN Schedule([state EXCEPT ![current] = "zombie"],
                   ToldFather, alarm, counter)
     ELSE Schedule(Released(state, current), signal, alarm, counter)
  /\ UNCHANGED <<priority, sig_fn, ids, warg, last_pid>>

-----------------------------------------------------------------------------
\* The children of the current task that a pid given to waitpid stands for.
Children(p) ==
  {s \in Others \ {current} :
     /\ father[s] = pid[current]
     /\ \/ p = -1
        \/ pid[s] = p
        \/ p = 0 /\ pgrp[s] = pgrp[current]
        \/ p < 0 /\ pgrp[s] = -p}

(***************************************************************************)
(* One round of waitpid: the last zombie of the table is released and      *)
(* reported; else the caller pauses if it has a child, or once had one in  *)
(* this call (flag is never cleared).                                      *)
(***************************************************************************)
Look(p, flag, nohang, sg) ==
  LET zombies == {s \in Children(p) : state[s] = "zombie"}
  IN  \/ /\ zombies # {}
         /\ GoesTo("sysret")
         /\ Schedule(Released(state, Max(zombies)), sg, alarm, counter)
      \/ /\ zombies = {} /\ (Children(p) # {} \/ flag) /\ ~nohang
         /\ GoesTo("wait")
         /\ Schedule([state EXCEPT ![current] = "interruptible"], sg, alarm, counter)
      \/ /\ zombies = {} /\ (nohang \/ (Children(p) = {} /\ ~flag))
         /\ GoesTo("sysret")
         /\ signal' = sg /\ UNCHANGED <<state, counter, alarm, current>>

Waitpid(p, nohang) ==
  /\ Caller
  /\ warg' = [warg EXCEPT ![current] = p]
  /\ Look(p, FALSE, nohang, signal)
  /\ UNCHANGED <<priority, sig_fn, ids, last_pid>>

\* Behind the pause: SIGCHLD is taken off, any other signal ends the call.
WaitResumes ==
  /\ pc[current] = "wait"
  /\ LET left == signal[current] \ {SIGCHLD}
         sg == [signal EXCEPT ![current] = left]
     IN  \/ left = {} /\ Look(warg[current], TRUE, FALSE, sg)
         \/ /\ left # {} /\ GoesTo("sysret")
            /\ signal' = sg /\ UNCHANGED <<state, counter, alarm, current>>
  /\ UNCHANGED <<priority, sig_fn, ids, warg, last_pid>>

-----------------------------------------------------------------------------
\* sys_setpgid, for a task p (0 is the caller) and a group g (0 is p).
Setpgid(p, g) ==
  LET who == IF p = 0 THEN pid[current] ELSE p
      named == {s \in Slots : Used(s) /\ pid[s] = who}
  IN  /\ Caller /\ SysDone
      /\ pgrp' = [s \in Slots |->
                    IF s \in named /\ ~leader[s] /\ session[s] = session[current]
                    THEN IF g = 0 THEN who ELSE g ELSE pgrp[s]]
      /\ UNCHANGED <<priority, sig_fn, pid, father, session, leader, uid, euid, warg, last_pid>>

Setsid ==
  /\ Caller /\ SysDone
  /\ (uid[current] = 0 \/ euid[current] = 0) /\ ~leader[current]
  /\ leader' = [leader EXCEPT ![current] = TRUE]
  /\ session' = [session EXCEPT ![current] = pid[current]]
  /\ pgrp' = [pgrp EXCEPT ![current] = pid[current]]
  /\ UNCHANGED <<priority, sig_fn, pid, father, uid, euid, warg, last_pid>>

\* sys_setuid; suid is always equal to 0, so a task that has neither id 0 may
\* only go back to its real id.
Setuid(u) ==
  /\ Caller /\ SysDone
  /\ \/ /\ uid[current] # 0 /\ euid[current] # 0 /\ u = uid[current]
        /\ euid' = [euid EXCEPT ![current] = u] /\ UNCHANGED uid
     \/ /\ uid[current] = 0 \/ euid[current] = 0
        /\ uid' = [uid EXCEPT ![current] = u] /\ euid' = [euid EXCEPT ![current] = u]
  /\ UNCHANGED <<priority, sig_fn, pid, father, pgrp, session, leader, warg, last_pid>>

-----------------------------------------------------------------------------
TInit ==
  /\ state = [s \in Slots |-> IF s = FIRST_TASK THEN "running" ELSE "none"]
  /\ counter = [s \in Slots |-> Priority] /\ priority = counter
  /\ signal = [s \in Slots |-> {}] /\ alarm = [s \in Slots |-> NoAlarm]
  /\ sig_fn = [s \in Slots |-> [g \in Signals |-> "dfl"]]
  /\ pid = [s \in Slots |-> 0] /\ pgrp = pid /\ session = pid /\ warg = pid
  /\ father = [s \in Slots |-> -1] /\ leader = [s \in Slots |-> FALSE]
  /\ uid = [s \in Slots |-> 0] /\ euid = uid
  /\ pc = [s \in Slots |-> "user"]
  /\ current = FIRST_TASK /\ last_pid = 0

Pids == {pid[s] : s \in Others}

\* The system calls of a task other than the idle one, by what they are about.
LifeCalls ==
  \/ current # FIRST_TASK /\ Pause
  \/ \E b \in BOOLEAN : Fork(b)
  \/ Exit
  \/ \E p \in Pids : Kill(p, SIGKILL)
  \/ \E p \in {-1, 0} \cup Pids, nohang \in BOOLEAN : Waitpid(p, nohang)

SignalCalls ==
  \/ \E n \in {0, 1} : Alarm(n)
  \/ \E n \in {-1, 1} : Nice(n)
  \/ \E g \in Signals, fn \in {"dfl", "ign", "fn"} : SysSignal(g, fn)
  \/ \E p \in {-1, 0} \cup Pids, g \in Signals : Kill(p, g)

GroupCalls ==
  \/ Setsid
  \/ \E p, g \in {0} \cup Pids : Setpgid(p, g)
  \/ \E u \in Uids : Setuid(u)
  \/ \E p \in Pids, g \in Signals : Kill(-p, g)

SystemCall == LifeCalls \/ SignalCalls \/ GroupCalls

IdleTask == current = FIRST_TASK /\ Pause

\* What the processor does by itself in kernel mode.
Kernel == SysRet \/ RetFromSysCall \/ ExitBegin \/ ExitEnd \/ WaitResumes

TNext == TimerInterrupt \/ Kernel \/ IdleTask \/ SystemCall \/ \E s \in Slots : DiskWakes(s)

TSpec == TInit /\ [][TNext]_tvars

(***************************************************************************)
(* The processor executes, the clock ticks and the disk answers.  Nothing  *)
(* makes a task in user mode call the kernel.                              *)
(***************************************************************************)
TFairness ==
  /\ WF_tvars(TimerInterrupt) /\ WF_tvars(Kernel) /\ WF_tvars(IdleTask)
  /\ \A s \in Slots : WF_tvars(DiskWakes(s))

-----------------------------------------------------------------------------
\* Every field of the task table has a value of its type.
TTypeOK ==
  /\ state \in [Slots -> {"none", "running", "interruptible", "uninterruptible", "zombie"}]
  /\ counter \in [Slots -> Nat] /\ priority \in [Slots -> Nat]
  /\ signal \in [Slots -> SUBSET Signals]
  /\ sig_fn \in [Slots -> [Signals -> {"dfl", "ign", "fn"}]]
  /\ alarm \in [Slots -> -2 .. HZ]
  /\ pid \in [Slots -> 0 .. MaxPid] /\ father \in [Slots -> -1 .. MaxPid]
  /\ pgrp \in [Slots -> 0 .. MaxPid] /\ session \in [Slots -> 0 .. MaxPid]
  /\ leader \in [Slots -> BOOLEAN] /\ uid \in [Slots -> Uids] /\ euid \in [Slots -> Uids]
  /\ pc \in [Slots -> {"user", "sysret", "ret", "wait", "exit", "closing"}]
  /\ warg \in [Slots -> Int] /\ current \in Slots /\ last_pid \in 0 .. MaxPid

\* find_empty_process: no two tasks, zombies included, have the same pid, also
\* after last_pid has started again from 1.
PidsUnique == \A s, t \in Slots : Used(s) /\ Used(t) /\ pid[s] = pid[t] => s = t

\* do_exit and waitpid: the father a task names can still wait for it.  A number
\* left behind would make the child that of whoever gets the pid next.
FatherAlive ==
  \A s \in Others : father[s] # 0 =>
    \E t \in Slots : Used(t) /\ pid[t] = father[s] /\ state[t] # "zombie" /\ pc[t] # "closing"

\* schedule, do_exit, release: the processor never runs on the stack of a task
\* that sleeps, is dead, or whose page has been freed.
CurrentMayRun == current # FIRST_TASK => state[current] = "running"

\* waitpid against do_exit: a task asleep in waitpid for a child that is already
\* a zombie has SIGCHLD pending, which will end the sleep.
WaiterIsTold ==
  \A s \in Others : pc[s] = "wait" /\ state[s] = "interruptible" =>
    \A z \in Others : state[z] = "zombie" /\ father[z] = pid[s] /\ pid[z] = warg[s]
                       => SIGCHLD \in signal[s]

\* sys_nice and schedule: the loop that hands out new time ends, because every
\* task gets some of it.
TimeForAll == \A s \in Slots : priority[s] > 0

\* schedule: a task that can run gets the processor.
RunnableRuns ==
  \A s \in Slots \ {FIRST_TASK} : state[s] = "running" ~> current = s \/ state[s] # "running"


\* fork, exit, wait, kill and nice in any order: families have living fathers, a
\* father that waits is told of the death, and the scheduler has time to give.
FamilySound == TTypeOK /\ FatherAlive /\ WaiterIsTold /\ TimeForAll

=============================================================================
