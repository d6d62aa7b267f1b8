----------------------------- MODULE TasksProofs -----------------------------
(***************************************************************************)
(* Proofs about Tasks, for a task table of any size: the processor is with *)
(* a task that may run, and no two tasks bear the same pid.  The second    *)
(* needs the first: a state is only ever written over that of the current  *)
(* task, so a slot comes into use in fork alone if the current one is used.*)
(* Then the fields of the table keep their types (FieldsStep), which the   *)
(* proofs about families in FamilyProofs need.                             *)
(***************************************************************************)
EXTENDS Tasks, WellFoundedInduction, TLAPS

\* The states and labels of TTypeOK.
States == {"none", "running", "interruptible", "uninterruptible", "zombie"}
Places == {"user", "sysret", "ret", "wait", "exit", "closing"}

TableInv ==
  /\ state \in [Slots -> States] /\ pid \in [Slots -> Nat]
  /\ counter \in [Slots -> Nat] /\ priority \in [Slots -> Nat]
  /\ pc \in [Slots -> Places]
  /\ current \in Slots

\* The idle task stays: it does not exit.
IdleInv == Used(FIRST_TASK) /\ pc[FIRST_TASK] \notin {"exit", "closing"}

TasksInv == TableInv /\ IdleInv /\ CurrentMayRun /\ PidsUnique

-----------------------------------------------------------------------------
\* Any nonempty set of naturals has a least element.
LEMMA LeastNatural ==
  ASSUME NEW S, S \subseteq Nat, S # {}
  PROVE  \E n \in S : \A m \in S : n <= m
<1>1. PICK n \in S : \A m \in S : <<m, n>> \notin OpToRel(<, Nat)
  BY NatLessThanWellFounded, WFMin, Zenon
<1>2. OpToRel(<, Nat) = {ss \in Nat \X Nat : ss[1] < ss[2]}
  BY DEF OpToRel
<1>3. \A m \in S : ~(m < n)
  BY <1>1, <1>2, Zenon
<1>4. QED
  BY <1>3

\* The values of a function on task slots have an upper bound.  The least slot
\* below which they had none would have one before it.
LEMMA ValuesBounded ==
  ASSUME NEW f \in [Slots -> Nat]
  PROVE  \E b \in Nat : \A s \in Slots : f[s] <= b
<1> DEFINE Bound(k, b) == \A s \in Slots : s < k => f[s] <= b
           Bad == {k \in 0 .. NR_TASKS : ~\E b \in Nat : Bound(k, b)}
<1>1. NR_TASKS \in Nat
  BY TasksAssumption
<1>2. Bad = {}
  <2>1. SUFFICES ASSUME Bad # {} PROVE FALSE
    OBVIOUS
  <2>2. Bad \subseteq Nat
    BY <1>1
  <2>3. PICK k \in Bad : \A m \in Bad : k <= m
    BY <2>1, <2>2, LeastNatural, Zenon
  <2>4. k \in 0 .. NR_TASKS /\ k \in Nat /\ ~\E b \in Nat : Bound(k, b)
    BY <1>1
  <2>5. Bound(0, 0)
    BY <1>1 DEF Slots
  <2>6. k # 0
    BY <2>4, <2>5
  <2>7. k - 1 \in 0 .. NR_TASKS /\ ~(k <= k - 1)
    BY <1>1, <2>4, <2>6
  <2>8. k - 1 \notin Bad
    BY <2>3, <2>7
  <2>9. PICK b \in Nat : Bound(k - 1, b)
    BY <2>7, <2>8
  <2>10. k - 1 \in Slots
    BY <1>1, <2>4, <2>6 DEF Slots
  <2>11. f[k - 1] \in Nat
    BY <2>10
  <2>12. b + f[k - 1] \in Nat
    BY <2>11
  <2>13. Bound(k, b + f[k - 1])
    <3>1. SUFFICES ASSUME NEW s \in Slots, s < k PROVE f[s] <= b + f[k - 1]
      OBVIOUS
    <3>2. s \in Nat /\ f[s] \in Nat
      <4>1. s \in Nat
        BY <1>1 DEF Slots
      <4>2. QED
        BY <4>1
    <3>3. CASE s = k - 1
      BY <2>11, <3>2, <3>3
    <3>4. CASE s < k - 1
      <4>1. f[s] <= b
        BY <2>9, <3>4
      <4>2. QED
        BY <2>11, <3>2, <4>1
    <3>5. QED
      BY <2>4, <3>1, <3>2, <3>3, <3>4
  <2>14. QED
    BY <2>4, <2>12, <2>13
<1>3. PICK b \in Nat : Bound(NR_TASKS, b)
  <2>1. NR_TASKS \in 0 .. NR_TASKS
    BY <1>1
  <2>2. NR_TASKS \notin Bad
    <3> HIDE DEF Bad
    <3> QED BY <1>2
  <2>3. QED
    BY <2>1, <2>2
<1>4. \A s \in Slots : s < NR_TASKS
  BY <1>1 DEF Slots
<1>5. QED
  BY <1>3, <1>4

\* Some slot of a nonempty set has the greatest value.
LEMMA GreatestValue ==
  ASSUME NEW f \in [Slots -> Nat], NEW S, S \subseteq Slots, S # {}
  PROVE  \E s \in S : \A r \in S : f[r] <= f[s]
<1> DEFINE Bounds == {b \in Nat : \A s \in S : f[s] <= b}
<1>1. PICK c \in Nat : \A s \in Slots : f[s] <= c
  BY ValuesBounded
<1>2. c \in Bounds
  BY <1>1
<1>3. PICK b \in Bounds : \A m \in Bounds : b <= m
  BY <1>2, LeastNatural, Zenon
<1>4. b \in Nat /\ \A s \in S : f[s] \in Nat /\ f[s] <= b
  OBVIOUS
<1>5. \E s \in S : f[s] = b
  <2>1. SUFFICES ASSUME \A s \in S : f[s] # b PROVE FALSE
    OBVIOUS
  <2>2. \A s \in S : f[s] <= b - 1
    BY <1>4, <2>1
  <2>3. PICK s \in S : f[s] \in Nat /\ f[s] <= b - 1
    BY <1>4, <2>2
  <2>4. b - 1 \in Nat
    BY <1>4, <2>3
  <2>5. b - 1 \in Bounds
    BY <2>2, <2>4
  <2>6. QED
    BY <1>3, <1>4, <2>5
<1>6. QED
  BY <1>4, <1>5

\* Max of a nonempty set of slots is one of them.
LEMMA MaxIsMember ==
  ASSUME NEW S, S \subseteq Slots, S # {}
  PROVE  Max(S) \in S
<1> DEFINE same == [s \in Slots |-> s]
<1>1. Slots \subseteq Nat
  BY TasksAssumption DEF Slots
<1>2. same \in [Slots -> Nat]
  BY <1>1
<1>3. PICK s \in S : \A r \in S : same[r] <= same[s]
  <2> HIDE DEF same
  <2> QED BY <1>2, GreatestValue
<1>4. \A r \in S : s >= r
  BY <1>1, <1>3, Zenon
<1>5. QED
  BY <1>4 DEF Max

\* Min of a nonempty set of slots is one of them.
LEMMA MinIsMember ==
  ASSUME NEW S, S \subseteq Slots, S # {}
  PROVE  Min(S) \in S
<1>1. S \subseteq Nat
  BY TasksAssumption DEF Slots
<1>2. PICK s \in S : \A r \in S : s <= r
  BY <1>1, LeastNatural, Zenon
<1>3. QED
  BY <1>2 DEF Min

\* The scheduler picks one of the tasks it chooses from, or the idle task.
LEMMA PickedIsReady ==
  ASSUME NEW ct \in [Slots -> Nat], NEW ready, ready \subseteq Slots
  PROVE  Picked(ready, ct) \in ready \cup {FIRST_TASK}
<1>1. CASE ready = {}
  BY <1>1 DEF Picked
<1>2. CASE ready # {}
  <2> DEFINE most == {s \in ready : \A r \in ready : ct[r] <= ct[s]}
  <2>1. most # {}
    BY <1>2, GreatestValue
  <2>2. most \subseteq Slots
    OBVIOUS
  <2>3. Max(most) \in most
    <3> HIDE DEF most
    <3> QED BY <2>1, <2>2, MaxIsMember
  <2>4. QED
    BY <1>2, <2>3 DEF Picked
<1>3. QED
  BY <1>1, <1>2

\* schedule() frees no slot and puts none to use, and the task it switches to
\* may run.
LEMMA ScheduleSound ==
  ASSUME NEW st \in [Slots -> States], NEW ct \in [Slots -> Nat], NEW sg, NEW al,
         priority \in [Slots -> Nat], Schedule(st, sg, al, ct)
  PROVE  /\ state' \in [Slots -> States] /\ counter' \in [Slots -> Nat]
         /\ \A s \in Slots : state'[s] = "none" <=> st[s] = "none"
         /\ current' \in Slots /\ CurrentMayRun'
<1> DEFINE live == {s \in Slots \ {FIRST_TASK} : st[s] # "none"}
           due == {s \in live : al[s] = -1}
           sg1 == [s \in Slots |-> IF s \in due THEN sg[s] \cup {SIGALRM} ELSE sg[s]]
           woken == {s \in live : Wakes(st[s], sg1[s])}
           ready == Ready(st, live) \cup woken
           spent == ready # {} /\ \A s \in ready : ct[s] = 0
           ct1 == [s \in Slots |-> IF spent /\ s \in live
                                   THEN ct[s] \div 2 + priority[s] ELSE ct[s]]
<1>1. /\ state' = [s \in Slots |-> IF s \in woken THEN "running" ELSE st[s]]
      /\ counter' = ct1 /\ current' = Picked(ready, ct1)
  BY DEF Schedule
<1>2. woken \subseteq live /\ live \subseteq Slots
  OBVIOUS
<1>3. \A s \in Ready(st, live) : s \in Slots /\ st[s] = "running"
  BY DEF Ready
<1>4. ready \subseteq Slots
  BY <1>2, <1>3
<1>5. ct1 \in [Slots -> Nat]
  <2>1. \A s \in Slots : ct[s] \in Nat /\ priority[s] \in Nat
    OBVIOUS
  <2>2. \A s \in Slots : ct[s] \div 2 + priority[s] \in Nat
    BY <2>1
  <2> HIDE DEF spent, live
  <2>3. QED
    BY <2>1, <2>2
<1>6. \A s \in live : st[s] # "none"
  OBVIOUS
<1>7. \A s \in ready : s \in woken \/ st[s] = "running"
  BY <1>3
<1> HIDE DEF ct1, ready, woken, live
<1>8. current' \in ready \cup {FIRST_TASK}
  BY <1>1, <1>4, <1>5, PickedIsReady
<1>9. FIRST_TASK \in Slots
  BY TasksAssumption DEF FIRST_TASK, Slots
<1>10. current' \in Slots
  BY <1>4, <1>8, <1>9
<1>11. CurrentMayRun'
  BY <1>1, <1>7, <1>8, <1>10 DEF CurrentMayRun
<1>12. state' \in [Slots -> States]
  BY <1>1 DEF States
<1>13. \A s \in Slots : state'[s] = "none" <=> st[s] = "none"
  BY <1>1, <1>2, <1>6
<1>14. QED
  BY <1>1, <1>5, <1>10, <1>11, <1>12, <1>13, Zenon

\* While pids stay and no slot comes into use, they stay apart.
LEMMA PidsStayApart ==
  ASSUME PidsUnique, pid' = pid, \A s \in Slots : state[s] = "none" => state'[s] = "none"
  PROVE  PidsUnique'
BY DEF PidsUnique, Used

\* A call of schedule() by a current task that is used, with st differing from
\* state in one used slot, keeps the table.
LEMMA SwitchKeepsInv ==
  ASSUME TasksInv, NEW t \in Slots, NEW v \in States, NEW sg, NEW al,
         NEW ct \in [Slots -> Nat], NEW l \in Places,
         Used(t), t = FIRST_TASK => v # "none",
         current = FIRST_TASK => l \notin {"exit", "closing"},
         Schedule([state EXCEPT ![t] = v], sg, al, ct), GoesTo(l),
         UNCHANGED <<pid, priority>>
  PROVE  TasksInv'
<1> DEFINE st == [state EXCEPT ![t] = v]
<1>1. st \in [Slots -> States]
  BY DEF TasksInv, TableInv
<1>2. \A s \in Slots : state[s] = "none" => st[s] = "none"
  BY DEF TasksInv, TableInv, Used
<1>3. FIRST_TASK \in Slots
  BY TasksAssumption DEF FIRST_TASK, Slots
<1>4. st[FIRST_TASK] # "none"
  BY <1>3 DEF TasksInv, TableInv, IdleInv, Used
<1>5. Schedule(st, sg, al, ct)
  OBVIOUS
<1> HIDE DEF st
<1>6. /\ state' \in [Slots -> States] /\ counter' \in [Slots -> Nat]
      /\ \A s \in Slots : state'[s] = "none" <=> st[s] = "none"
      /\ current' \in Slots /\ CurrentMayRun'
  <2>1. priority \in [Slots -> Nat]
    BY DEF TasksInv, TableInv
  <2>2. QED
    BY <1>1, <1>5, <2>1, ScheduleSound
<1>7. pc' \in [Slots -> Places] /\ pc'[FIRST_TASK] \notin {"exit", "closing"}
  BY <1>3 DEF TasksInv, TableInv, IdleInv, GoesTo
<1>8. PidsUnique'
  BY <1>2, <1>6, PidsStayApart DEF TasksInv
<1>9. TableInv'
  BY <1>6, <1>7 DEF TasksInv, TableInv
<1>10. IdleInv'
  BY <1>3, <1>4, <1>6, <1>7 DEF IdleInv, Used
<1>11. QED
  BY <1>6, <1>8, <1>9, <1>10 DEF TasksInv

\* So does a step that leaves states and pids alone.
LEMMA StayKeepsInv ==
  ASSUME TasksInv, NEW l \in Places,
         current = FIRST_TASK => l \notin {"exit", "closing"}, GoesTo(l),
         counter' \in [Slots -> Nat], priority' \in [Slots -> Nat],
         UNCHANGED <<state, pid, current>>
  PROVE  TasksInv'
<1>1. FIRST_TASK \in Slots
  BY TasksAssumption DEF FIRST_TASK, Slots
<1>2. pc' \in [Slots -> Places] /\ pc'[FIRST_TASK] \notin {"exit", "closing"}
  BY <1>1 DEF TasksInv, TableInv, IdleInv, GoesTo
<1>3. PidsUnique' /\ CurrentMayRun'
  BY DEF TasksInv, PidsUnique, CurrentMayRun, Used
<1>4. QED
  BY <1>2, <1>3 DEF TasksInv, TableInv, IdleInv, Used

\* The slot of the current task is in use.
LEMMA CurrentUsed ==
  ASSUME TasksInv
  PROVE  Used(current) /\ state[current] \in States /\ state = [state EXCEPT ![current] = state[current]]
BY DEF TasksInv, TableInv, IdleInv, CurrentMayRun, Used

\* The timer, whether it reschedules or not.
LEMMA TimerKeepsInv ==
  ASSUME TasksInv, TimerInterrupt
  PROVE  TasksInv'
<1> DEFINE al == [s \in Slots |-> IF alarm[s] >= 0 THEN alarm[s] - 1 ELSE alarm[s]]
           ct == [counter EXCEPT ![current] = Ticked(@)]
<1>1. ct \in [Slots -> Nat]
  <2>1. current \in Slots /\ counter \in [Slots -> Nat]
    BY DEF TasksInv, TableInv
  <2>2. counter[current] \in Nat
    BY <2>1
  <2>3. Ticked(counter[current]) \in Nat
    BY <2>2 DEF Ticked
  <2>4. QED
    BY <2>1, <2>3
<1>2. UNCHANGED <<pid, priority>>
  BY DEF TimerInterrupt, ids
<1>3. current \in Slots /\ priority \in [Slots -> Nat]
  BY DEF TasksInv, TableInv
<1>4. "ret" \in Places
  BY DEF Places
<1>5. \/ GoesTo("ret") /\ Schedule(state, signal, al, ct)
      \/ GoesTo("ret") /\ counter' = ct /\ UNCHANGED <<state, current>>
      \/ UNCHANGED pc /\ counter' = ct /\ UNCHANGED <<state, current>>
  BY DEF TimerInterrupt
<1> HIDE DEF al, ct
<1>6. CASE GoesTo("ret") /\ Schedule(state, signal, al, ct)
  <2>1. Schedule([state EXCEPT ![current] = state[current]], signal, al, ct)
    BY <1>6, CurrentUsed
  <2>2. QED
    BY <1>1, <1>2, <1>3, <1>4, <1>6, <2>1, CurrentUsed, SwitchKeepsInv DEF Used
<1>7. CASE GoesTo("ret") /\ counter' = ct /\ UNCHANGED <<state, current>>
  BY <1>1, <1>2, <1>3, <1>4, <1>7, StayKeepsInv
<1>8. CASE UNCHANGED pc /\ counter' = ct /\ UNCHANGED <<state, current>>
  BY <1>1, <1>2, <1>8
  DEF TasksInv, TableInv, IdleInv, CurrentMayRun, PidsUnique, Used
<1>9. QED
  BY <1>5, <1>6, <1>7, <1>8

\* What follows a system call, up to the return to user mode.
LEMMA ReturnKeepsInv ==
  ASSUME TasksInv, SysRet \/ RetFromSysCall
  PROVE  TasksInv'
<1>1. counter \in [Slots -> Nat] /\ priority \in [Slots -> Nat] /\ current \in Slots
  BY DEF TasksInv, TableInv
<1>2. {"ret", "user", "exit"} \subseteq Places
  BY DEF Places
<1>3. CASE SysRet
  <2>1. GoesTo("ret") /\ UNCHANGED <<pid, priority>>
    BY <1>3 DEF SysRet, ids
  <2>2. CASE Reschedule
    <3>1. Schedule([state EXCEPT ![current] = state[current]], signal, alarm, counter)
      BY <2>2, CurrentUsed DEF Reschedule
    <3>2. QED
      BY <1>1, <1>2, <2>1, <3>1, CurrentUsed, SwitchKeepsInv DEF Used
  <2>3. CASE UNCHANGED run
    BY <1>1, <1>2, <2>1, <2>3, StayKeepsInv DEF run
  <2>4. QED
    BY <1>3, <2>2, <2>3 DEF SysRet
<1>4. CASE RetFromSysCall
  <2>1. /\ GoesTo("user") \/ (current # FIRST_TASK /\ GoesTo("exit"))
        /\ UNCHANGED <<state, counter, current, priority, pid>>
    BY <1>4 DEF RetFromSysCall, ids
  <2>2. QED
    BY <1>1, <1>2, <2>1, StayKeepsInv
<1>5. QED
  BY <1>3, <1>4

\* The calls that leave the processor with the caller.
LEMMA QuietCallKeepsInv ==
  ASSUME TasksInv,
         \/ \E n \in {0, 1} : Alarm(n)
         \/ \E n \in {-1, 1} : Nice(n)
         \/ \E g \in Signals, fn \in {"dfl", "ign", "fn"} : SysSignal(g, fn)
         \/ \E p \in Int, g \in Signals : Kill(p, g)
         \/ Setsid
         \/ \E p, g \in Nat : Setpgid(p, g)
         \/ \E u \in Uids : Setuid(u)
         \/ Exit
  PROVE  TasksInv'
<1>1. counter \in [Slots -> Nat] /\ priority \in [Slots -> Nat] /\ current \in Slots
  BY DEF TasksInv, TableInv
<1>2. {"sysret", "exit"} \subseteq Places
  BY DEF Places
<1>3. /\ current # FIRST_TASK
      /\ GoesTo("sysret") \/ GoesTo("exit")
      /\ UNCHANGED <<state, counter, current, pid>>
  BY DEF Alarm, Nice, SysSignal, Kill, Setsid, Setpgid, Setuid, Exit, Caller, SysDone, run, ids
<1>4. priority' \in [Slots -> Nat]
  <2>1. CASE \E n \in {-1, 1} : Nice(n)
    <3>1. PICK n \in {-1, 1} :
            priority' = [priority EXCEPT ![current] =
                           IF Lowers(@, n) THEN @ - n ELSE @]
      BY <2>1, Zenon DEF Nice
    <3>2. priority[current] \in Nat
      BY <1>1
    <3>3. (IF Lowers(priority[current], n) THEN priority[current] - n
           ELSE priority[current]) \in Nat
      BY <3>2 DEF Lowers
    <3>4. QED
      BY <1>1, <3>1, <3>3
  <2>2. CASE priority' = priority
    BY <1>1, <2>2
  <2>3. QED
    BY <2>1, <2>2 DEF Alarm, SysSignal, Kill, Setsid, Setpgid, Setuid, Exit
<1>5. counter' \in [Slots -> Nat]
  BY <1>1, <1>3
<1>6. QED
  BY <1>2, <1>3, <1>4, <1>5, StayKeepsInv

\* The idle task's and anyone's pause.
LEMMA PauseKeepsInv ==
  ASSUME TasksInv, Pause
  PROVE  TasksInv'
<1>1. counter \in [Slots -> Nat] /\ current \in Slots
  BY DEF TasksInv, TableInv
<1>2. "sysret" \in Places /\ "interruptible" \in States
  BY DEF Places, States
<1>3. /\ Schedule([state EXCEPT ![current] = "interruptible"], signal, alarm, counter)
      /\ GoesTo("sysret") /\ UNCHANGED <<pid, priority>>
  BY DEF Pause, ids
<1>4. QED
  BY <1>1, <1>2, <1>3, CurrentUsed, SwitchKeepsInv

\* fork: the child's pid is one that no used slot has.
LEMMA ForkKeepsInv ==
  ASSUME TasksInv, NEW memory \in BOOLEAN, Fork(memory)
  PROVE  TasksInv'
<1>1. TableInv /\ IdleInv /\ CurrentMayRun /\ PidsUnique
  BY DEF TasksInv
<1>2. GoesTo("sysret") /\ current' = current /\ "sysret" \in Places
  BY DEF Fork, Places
<1>3. CASE UNCHANGED <<state, counter, priority, ids>>
  <2>1. counter' \in [Slots -> Nat] /\ priority' \in [Slots -> Nat]
    BY <1>1, <1>3 DEF TableInv
  <2>2. UNCHANGED <<state, pid, current>>
    BY <1>2, <1>3 DEF ids
  <2>3. QED
    BY <1>2, <2>1, <2>2, StayKeepsInv
<1>4. CASE FreeSlots # {} /\ state' = [state EXCEPT ![Min(FreeSlots)] = "running"]
  <2> DEFINE n == Min(FreeSlots)
  <2>1. n \in FreeSlots
    <3>1. FreeSlots \subseteq Slots
      BY DEF FreeSlots
    <3>2. QED
      BY <1>4, <3>1, MinIsMember
  <2>2. n \in Slots /\ n # FIRST_TASK /\ ~Used(n)
    BY <2>1 DEF FreeSlots
  <2>3. PICK q \in 1 .. MaxPid : IsNextPid(q) /\ last_pid' = q
    BY DEF Fork
  <2>4. q \in Nat /\ \A s \in Slots : Used(s) => pid[s] # q
    BY <2>3, TasksAssumption DEF IsNextPid, HasPid
  <2>5. n # current
    BY <1>1, <2>2, CurrentUsed
  <2>6. /\ pid' = [pid EXCEPT ![n] = q]
        /\ counter' = [counter EXCEPT ![n] = priority[current]]
        /\ priority' = [priority EXCEPT ![n] = priority[current]]
    <3>1. state' # state
      BY <1>1, <1>4, <2>2 DEF TableInv, Used
    <3>2. QED
      BY <2>3, <3>1 DEF Fork, Inherit
  <2>7. state' = [state EXCEPT ![n] = "running"]
    BY <1>4
  <2> HIDE DEF n
  <2>8. TableInv'
    <3>1. priority[current] \in Nat
      BY <1>1 DEF TableInv
    <3>2. pc' \in [Slots -> Places]
      BY <1>1, <1>2 DEF TableInv, GoesTo
    <3>3. pid' \in [Slots -> Nat] /\ counter' \in [Slots -> Nat] /\ priority' \in [Slots -> Nat]
      BY <1>1, <2>4, <2>6, <3>1, Zenon DEF TableInv
    <3>4. state' \in [Slots -> States]
      BY <1>1, <2>7, Zenon DEF TableInv, States
    <3>5. QED
      BY <1>1, <1>2, <3>2, <3>3, <3>4 DEF TableInv
  <2>9. IdleInv'
    <3>1. FIRST_TASK \in Slots
      BY TasksAssumption DEF FIRST_TASK, Slots
    <3>2. pc'[FIRST_TASK] \notin {"exit", "closing"}
      BY <1>1, <1>2, <3>1 DEF TableInv, IdleInv, GoesTo
    <3>3. QED
      BY <1>1, <2>2, <2>7, <3>1, <3>2 DEF TableInv, IdleInv, Used
  <2>10. CurrentMayRun'
    BY <1>1, <1>2, <2>5, <2>7 DEF TableInv, CurrentMayRun
  <2>11. PidsUnique'
    <3>1. SUFFICES ASSUME NEW s \in Slots, NEW u \in Slots, state'[s] # "none",
                          state'[u] # "none", pid'[s] = pid'[u]
                   PROVE  s = u
      BY DEF PidsUnique, Used
    <3>2. \A x \in Slots \ {n} : state'[x] = state[x] /\ pid'[x] = pid[x]
      BY <1>1, <2>6, <2>7 DEF TableInv
    <3>3. pid'[n] = q
      BY <1>1, <2>2, <2>6 DEF TableInv
    <3>4. CASE s # n /\ u # n
      BY <1>1, <3>1, <3>2, <3>4 DEF PidsUnique, Used
    <3>5. CASE s = n /\ u # n
      BY <2>4, <3>1, <3>2, <3>3, <3>5 DEF Used
    <3>6. CASE s # n /\ u = n
      BY <2>4, <3>1, <3>2, <3>3, <3>6 DEF Used
    <3>7. QED
      BY <3>4, <3>5, <3>6
  <2>12. QED
    BY <2>8, <2>9, <2>10, <2>11 DEF TasksInv
<1>5. QED
  BY <1>3, <1>4 DEF Fork

\* do_exit, both parts, and the interrupt in between.
LEMMA ExitKeepsInv ==
  ASSUME TasksInv, ExitBegin \/ ExitEnd \/ \E s \in Slots : DiskWakes(s)
  PROVE  TasksInv'
<1>1. counter \in [Slots -> Nat] /\ priority \in [Slots -> Nat] /\ current \in Slots
  BY DEF TasksInv, TableInv
<1>2. {"closing", "user"} \subseteq Places
  BY DEF Places
<1>3. {"uninterruptible", "zombie", "none"} \subseteq States
  BY DEF States
<1>4. pc[current] \in {"exit", "closing"} => current # FIRST_TASK
  BY DEF TasksInv, IdleInv
<1>5. CASE ExitBegin
  <2>1. GoesTo("closing") /\ UNCHANGED <<pid, priority>> /\ current # FIRST_TASK
    BY <1>4, <1>5 DEF ExitBegin
  <2>2. CASE UNCHANGED run
    BY <1>1, <1>2, <2>1, <2>2, StayKeepsInv DEF run
  <2>3. CASE Schedule([state EXCEPT ![current] = "uninterruptible"], signal, alarm, counter)
    BY <1>1, <1>2, <1>3, <2>1, <2>3, CurrentUsed, SwitchKeepsInv
  <2>4. QED
    BY <1>5, <2>2, <2>3 DEF ExitBegin
<1>6. CASE ExitEnd
  <2>1. GoesTo("user") /\ UNCHANGED <<pid, priority>> /\ current # FIRST_TASK
    BY <1>4, <1>6 DEF ExitEnd, ids
  <2>2. CASE Schedule([state EXCEPT ![current] = "zombie"], ToldFather, alarm, counter)
    BY <1>1, <1>2, <1>3, <2>1, <2>2, CurrentUsed, SwitchKeepsInv
  <2>3. CASE Schedule([state EXCEPT ![current] = "none"], signal, alarm, counter)
    BY <1>1, <1>2, <1>3, <2>1, <2>3, CurrentUsed, SwitchKeepsInv
  <2>4. QED
    BY <1>6, <2>2, <2>3 DEF ExitEnd, Released
<1>7. CASE \E s \in Slots : DiskWakes(s)
  <2>1. PICK s \in Slots : DiskWakes(s)
    BY <1>7
  <2>2. /\ state[s] = "uninterruptible" /\ state' = [state EXCEPT ![s] = "running"]
        /\ UNCHANGED <<counter, current, priority, pid, pc>>
    BY <2>1 DEF DiskWakes, ids
  <2>3. PidsUnique'
    <3>1. \A x \in Slots : state[x] = "none" => state'[x] = "none"
      BY <2>2 DEF TasksInv, TableInv
    <3>2. QED
      BY <2>2, <3>1, PidsStayApart DEF TasksInv
  <2>4. TableInv'
    BY <2>2 DEF TasksInv, TableInv, States
  <2>5. FIRST_TASK \in Slots
    BY TasksAssumption DEF FIRST_TASK, Slots
  <2>6. IdleInv' /\ CurrentMayRun'
    BY <2>2, <2>5 DEF TasksInv, TableInv, IdleInv, CurrentMayRun, Used
  <2>7. QED
    BY <2>3, <2>4, <2>6 DEF TasksInv
<1>8. QED
  BY <1>5, <1>6, <1>7

\* A round of waitpid: what it releases is a used slot other than the idle task.
LEMMA LookKeepsInv ==
  ASSUME TasksInv, NEW p, NEW flag, NEW nohang, NEW sg, Look(p, flag, nohang, sg),
         UNCHANGED <<priority, pid>>
  PROVE  TasksInv'
<1> DEFINE zombies == {s \in Children(p) : state[s] = "zombie"}
<1>1. counter \in [Slots -> Nat] /\ priority \in [Slots -> Nat] /\ current \in Slots
  BY DEF TasksInv, TableInv
<1>2. {"sysret", "wait"} \subseteq Places
  BY DEF Places
<1>3. {"interruptible", "none"} \subseteq States
  BY DEF States
<1>4. \A s \in zombies : s \in Slots /\ s # FIRST_TASK /\ Used(s)
  BY DEF Children, Others
<1>5. \/ /\ zombies # {} /\ GoesTo("sysret")
         /\ Schedule([state EXCEPT ![Max(zombies)] = "none"], sg, alarm, counter)
      \/ /\ GoesTo("wait")
         /\ Schedule([state EXCEPT ![current] = "interruptible"], sg, alarm, counter)
      \/ GoesTo("sysret") /\ UNCHANGED <<state, counter, current>>
  BY DEF Look, Released
<1> HIDE DEF zombies
<1>6. CASE /\ zombies # {} /\ GoesTo("sysret")
           /\ Schedule([state EXCEPT ![Max(zombies)] = "none"], sg, alarm, counter)
  <2>1. Max(zombies) \in zombies
    BY <1>4, <1>6, MaxIsMember
  <2>2. QED
    BY <1>1, <1>2, <1>3, <1>4, <1>6, <2>1, SwitchKeepsInv
<1>7. CASE /\ GoesTo("wait")
           /\ Schedule([state EXCEPT ![current] = "interruptible"], sg, alarm, counter)
  BY <1>1, <1>2, <1>3, <1>7, CurrentUsed, SwitchKeepsInv
<1>8. CASE GoesTo("sysret") /\ UNCHANGED <<state, counter, current>>
  BY <1>1, <1>2, <1>8, StayKeepsInv
<1>9. QED
  BY <1>5, <1>6, <1>7, <1>8

LEMMA WaitKeepsInv ==
  ASSUME TasksInv, (\E p \in Int, nohang \in BOOLEAN : Waitpid(p, nohang)) \/ WaitResumes
  PROVE  TasksInv'
<1>1. CASE \E p \in Int, nohang \in BOOLEAN : Waitpid(p, nohang)
  <2>1. PICK p \in Int, nohang \in BOOLEAN : Waitpid(p, nohang)
    BY <1>1
  <2>2. Look(p, FALSE, nohang, signal) /\ UNCHANGED <<priority, pid>>
    BY <2>1, Zenon DEF Waitpid, ids
  <2>3. QED
    BY <2>2, LookKeepsInv, Zenon
<1>2. CASE WaitResumes
  <2> DEFINE sg == [signal EXCEPT ![current] = signal[current] \ {SIGCHLD}]
  <2>1. UNCHANGED <<priority, pid>>
    BY <1>2 DEF WaitResumes, ids
  <2>2. \/ Look(warg[current], TRUE, FALSE, sg)
        \/ GoesTo("sysret") /\ UNCHANGED <<state, counter, current>>
    BY <1>2, Zenon DEF WaitResumes
  <2> HIDE DEF sg
  <2>3. CASE Look(warg[current], TRUE, FALSE, sg)
    BY <2>1, <2>3, LookKeepsInv, Zenon
  <2>4. CASE GoesTo("sysret") /\ UNCHANGED <<state, counter, current>>
    <3>1. counter' \in [Slots -> Nat] /\ priority' \in [Slots -> Nat]
      BY <2>1, <2>4 DEF TasksInv, TableInv
    <3>2. "sysret" \in Places
      BY DEF Places
    <3>3. QED
      BY <2>1, <2>4, <3>1, <3>2, StayKeepsInv
  <2>5. QED
    BY <2>2, <2>3, <2>4, Zenon
<1>3. QED
  BY <1>1, <1>2

LEMMA InitTasks == TInit => TasksInv
<1> SUFFICES ASSUME TInit PROVE TasksInv
  OBVIOUS
<1>1. FIRST_TASK \in Slots /\ Priority \in Nat
  BY TasksAssumption DEF FIRST_TASK, Slots
<1>2. TableInv
  BY <1>1 DEF TInit, TableInv, States, Places
<1>3. IdleInv /\ CurrentMayRun
  BY <1>1 DEF TInit, IdleInv, CurrentMayRun, Used
<1>4. PidsUnique
  BY DEF TInit, PidsUnique, Used
<1>5. QED
  BY <1>2, <1>3, <1>4 DEF TasksInv

LEMMA NextTasks == TasksInv /\ [TNext]_tvars => TasksInv'
<1> SUFFICES ASSUME TasksInv, [TNext]_tvars PROVE TasksInv'
  OBVIOUS
<1>1. \A s \in Slots : pid[s] \in Nat
  BY DEF TasksInv, TableInv
<1>2. Pids \subseteq Nat /\ {-1, 0} \cup Pids \subseteq Int /\ {0} \cup Pids \subseteq Nat
  BY <1>1 DEF Pids, Others
<1>3. \A p \in Pids : -p \in Int
  BY <1>2
<1>4. SIGKILL \in Signals
  BY TasksAssumption
<1>5. CASE UNCHANGED tvars
  BY <1>5
  DEF tvars, run, ids, TasksInv, TableInv, IdleInv, CurrentMayRun, PidsUnique, Used
<1>6. CASE TimerInterrupt
  BY <1>6, TimerKeepsInv
<1>7. CASE Kernel
  BY <1>7, ReturnKeepsInv, ExitKeepsInv, WaitKeepsInv DEF Kernel
<1>8. CASE IdleTask
  BY <1>8, PauseKeepsInv DEF IdleTask
<1>9. CASE LifeCalls
  <2>1. CASE Pause
    BY <2>1, PauseKeepsInv
  <2>2. CASE \E b \in BOOLEAN : Fork(b)
    BY <2>2, ForkKeepsInv
  <2>3. CASE Exit \/ \E p \in Int, g \in Signals : Kill(p, g)
    BY <2>3, QuietCallKeepsInv
  <2>4. CASE \E p \in Int, nohang \in BOOLEAN : Waitpid(p, nohang)
    BY <2>4, WaitKeepsInv
  <2>5. QED
    BY <1>2, <1>4, <1>9, <2>1, <2>2, <2>3, <2>4 DEF LifeCalls
<1>10. CASE SignalCalls
  BY <1>2, <1>10, QuietCallKeepsInv DEF SignalCalls
<1>11. CASE GroupCalls
  <2>1. CASE \E p \in Int, g \in Signals : Kill(p, g)
    BY <2>1, QuietCallKeepsInv
  <2>2. CASE \E p, g \in Nat : Setpgid(p, g)
    BY <2>2, QuietCallKeepsInv
  <2>3. CASE Setsid \/ \E u \in Uids : Setuid(u)
    BY <2>3, QuietCallKeepsInv
  <2>4. QED
    BY <1>2, <1>3, <1>11, <2>1, <2>2, <2>3 DEF GroupCalls
<1>12. CASE \E s \in Slots : DiskWakes(s)
  BY <1>12, ExitKeepsInv
<1>13. QED
  BY <1>5, <1>6, <1>7, <1>8, <1>9, <1>10, <1>11, <1>12 DEF TNext, SystemCall

\* schedule, do_exit and release: whatever the size of the task table, the
\* processor is with a task that may run, so never on a freed stack.
THEOREM ProcessorWithRunner == TSpec => []CurrentMayRun
<1>1. TasksInv => CurrentMayRun
  BY DEF TasksInv
<1>2. QED
  BY <1>1, InitTasks, NextTasks, PTL DEF TSpec

\* find_empty_process: whatever the size of the task table and the range of
\* pids, no two tasks have the same pid, zombies and wrap-around included.
THEOREM PidsStayUnique == TSpec => []PidsUnique
<1>1. TasksInv => PidsUnique
  BY DEF TasksInv
<1>2. QED
  BY <1>1, InitTasks, NextTasks, PTL DEF TSpec

-----------------------------------------------------------------------------
\* What TTypeOK says beyond TableInv.
FieldsInv ==
  /\ signal \in [Slots -> SUBSET Signals]
  /\ sig_fn \in [Slots -> [Signals -> {"dfl", "ign", "fn"}]]
  /\ alarm \in [Slots -> -2 .. HZ]
  /\ pid \in [Slots -> 0 .. MaxPid] /\ father \in [Slots -> -1 .. MaxPid]
  /\ pgrp \in [Slots -> 0 .. MaxPid] /\ session \in [Slots -> 0 .. MaxPid]
  /\ leader \in [Slots -> BOOLEAN] /\ uid \in [Slots -> Uids] /\ euid \in [Slots -> Uids]
  /\ warg \in [Slots -> Int] /\ last_pid \in 0 .. MaxPid

\* The signal and the value that schedule() gives a task whose alarm is due.
LEMMA AlarmIsKnown == SIGALRM \in Signals /\ NoAlarm \in -2 .. HZ
BY TasksAssumption DEF NoAlarm

\* schedule() wakes sleepers and adds signals; it changes nothing else that a
\* task is told by.
LEMMA ScheduleMoves ==
  ASSUME NEW st, NEW sg, NEW al, NEW ct, Schedule(st, sg, al, ct)
  PROVE  /\ \A s \in Slots : /\ \/ state'[s] = st[s]
                                \/ st[s] = "interruptible" /\ state'[s] = "running"
                             /\ sg[s] \subseteq signal'[s]
         /\ sg \in [Slots -> SUBSET Signals] => signal' \in [Slots -> SUBSET Signals]
         /\ al \in [Slots -> -2 .. HZ] => alarm' \in [Slots -> -2 .. HZ]
<1> DEFINE live == {s \in Slots \ {FIRST_TASK} : st[s] # "none"}
           due == {s \in live : al[s] = -1}
           sg1 == [s \in Slots |-> IF s \in due THEN sg[s] \cup {SIGALRM} ELSE sg[s]]
           woken == {s \in live : Wakes(st[s], sg1[s])}
<1>1. /\ state' = [s \in Slots |-> IF s \in woken THEN "running" ELSE st[s]]
      /\ alarm' = [s \in Slots |-> IF s \in due THEN NoAlarm ELSE al[s]]
      /\ signal' = sg1
  BY Zenon DEF Schedule
<1>2. \A s \in woken : st[s] = "interruptible"
  BY DEF Wakes
<1>3. SIGALRM \in Signals /\ NoAlarm \in -2 .. HZ
  BY AlarmIsKnown, Zenon
<1>4. sg \in [Slots -> SUBSET Signals] => signal' \in [Slots -> SUBSET Signals]
  <2> HIDE DEF due
  <2> QED BY <1>1, <1>3
<1>5. al \in [Slots -> -2 .. HZ] => alarm' \in [Slots -> -2 .. HZ]
  <2> HIDE DEF due
  <2> QED BY <1>1, <1>3
<1>6. \A s \in Slots : sg[s] \subseteq signal'[s]
  <2> HIDE DEF due
  <2> QED BY <1>1
<1> HIDE DEF live, due, sg1, woken
<1>7. \A s \in Slots : \/ state'[s] = st[s]
                       \/ st[s] = "interruptible" /\ state'[s] = "running"
  <2>1. state' = [s \in Slots |-> IF s \in woken THEN "running" ELSE st[s]]
    BY <1>1, Zenon
  <2>2. QED
    BY <1>2, <2>1, Zenon
<1>8. QED
  BY <1>4, <1>5, <1>6, <1>7, Zenon

\* Where the signals and alarms of a step come from.
LEMMA SignalsTyped ==
  ASSUME NEW sg \in [Slots -> SUBSET Signals], NEW al \in [Slots -> -2 .. HZ], NEW st, NEW ct,
         (signal' = sg /\ alarm' = al) \/ Schedule(st, sg, al, ct)
  PROVE  signal' \in [Slots -> SUBSET Signals] /\ alarm' \in [Slots -> -2 .. HZ]
BY ScheduleMoves

\* Whoever is sent a signal has it added to what is pending.
LEMMA SignalledTyped ==
  ASSUME NEW sg \in [Slots -> SUBSET Signals], NEW p, NEW g \in Signals, NEW priv
  PROVE  /\ Signalled(sg, p, g, priv) \in [Slots -> SUBSET Signals]
         /\ \A s \in Slots : sg[s] \subseteq Signalled(sg, p, g, priv)[s]
<1>1. \A s \in Slots : sg[s] \subseteq Signals /\ sg[s] \cup {g} \subseteq Signals
  OBVIOUS
<1>2. QED
  BY <1>1 DEF Signalled

\* Signals and alarms stay in range where the caller keeps the rest.
LEMMA ProcessorKeepsSignals ==
  ASSUME TasksInv, FieldsInv,
         TimerInterrupt \/ SysRet \/ RetFromSysCall \/ Pause \/ ExitBegin \/ ExitEnd
  PROVE  signal' \in [Slots -> SUBSET Signals] /\ alarm' \in [Slots -> -2 .. HZ]
<1>1. signal \in [Slots -> SUBSET Signals] /\ alarm \in [Slots -> -2 .. HZ] /\ HZ \in Nat
  BY TasksAssumption DEF FieldsInv
<1>2. CASE TimerInterrupt
  <2> DEFINE al == [s \in Slots |-> IF alarm[s] >= 0 THEN alarm[s] - 1 ELSE alarm[s]]
             ct == [counter EXCEPT ![current] = Ticked(@)]
  <2>1. \A s \in Slots : alarm[s] \in -2 .. HZ
    BY <1>1
  <2>2. \A s \in Slots : (IF alarm[s] >= 0 THEN alarm[s] - 1 ELSE alarm[s]) \in -2 .. HZ
    BY <1>1, <2>1
  <2>3. al \in [Slots -> -2 .. HZ]
    BY <2>2
  <2>4. (signal' = signal /\ alarm' = al) \/ Schedule(state, signal, al, ct)
    BY <1>2 DEF TimerInterrupt
  <2> HIDE DEF al, ct
  <2>5. QED
    BY <1>1, <2>3, <2>4, SignalsTyped
<1>3. CASE SysRet
  <2>1. (signal' = signal /\ alarm' = alarm) \/ Schedule(state, signal, alarm, counter)
    BY <1>3 DEF SysRet, Reschedule, run
  <2>2. QED
    BY <1>1, <2>1, SignalsTyped
<1>4. CASE RetFromSysCall
  <2>1. alarm' = alarm
    BY <1>4 DEF RetFromSysCall
  <2>2. signal[current] \in SUBSET Signals
    BY <1>1 DEF TasksInv, TableInv
  <2>3. \A g : StillPending(signal[current], g) \in SUBSET Signals
    BY <2>2, Zenon DEF StillPending
  <2>4. \/ signal' = signal
        \/ signal' = [signal EXCEPT ![current] = {}]
        \/ \E g : signal' = [signal EXCEPT ![current] = StillPending(signal[current], g)]
    BY <1>4 DEF RetFromSysCall
  <2>5. QED
    BY <1>1, <2>1, <2>3, <2>4
<1>5. CASE Pause
  <2>1. Schedule([state EXCEPT ![current] = "interruptible"], signal, alarm, counter)
    BY <1>5 DEF Pause
  <2>2. QED
    BY <1>1, <2>1, SignalsTyped
<1>6. CASE ExitBegin
  <2>1. \/ signal' = signal /\ alarm' = alarm
        \/ Schedule([state EXCEPT ![current] = "uninterruptible"], signal, alarm, counter)
    BY <1>6 DEF ExitBegin, run
  <2>2. QED
    BY <1>1, <2>1, SignalsTyped
<1>7. CASE ExitEnd
  <2>1. \/ Schedule([state EXCEPT ![current] = "zombie"], ToldFather, alarm, counter)
        \/ Schedule(Released(state, current), signal, alarm, counter)
    BY <1>7 DEF ExitEnd
  <2>2. ToldFather \in [Slots -> SUBSET Signals]
    <3>1. SIGCHLD \in Signals
      BY TasksAssumption
    <3>2. QED
      BY <1>1, <3>1, SignalledTyped, Zenon DEF ToldFather
  <2>3. QED
    BY <1>1, <2>1, <2>2, SignalsTyped
<1>8. QED
  BY <1>2, <1>3, <1>4, <1>5, <1>6, <1>7

LEMMA CallsKeepSignals ==
  ASSUME TasksInv, FieldsInv,
         \/ \E n \in {0, 1} : Alarm(n)
         \/ \E p \in Int, g \in Signals : Kill(p, g)
         \/ \E b \in BOOLEAN : Fork(b)
         \/ \E p \in Int, nohang \in BOOLEAN : Waitpid(p, nohang)
         \/ WaitResumes
         \/ UNCHANGED <<signal, alarm>>
  PROVE  signal' \in [Slots -> SUBSET Signals] /\ alarm' \in [Slots -> -2 .. HZ]
<1>1. signal \in [Slots -> SUBSET Signals] /\ alarm \in [Slots -> -2 .. HZ] /\ HZ \in Nat
  BY TasksAssumption DEF FieldsInv
<1>2. CASE \E n \in {0, 1} : Alarm(n)
  <2>1. PICK n \in {0, 1} : Alarm(n)
    BY <1>2
  <2>2. (IF n > 0 THEN HZ * n ELSE NoAlarm) \in -2 .. HZ
    BY <1>1 DEF NoAlarm
  <2>3. QED
    BY <1>1, <2>1, <2>2, ZenonT(30) DEF Alarm
<1>3. CASE \E p \in Int, g \in Signals : Kill(p, g)
  <2>1. PICK p \in Int, g \in Signals : Kill(p, g)
    BY <1>3, Zenon
  <2>2. PICK priv : signal' = Signalled(signal, p, g, priv)
    BY <2>1, Zenon DEF Kill
  <2>3. signal' \in [Slots -> SUBSET Signals]
    BY <1>1, <2>1, <2>2, SignalledTyped
  <2>4. alarm' = alarm
    BY <2>1, Zenon DEF Kill
  <2>5. QED
    BY <1>1, <2>3, <2>4, Zenon
<1>4. CASE \E b \in BOOLEAN : Fork(b)
  <2>1. \/ UNCHANGED <<signal, alarm>>
        \/ \E n : signal' = [signal EXCEPT ![n] = {}] /\ alarm' = [alarm EXCEPT ![n] = NoAlarm]
    BY <1>4 DEF Fork
  <2>2. NoAlarm \in -2 .. HZ
    BY <1>1 DEF NoAlarm
  <2>3. QED
    BY <1>1, <2>1, <2>2, ZenonT(30)
<1>5. ASSUME NEW p, NEW flag, NEW nohang, NEW sg \in [Slots -> SUBSET Signals],
             Look(p, flag, nohang, sg)
      PROVE  signal' \in [Slots -> SUBSET Signals] /\ alarm' \in [Slots -> -2 .. HZ]
  <2>1. \E st : (signal' = sg /\ alarm' = alarm) \/ Schedule(st, sg, alarm, counter)
    BY <1>5 DEF Look
  <2>2. QED
    BY <1>1, <2>1, SignalsTyped
<1>6. CASE \E p \in Int, nohang \in BOOLEAN : Waitpid(p, nohang)
  <2>1. \E p, nohang : Look(p, FALSE, nohang, signal)
    BY <1>6, Zenon DEF Waitpid
  <2>2. QED
    BY <1>1, <1>5, <2>1, Zenon
<1>7. CASE WaitResumes
  <2> DEFINE sg == [signal EXCEPT ![current] = signal[current] \ {SIGCHLD}]
  <2>1. sg \in [Slots -> SUBSET Signals]
    BY <1>1 DEF TasksInv, TableInv
  <2>2. \/ Look(warg[current], TRUE, FALSE, sg)
        \/ signal' = sg /\ UNCHANGED alarm
    BY <1>7, Zenon DEF WaitResumes
  <2> HIDE DEF sg
  <2>3. QED
    BY <1>1, <1>5, <2>1, <2>2, Zenon
<1>8. QED
  BY <1>1, <1>2, <1>3, <1>4, <1>6, <1>7

\* The steps that leave the fields set by fork and by the calls on ids alone.
LEMMA RestStays ==
  ASSUME FieldsInv, signal' \in [Slots -> SUBSET Signals], alarm' \in [Slots -> -2 .. HZ],
         sig_fn' \in [Slots -> [Signals -> {"dfl", "ign", "fn"}]],
         father' \in [Slots -> -1 .. MaxPid], warg' \in [Slots -> Int],
         UNCHANGED <<pid, pgrp, session, leader, uid, euid, last_pid>>
  PROVE  FieldsInv'
BY DEF FieldsInv

\* fork copies fields that are in range and takes a pid that is.
LEMMA ForkKeepsFields ==
  ASSUME TasksInv, FieldsInv, NEW b \in BOOLEAN, Fork(b)
  PROVE  FieldsInv'
<1>1. signal' \in [Slots -> SUBSET Signals] /\ alarm' \in [Slots -> -2 .. HZ]
  BY CallsKeepSignals, Zenon
<1>2. PICK p \in 1 .. MaxPid : last_pid' = p
  BY Zenon DEF Fork
<1>3. current \in Slots /\ warg' = warg /\ MaxPid \in Nat
  BY TasksAssumption DEF Fork, TasksInv, TableInv
<1>4. last_pid' \in 0 .. MaxPid /\ p \in 0 .. MaxPid
  BY <1>2, <1>3
<1>5. CASE UNCHANGED <<sig_fn, ids>>
  BY <1>1, <1>3, <1>4, <1>5 DEF FieldsInv, ids
<1>6. ASSUME NEW n,
             /\ pid' = [pid EXCEPT ![n] = last_pid']
             /\ father' = [father EXCEPT ![n] = pid[current]]
             /\ leader' = [leader EXCEPT ![n] = FALSE]
             /\ sig_fn' = Inherit(sig_fn, n)
             /\ pgrp' = Inherit(pgrp, n) /\ session' = Inherit(session, n)
             /\ uid' = Inherit(uid, n) /\ euid' = Inherit(euid, n)
      PROVE  FieldsInv'
  <2>1. pid' \in [Slots -> 0 .. MaxPid] /\ leader' \in [Slots -> BOOLEAN]
    BY <1>4, <1>6, Zenon DEF FieldsInv
  <2>2. pid[current] \in -1 .. MaxPid
    BY <1>3 DEF FieldsInv
  <2>3. father' \in [Slots -> -1 .. MaxPid]
    BY <1>6, <2>2, Zenon DEF FieldsInv
  <2>4. ASSUME NEW S, NEW f \in [Slots -> S] PROVE Inherit(f, n) \in [Slots -> S]
    BY <1>3, Zenon DEF Inherit
  <2>5. sig_fn' \in [Slots -> [Signals -> {"dfl", "ign", "fn"}]]
    BY <1>6, <2>4, Zenon DEF FieldsInv
  <2>6. pgrp' \in [Slots -> 0 .. MaxPid] /\ session' \in [Slots -> 0 .. MaxPid]
    BY <1>6, <2>4, Zenon DEF FieldsInv
  <2>7. uid' \in [Slots -> Uids] /\ euid' \in [Slots -> Uids]
    BY <1>6, <2>4, Zenon DEF FieldsInv
  <2>8. QED
    BY <1>1, <1>3, <1>4, <2>1, <2>3, <2>5, <2>6, <2>7, SMTT(30) DEF FieldsInv
<1>7. \/ UNCHANGED <<sig_fn, ids>>
      \/ \E n : /\ pid' = [pid EXCEPT ![n] = last_pid']
                /\ father' = [father EXCEPT ![n] = pid[current]]
                /\ leader' = [leader EXCEPT ![n] = FALSE]
                /\ sig_fn' = Inherit(sig_fn, n)
                /\ pgrp' = Inherit(pgrp, n) /\ session' = Inherit(session, n)
                /\ uid' = Inherit(uid, n) /\ euid' = Inherit(euid, n)
  BY Zenon DEF Fork
<1>8. QED
  BY <1>5, <1>6, <1>7

\* The calls on process groups, sessions and user ids.
LEMMA GroupsKeepFields ==
  ASSUME TasksInv, FieldsInv,
         \/ Setsid
         \/ \E p, g \in {0} \cup Pids : Setpgid(p, g)
         \/ \E u \in Uids : Setuid(u)
  PROVE  FieldsInv'
<1>1. current \in Slots /\ MaxPid \in Nat /\ pid[current] \in 0 .. MaxPid
  BY TasksAssumption DEF TasksInv, TableInv, FieldsInv
<1>2. UNCHANGED <<signal, alarm, sig_fn, pid, father, warg, last_pid>>
  BY Zenon DEF Setsid, Setpgid, Setuid, SysDone, run
<1>3. CASE Setsid
  <2>1. UNCHANGED <<uid, euid>>
    BY <1>3 DEF Setsid
  <2>2. leader' \in [Slots -> BOOLEAN]
    BY <1>3, Zenon DEF Setsid, FieldsInv
  <2>3. session' \in [Slots -> 0 .. MaxPid] /\ pgrp' \in [Slots -> 0 .. MaxPid]
    BY <1>1, <1>3 DEF Setsid, FieldsInv
  <2>4. QED
    BY <1>2, <2>1, <2>2, <2>3, Zenon DEF FieldsInv
<1>4. CASE \E p, g \in {0} \cup Pids : Setpgid(p, g)
  <2>1. PICK p \in {0} \cup Pids, g \in {0} \cup Pids : Setpgid(p, g)
    BY <1>4, Zenon
  <2>2. Pids \subseteq 0 .. MaxPid
    BY DEF Pids, Others, FieldsInv
  <2>3. p \in 0 .. MaxPid /\ g \in 0 .. MaxPid
    BY <1>1, <2>2
  <2> DEFINE who == IF p = 0 THEN pid[current] ELSE p
             named == {s \in Slots : Used(s) /\ pid[s] = who}
             new == IF g = 0 THEN who ELSE g
  <2>4. new \in 0 .. MaxPid
    BY <1>1, <2>3, Zenon
  <2>5. pgrp' = [s \in Slots |->
                   IF s \in named /\ ~leader[s] /\ session[s] = session[current]
                   THEN new ELSE pgrp[s]]
    BY <2>1 DEF Setpgid
  <2> HIDE DEF new, named
  <2>6. pgrp' \in [Slots -> 0 .. MaxPid]
    BY <2>4, <2>5, SMTT(30) DEF FieldsInv
  <2>7. UNCHANGED <<session, leader, uid, euid>>
    BY <2>1, Zenon DEF Setpgid
  <2>8. QED
    BY <1>2, <2>6, <2>7 DEF FieldsInv
<1>5. CASE \E u \in Uids : Setuid(u)
  <2>1. PICK u \in Uids : Setuid(u)
    BY <1>5
  <2>2. UNCHANGED <<pgrp, session, leader>>
    BY <2>1 DEF Setuid
  <2>3. /\ uid' = uid \/ uid' = [uid EXCEPT ![current] = u]
        /\ euid' = [euid EXCEPT ![current] = u]
    BY <2>1 DEF Setuid
  <2>4. uid' \in [Slots -> Uids] /\ euid' \in [Slots -> Uids]
    BY <2>3, ZenonT(30) DEF FieldsInv
  <2>5. QED
    BY <1>2, <2>2, <2>4 DEF FieldsInv
<1>6. QED
  BY <1>3, <1>4, <1>5

LEMMA FieldsStep ==
  ASSUME TasksInv, FieldsInv, [TNext]_tvars
  PROVE  FieldsInv'
<1>1. Pids \subseteq 0 .. MaxPid
  BY DEF Pids, Others, FieldsInv
<1>2. 0 .. MaxPid \subseteq Int /\ MaxPid \in Nat /\ SIGKILL \in Signals
  BY TasksAssumption
<1>3. {-1, 0} \cup Pids \subseteq Int /\ \A p \in Pids : p \in Int /\ -p \in Int
  BY <1>1, <1>2
<1>4. current \in Slots /\ sig_fn \in [Slots -> [Signals -> {"dfl", "ign", "fn"}]]
  BY DEF TasksInv, TableInv, FieldsInv
<1>5. father \in [Slots -> -1 .. MaxPid] /\ warg \in [Slots -> Int]
  BY DEF FieldsInv
<1>6. CASE UNCHANGED tvars
  BY <1>6 DEF tvars, run, ids, FieldsInv
<1>7. CASE TimerInterrupt \/ SysRet \/ Pause \/ ExitEnd
  <2>1. UNCHANGED <<sig_fn, ids, warg, last_pid>>
    BY <1>7, Zenon DEF TimerInterrupt, SysRet, Pause, ExitEnd
  <2>2. QED
    BY <1>4, <1>5, <1>7, <2>1, ProcessorKeepsSignals, RestStays, SMTT(30) DEF ids
<1>8. CASE RetFromSysCall
  <2>1. UNCHANGED <<ids, warg, last_pid>>
    BY <1>8 DEF RetFromSysCall
  <2>2. sig_fn' = sig_fn \/ \E g : sig_fn' = [sig_fn EXCEPT ![current][g] = "dfl"]
    BY <1>8 DEF RetFromSysCall
  <2>3. sig_fn' \in [Slots -> [Signals -> {"dfl", "ign", "fn"}]]
    BY <1>4, <2>2
  <2>4. QED
    BY <1>5, <1>8, <2>1, <2>3, ProcessorKeepsSignals, RestStays DEF ids
<1>9. CASE ExitBegin
  <2>1. father' = [s \in Slots |-> IF Orphaned(s) THEN 0 ELSE father[s]]
    BY <1>9 DEF ExitBegin
  <2>2. father' \in [Slots -> -1 .. MaxPid]
    BY <1>2, <1>5, <2>1
  <2>3. UNCHANGED <<sig_fn, pid, pgrp, session, leader, uid, euid, warg, last_pid>>
    BY <1>9 DEF ExitBegin
  <2>4. QED
    BY <1>4, <1>5, <1>9, <2>2, <2>3, ProcessorKeepsSignals, RestStays
<1>10. CASE WaitResumes \/ \E p \in Int, nohang \in BOOLEAN : Waitpid(p, nohang)
  <2>1. UNCHANGED <<sig_fn, ids, last_pid>>
    BY <1>10, Zenon DEF WaitResumes, Waitpid
  <2>2. warg' = warg \/ \E p \in Int : warg' = [warg EXCEPT ![current] = p]
    BY <1>10, Zenon DEF WaitResumes, Waitpid
  <2>3. warg' \in [Slots -> Int]
    BY <1>5, <2>2
  <2>4. signal' \in [Slots -> SUBSET Signals] /\ alarm' \in [Slots -> -2 .. HZ]
    BY <1>10, CallsKeepSignals
  <2>5. QED
    BY <1>4, <1>5, <2>1, <2>3, <2>4, RestStays DEF ids
<1>11. CASE \/ \E n \in {0, 1} : Alarm(n)
            \/ \E n \in {-1, 1} : Nice(n)
            \/ \E p \in Int, g \in Signals : Kill(p, g)
            \/ Exit
            \/ \E s \in Slots : DiskWakes(s)
  <2>1. UNCHANGED <<sig_fn, ids, warg, last_pid>>
    BY <1>11 DEF Alarm, Nice, Kill, Exit, DiskWakes
  <2>2. \/ \E n \in {0, 1} : Alarm(n)
        \/ \E p \in Int, g \in Signals : Kill(p, g)
        \/ UNCHANGED <<signal, alarm>>
    BY <1>11 DEF Nice, Exit, DiskWakes, SysDone, run
  <2>3. signal' \in [Slots -> SUBSET Signals] /\ alarm' \in [Slots -> -2 .. HZ]
    BY <2>2, CallsKeepSignals
  <2>4. QED
    BY <1>4, <1>5, <2>1, <2>3, RestStays, ZenonT(30) DEF ids
<1>12. CASE \E g \in Signals, fn \in {"dfl", "ign", "fn"} : SysSignal(g, fn)
  <2>1. PICK g \in Signals, fn \in {"dfl", "ign", "fn"} : SysSignal(g, fn)
    BY <1>12
  <2>2. sig_fn' = [sig_fn EXCEPT ![current][g] = fn]
    BY <2>1 DEF SysSignal
  <2>3. sig_fn' \in [Slots -> [Signals -> {"dfl", "ign", "fn"}]]
    BY <1>4, <2>2
  <2>4. UNCHANGED <<signal, alarm, ids, warg, last_pid>>
    BY <2>1 DEF SysSignal, SysDone, run
  <2>5. QED
    BY <2>3, <2>4 DEF FieldsInv, ids
<1>13. CASE LifeCalls
  <2>1. \/ Pause \/ Exit
        \/ \E b \in BOOLEAN : Fork(b)
        \/ \E p \in Int, g \in Signals : Kill(p, g)
        \/ \E p \in Int, nohang \in BOOLEAN : Waitpid(p, nohang)
    BY <1>2, <1>3, <1>13 DEF LifeCalls
  <2>2. QED
    BY <1>7, <1>10, <1>11, <2>1, ForkKeepsFields
<1>14. CASE SignalCalls
  <2>1. \/ \E n \in {0, 1} : Alarm(n)
        \/ \E n \in {-1, 1} : Nice(n)
        \/ \E g \in Signals, fn \in {"dfl", "ign", "fn"} : SysSignal(g, fn)
        \/ \E p \in Int, g \in Signals : Kill(p, g)
    BY <1>3, <1>14 DEF SignalCalls
  <2>2. QED
    BY <1>11, <1>12, <2>1
<1>15. CASE GroupCalls
  <2>1. \/ Setsid
        \/ \E p, g \in {0} \cup Pids : Setpgid(p, g)
        \/ \E u \in Uids : Setuid(u)
        \/ \E p \in Int, g \in Signals : Kill(p, g)
    BY <1>3, <1>15 DEF GroupCalls
  <2>2. QED
    BY <1>11, <2>1, GroupsKeepFields
<1>16. QED
  BY <1>6, <1>7, <1>8, <1>9, <1>10, <1>11, <1>13, <1>14, <1>15
  DEF TNext, SystemCall, Kernel, IdleTask

=============================================================================
