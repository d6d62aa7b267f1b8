---------------------------- MODULE FamilyProofs -----------------------------
(***************************************************************************)
(* Proofs about the families of Tasks: fathers, children and waitpid.      *)
(* What a task is told and whom it may wait for are facts about pids, so   *)
(* they rest on TasksInv and on the pids themselves: the idle task has pid *)
(* 0, which stands for no father, and no other task has it.                *)
(***************************************************************************)
EXTENDS TasksProofs

PidsOfTasks == pid[FIRST_TASK] = 0 /\ \A s \in Others : pid[s] > 0

Kin == PidsOfTasks /\ FatherAlive /\ WaiterIsTold

FamilyInv == TasksInv /\ FieldsInv /\ TimeForAll /\ Kin

\* A task that its children can name as their father.
Alive(t) == Used(t) /\ state[t] # "zombie" /\ pc[t] # "closing"

\* In a step, a task is at most woken.
Calm(s) == state'[s] = state[s] \/ (state[s] = "interruptible" /\ state'[s] = "running")

\* No slot comes into use, so the tasks in use keep pids above 0.
LEMMA PidsStayOfTasks ==
  ASSUME PidsOfTasks, pid' = pid, \A s \in Slots : state[s] = "none" => state'[s] = "none"
  PROVE  PidsOfTasks'
BY DEF PidsOfTasks, Others, Used

\* Fathers stay alive as long as those that cease to be so have no children.
LEMMA FathersStay ==
  ASSUME FatherAlive, pid' = pid,
         \A s \in Slots : state[s] = "none" => state'[s] = "none",
         \A s \in Slots : father'[s] \in {father[s], 0},
         \A t \in Slots : Alive(t) =>
           Alive(t)' \/ \A s \in Others : father'[s] = pid[t] => father'[s] = 0
  PROVE  FatherAlive'
<1>1. SUFFICES ASSUME NEW s \in Slots \ {FIRST_TASK}, state'[s] # "none", father'[s] # 0
               PROVE  \E t \in Slots : Alive(t)' /\ pid'[t] = father'[s]
  BY SMTT(30) DEF FatherAlive, Others, Used, Alive
<1>2. s \in Others /\ father'[s] = father[s]
  BY <1>1, SMTT(30) DEF Others, Used
<1>3. PICK t \in Slots : Alive(t) /\ pid[t] = father[s]
  BY <1>1, <1>2, SMTT(30) DEF FatherAlive, Alive
<1>4. Alive(t)'
  BY <1>1, <1>2, <1>3
<1>5. QED
  BY <1>2, <1>3, <1>4

\* Those who wait stay told as long as nobody begins to wait, nobody dies and no
\* signal of a task that waits is taken away.
LEMMA WaitersStay ==
  ASSUME WaiterIsTold, PidsOfTasks, pid' = pid,
         \A s \in Slots : state[s] = "none" => state'[s] = "none",
         \A s \in Slots : pc'[s] = "wait" /\ state'[s] = "interruptible" =>
           /\ pc[s] = "wait" /\ state[s] = "interruptible"
           /\ warg'[s] = warg[s] /\ signal[s] \subseteq signal'[s],
         \A z \in Slots : state'[z] = "zombie" =>
           state[z] = "zombie" /\ father'[z] \in {father[z], 0}
  PROVE  WaiterIsTold'
<1>1. SUFFICES ASSUME NEW s \in Slots \ {FIRST_TASK}, NEW z \in Slots \ {FIRST_TASK},
                      state'[s] # "none", pc'[s] = "wait", state'[s] = "interruptible",
                      state'[z] = "zombie", father'[z] = pid'[s], pid'[z] = warg'[s]
               PROVE  SIGCHLD \in signal'[s]
  BY SMTT(30) DEF WaiterIsTold, Others, Used
<1>2. /\ pc[s] = "wait" /\ state[s] = "interruptible"
      /\ warg'[s] = warg[s] /\ signal[s] \subseteq signal'[s]
      /\ state[z] = "zombie" /\ father'[z] \in {father[z], 0}
  BY <1>1
<1>3. s \in Others /\ z \in Others
  BY <1>2 DEF Others, Used
<1>4. pid[s] # 0
  <2>1. pid[s] > 0
    BY <1>3 DEF PidsOfTasks
  <2>2. QED
    BY <2>1
<1>5. father[z] = pid[s] /\ pid[z] = warg[s]
  BY <1>1, <1>2, <1>4, SMTT(30)
<1>6. SIGCHLD \in signal[s]
  BY <1>2, <1>3, <1>5 DEF WaiterIsTold
<1>7. QED
  BY <1>2, <1>6

\* A step of a task t that neither begins to wait nor dies.
LEMMA QuietKeepsFamily ==
  ASSUME FamilyInv, UNCHANGED <<pid, father>>, NEW t \in Slots, Used(t),
         pc'[t] \notin {"wait", "closing"},
         state'[t] = state[t] \/ state'[t] \in {"running", "interruptible"},
         \A s \in Slots \ {t} : /\ Calm(s) /\ signal[s] \subseteq signal'[s]
                                /\ pc'[s] = pc[s] /\ warg'[s] = warg[s]
  PROVE  Kin'
<1>1. FatherAlive /\ WaiterIsTold /\ PidsOfTasks
  BY SMTT(30) DEF FamilyInv, Kin
<1>2. \A s \in Slots : state[s] = "none" => state'[s] = "none"
  BY DEF Used, Calm
<1>3. \A s \in Slots : father'[s] \in {father[s], 0}
  OBVIOUS
<1>4. \A s \in Slots : Alive(s) => Alive(s)'
  BY DEF Alive, Used, Calm
<1>5. \A s \in Slots : pc'[s] = "wait" /\ state'[s] = "interruptible" =>
        /\ pc[s] = "wait" /\ state[s] = "interruptible"
        /\ warg'[s] = warg[s] /\ signal[s] \subseteq signal'[s]
  BY DEF Calm
<1>6. \A z \in Slots : state'[z] = "zombie" =>
        state[z] = "zombie" /\ father'[z] \in {father[z], 0}
  BY DEF Calm
<1>7. FatherAlive'
  BY <1>1, <1>2, <1>3, <1>4, FathersStay, SMTT(30)
<1>8. WaiterIsTold'
  BY <1>1, <1>2, <1>5, <1>6, WaitersStay, SMTT(30)
<1>9. PidsOfTasks'
  BY <1>1, <1>2, PidsStayOfTasks, SMTT(30)
<1>10. QED
  BY <1>7, <1>8, <1>9 DEF Kin

\* What schedule() makes of a table in which the caller has changed one slot.
LEMMA SwitchMoves ==
  ASSUME TasksInv, NEW t \in Slots, NEW v, NEW sg, NEW al, NEW ct,
         Schedule([state EXCEPT ![t] = v], sg, al, ct)
  PROVE  /\ \A s \in Slots \ {t} : Calm(s)
         /\ state'[t] = v \/ (v = "interruptible" /\ state'[t] = "running")
         /\ \A s \in Slots : sg[s] \subseteq signal'[s]
<1> DEFINE st == [state EXCEPT ![t] = v]
<1>1. state \in [Slots -> States]
  BY DEF TasksInv, TableInv
<1>2. st[t] = v /\ \A s \in Slots \ {t} : st[s] = state[s]
  BY <1>1
<1>3. Schedule(st, sg, al, ct)
  OBVIOUS
<1> HIDE DEF st
<1>4. \A s \in Slots : /\ \/ state'[s] = st[s]
                          \/ st[s] = "interruptible" /\ state'[s] = "running"
                       /\ sg[s] \subseteq signal'[s]
  BY <1>3, ScheduleMoves
<1>5. QED
  BY <1>2, <1>4 DEF Calm

\* What a step that says where the current task goes on does to pc.
LEMMA GoesOn ==
  ASSUME TasksInv, NEW l, GoesTo(l)
  PROVE  current \in Slots /\ Used(current) /\ pc'[current] = l
         /\ \A s \in Slots \ {current} : pc'[s] = pc[s]
BY CurrentUsed DEF GoesTo, TasksInv, TableInv

\* The timer, the ways back to user mode and pause.
LEMMA ReturnKeepsKin ==
  ASSUME FamilyInv, TimerInterrupt \/ SysRet \/ RetFromSysCall \/ Pause
  PROVE  Kin'
<1>1. TasksInv /\ current \in Slots
  BY SMTT(30) DEF FamilyInv, TasksInv, TableInv
<1>2. UNCHANGED <<pid, father, warg>>
  BY SMTT(30) DEF TimerInterrupt, SysRet, RetFromSysCall, Pause, ids
<1>3. ASSUME NEW l, GoesTo(l), l \notin {"wait", "closing"},
             state'[current] = state[current] \/ state'[current] \in {"running", "interruptible"},
             \A s \in Slots \ {current} : Calm(s) /\ signal[s] \subseteq signal'[s]
      PROVE  Kin'
  BY <1>1, <1>2, <1>3, GoesOn, QuietKeepsFamily
<1>4. ASSUME NEW v \in {state[current], "interruptible"}, NEW al, NEW ct, NEW l, GoesTo(l),
             l \notin {"wait", "closing"},
             Schedule([state EXCEPT ![current] = v], signal, al, ct)
      PROVE  Kin'
  BY <1>1, <1>3, <1>4, SwitchMoves
<1>5. state = [state EXCEPT ![current] = state[current]]
  BY <1>1, CurrentUsed
<1>6. CASE TimerInterrupt
  <2> DEFINE al == [s \in Slots |-> IF alarm[s] >= 0 THEN alarm[s] - 1 ELSE alarm[s]]
             ct == [counter EXCEPT ![current] = Ticked(@)]
  <2>1. \/ GoesTo("ret") /\ Schedule(state, signal, al, ct)
        \/ GoesTo("ret") /\ UNCHANGED <<state, signal>>
        \/ UNCHANGED <<pc, state, signal>>
    BY <1>6 DEF TimerInterrupt
  <2> HIDE DEF al, ct
  <2>2. CASE GoesTo("ret") /\ Schedule(state, signal, al, ct)
    BY <1>4, <1>5, <2>2, Zenon
  <2>3. CASE GoesTo("ret") /\ UNCHANGED <<state, signal>>
    BY <1>3, <2>3 DEF Calm
  <2>4. CASE UNCHANGED <<pc, state, signal>>
    BY <1>2, <2>4 DEF FamilyInv, Kin, PidsOfTasks, FatherAlive, WaiterIsTold, Others, Used
  <2>5. QED
    BY <2>1, <2>2, <2>3, <2>4, SMTT(30)
<1>7. CASE SysRet
  <2>1. GoesTo("ret") /\ (Schedule(state, signal, alarm, counter) \/ UNCHANGED <<state, signal>>)
    BY <1>7 DEF SysRet, Reschedule, run
  <2>2. CASE UNCHANGED <<state, signal>>
    BY <1>3, <2>1, <2>2 DEF Calm
  <2>3. CASE Schedule(state, signal, alarm, counter)
    BY <1>4, <1>5, <2>1, <2>3, Zenon
  <2>4. QED
    BY <2>1, <2>2, <2>3
<1>8. CASE RetFromSysCall
  <2>1. state' = state /\ (GoesTo("user") \/ GoesTo("exit"))
    BY <1>8 DEF RetFromSysCall
  <2>2. signal' = signal \/ \E S : signal' = [signal EXCEPT ![current] = S]
    BY <1>8 DEF RetFromSysCall
  <2>3. \A s \in Slots \ {current} : signal[s] \subseteq signal'[s]
    BY <2>2 DEF FamilyInv, FieldsInv
  <2>4. QED
    BY <1>3, <2>1, <2>3 DEF Calm
<1>9. CASE Pause
  <2>1. /\ GoesTo("sysret")
        /\ Schedule([state EXCEPT ![current] = "interruptible"], signal, alarm, counter)
    BY <1>9, SMTT(30) DEF Pause
  <2>2. QED
    BY <1>4, <2>1
<1>10. QED
  BY <1>6, <1>7, <1>8, <1>9

\* The calls that leave the processor with the caller.
LEMMA CallKeepsKin ==
  ASSUME FamilyInv,
         \/ \E n \in {0, 1} : Alarm(n)
         \/ \E n \in {-1, 1} : Nice(n)
         \/ \E g \in Signals, fn \in {"dfl", "ign", "fn"} : SysSignal(g, fn)
         \/ \E p \in Int, g \in Signals : Kill(p, g)
         \/ Setsid
         \/ \E p, g \in {0} \cup Pids : Setpgid(p, g)
         \/ \E u \in Uids : Setuid(u)
         \/ Exit
  PROVE  Kin'
<1>1. /\ GoesTo("sysret") \/ GoesTo("exit")
      /\ UNCHANGED <<state, pid, father, warg>>
  BY DEF Alarm, Nice, SysSignal, Kill, Setsid, Setpgid, Setuid, Exit, SysDone, run, ids
<1>2. signal \in [Slots -> SUBSET Signals] /\ TasksInv
  BY SMTT(30) DEF FamilyInv, FieldsInv
<1>3. \A s \in Slots : signal[s] \subseteq signal'[s]
  <2>1. CASE \E p \in Int, g \in Signals : Kill(p, g)
    BY <1>2, <2>1, SignalledTyped DEF Kill
  <2>2. CASE UNCHANGED signal
    BY <2>2
  <2>3. QED
    BY <2>1, <2>2, SMTT(30) DEF Alarm, Nice, SysSignal, Setsid, Setpgid, Setuid, Exit, SysDone, run
<1>4. QED
  BY <1>1, <1>2, <1>3, GoesOn, QuietKeepsFamily, SMTT(30) DEF Calm

\* do_exit, first part: who closes its files is no longer a father, and the
\* children it had name nobody.
LEMMA ExitBeginKeepsKin ==
  ASSUME FamilyInv, ExitBegin
  PROVE  Kin'
<1>1. TasksInv /\ Kin /\ current \in Slots /\ Used(current)
  BY CurrentUsed DEF FamilyInv, TasksInv, TableInv
<1>2. PidsOfTasks /\ FatherAlive /\ WaiterIsTold
  BY <1>1 DEF Kin
<1>3. /\ GoesTo("closing") /\ UNCHANGED <<pid, warg>>
      /\ father' = [s \in Slots |-> IF Orphaned(s) THEN 0 ELSE father[s]]
  BY SMTT(30) DEF ExitBegin
<1>4. /\ pc'[current] = "closing"
      /\ \A s \in Slots \ {current} : pc'[s] = pc[s]
  BY <1>1, <1>3, GoesOn, SMTT(30)
<1>5. /\ \A s \in Slots \ {current} : Calm(s)
      /\ state'[current] = state[current] \/ state'[current] = "uninterruptible"
      /\ \A s \in Slots : signal[s] \subseteq signal'[s]
  <2>1. CASE UNCHANGED run
    BY <2>1, SMTT(30) DEF run, Calm
  <2>2. CASE Schedule([state EXCEPT ![current] = "uninterruptible"], signal, alarm, counter)
    BY <1>1, <2>2, SwitchMoves, Zenon
  <2>3. QED
    BY <2>1, <2>2 DEF ExitBegin
<1>6. \A s \in Slots : state[s] = "none" => state'[s] = "none"
  BY <1>1, <1>5 DEF Used, Calm
<1>7. \A s \in Slots : father'[s] \in {father[s], 0}
  BY <1>3
<1>8. \A s \in Others : father'[s] = pid[current] => father'[s] = 0
  BY <1>3 DEF Orphaned, Others
<1>9. \A t \in Slots : Alive(t) =>
        Alive(t)' \/ \A s \in Others : father'[s] = pid[t] => father'[s] = 0
  BY <1>4, <1>5, <1>8 DEF Alive, Used, Calm
<1>10. FatherAlive'
  BY <1>2, <1>3, <1>6, <1>7, <1>9, FathersStay
<1>11. \A s \in Slots : pc'[s] = "wait" /\ state'[s] = "interruptible" =>
         /\ pc[s] = "wait" /\ state[s] = "interruptible"
         /\ warg'[s] = warg[s] /\ signal[s] \subseteq signal'[s]
  BY <1>3, <1>4, <1>5 DEF Calm
<1>12. \A z \in Slots : state'[z] = "zombie" =>
         state[z] = "zombie" /\ father'[z] \in {father[z], 0}
  BY <1>5, <1>7 DEF Calm
<1>13. WaiterIsTold'
  BY <1>2, <1>3, <1>6, <1>11, <1>12, WaitersStay
<1>14. QED
  BY <1>2, <1>3, <1>6, <1>10, <1>13, PidsStayOfTasks DEF Kin

\* A father with a pid above 0 that is in use is sent the signal.
LEMMA FatherIsTold ==
  ASSUME FieldsInv, PidsOfTasks, NEW s \in Others, current \in Slots, pid[s] = father[current]
  PROVE  SIGCHLD \in ToldFather[s]
<1>1. s \in Slots /\ father[current] > 0
  BY DEF PidsOfTasks, Others
<1>2. s \in Addressed(father[current])
  BY <1>1 DEF Addressed
<1>3. MaySignal(s, TRUE)
  BY DEF MaySignal
<1>4. ToldFather[s] = signal[s] \cup {SIGCHLD}
  BY <1>1, <1>2, <1>3 DEF ToldFather, Signalled
<1>5. QED
  BY <1>4

\* do_exit, second part: the caller was no father any more, and if it stays as a
\* zombie its own father, waiting or not, is told.
LEMMA ExitEndKeepsKin ==
  ASSUME FamilyInv, ExitEnd
  PROVE  Kin'
<1>1. TasksInv /\ Kin /\ FieldsInv /\ current \in Slots /\ Used(current)
  BY CurrentUsed DEF FamilyInv, TasksInv, TableInv
<1>2. PidsOfTasks /\ FatherAlive /\ WaiterIsTold
  BY <1>1, SMTT(30) DEF Kin
<1>3. GoesTo("user") /\ UNCHANGED <<pid, father, warg>> /\ pc[current] = "closing"
  BY DEF ExitEnd, ids
<1>4. /\ pc'[current] = "user"
      /\ \A s \in Slots \ {current} : pc'[s] = pc[s]
  BY <1>1, <1>3, GoesOn
<1>5. signal \in [Slots -> SUBSET Signals] /\ SIGCHLD \in Signals
  BY <1>1, TasksAssumption, SMTT(30) DEF FieldsInv
<1>6. /\ \A s \in Slots \ {current} : Calm(s)
      /\ \A s \in Slots : signal[s] \subseteq signal'[s]
      /\ \/ state'[current] = "none"
         \/ state'[current] = "zombie" /\ \A s \in Slots : ToldFather[s] \subseteq signal'[s]
  <2>1. CASE Schedule([state EXCEPT ![current] = "zombie"], ToldFather, alarm, counter)
    <3>1. \A s \in Slots : signal[s] \subseteq ToldFather[s]
      BY <1>5, SignalledTyped, Zenon DEF ToldFather
    <3>2. /\ \A s \in Slots \ {current} : Calm(s)
          /\ state'[current] = "zombie"
          /\ \A s \in Slots : ToldFather[s] \subseteq signal'[s]
      <4>1. /\ \A s \in Slots \ {current} : Calm(s)
            /\ \/ state'[current] = "zombie"
               \/ "zombie" = "interruptible" /\ state'[current] = "running"
            /\ \A s \in Slots : ToldFather[s] \subseteq signal'[s]
        BY <1>1, <2>1, SwitchMoves, Zenon
      <4>2. "zombie" # "interruptible"
        OBVIOUS
      <4>3. QED
        BY <4>1, <4>2, Zenon
    <3>3. QED
      BY <3>1, <3>2
  <2>2. CASE Schedule([state EXCEPT ![current] = "none"], signal, alarm, counter)
    <3>1. /\ \A s \in Slots \ {current} : Calm(s)
          /\ \/ state'[current] = "none"
             \/ "none" = "interruptible" /\ state'[current] = "running"
          /\ \A s \in Slots : signal[s] \subseteq signal'[s]
      BY <1>1, <2>2, SwitchMoves, Zenon
    <3>2. QED
      BY <3>1
  <2>3. QED
    BY <2>1, <2>2 DEF ExitEnd, Released
<1>7. \A s \in Slots : state[s] = "none" => state'[s] = "none"
  BY <1>1, <1>6 DEF Used, Calm
<1>8. \A t \in Slots : Alive(t) => Alive(t)'
  BY <1>3, <1>4, <1>6 DEF Alive, Used, Calm
<1>9. FatherAlive'
  BY <1>2, <1>3, <1>7, <1>8, FathersStay
<1>10. WaiterIsTold'
  <2>1. SUFFICES ASSUME NEW s \in Slots \ {FIRST_TASK}, NEW z \in Slots \ {FIRST_TASK},
                        pc'[s] = "wait", state'[s] = "interruptible",
                        state'[z] = "zombie", father'[z] = pid'[s], pid'[z] = warg'[s]
                 PROVE  SIGCHLD \in signal'[s]
    BY DEF WaiterIsTold, Others, Used
  <2>2. s # current /\ pc[s] = "wait" /\ state[s] = "interruptible"
    BY <1>4, <1>6, <2>1 DEF Calm
  <2>3. s \in Others /\ father[z] = pid[s] /\ pid[z] = warg[s]
    BY <1>3, <2>1, <2>2 DEF Others, Used
  <2>4. CASE z = current
    BY <1>1, <1>2, <1>6, <2>1, <2>3, <2>4, FatherIsTold
  <2>5. CASE z # current
    <3>1. state[z] = "zombie"
      BY <1>6, <2>1, <2>5 DEF Calm
    <3>2. z \in Others
      BY <3>1 DEF Others, Used
    <3>3. SIGCHLD \in signal[s]
      BY <1>2, <2>2, <2>3, <3>1, <3>2 DEF WaiterIsTold
    <3>4. QED
      BY <1>6, <3>3, SMTT(30)
  <2>6. QED
    BY <2>4, <2>5
<1>11. QED
  BY <1>2, <1>3, <1>7, <1>9, <1>10, PidsStayOfTasks DEF Kin

\* The disk wakes a task that closes its files.
LEMMA DiskKeepsKin ==
  ASSUME FamilyInv, NEW s \in Slots, DiskWakes(s)
  PROVE  Kin'
<1>1. /\ state[s] = "uninterruptible" /\ state' = [state EXCEPT ![s] = "running"]
      /\ UNCHANGED <<signal, pid, father, warg, pc>>
  BY DEF DiskWakes, ids
<1>2. PidsOfTasks /\ FatherAlive /\ WaiterIsTold /\ state \in [Slots -> States]
  BY DEF FamilyInv, Kin, TasksInv, TableInv
<1>3. \A t \in Slots : state'[t] = IF t = s THEN "running" ELSE state[t]
  BY <1>1, <1>2
<1>4. \A t \in Slots : state[t] = "none" => state'[t] = "none"
  BY <1>1, <1>3
<1>5. \A t \in Slots : Alive(t) => Alive(t)'
  BY <1>1, <1>3, SMTT(30) DEF Alive, Used
<1>6. FatherAlive'
  BY <1>1, <1>2, <1>4, <1>5, FathersStay, SMTT(30)
<1>7. WaiterIsTold'
  BY <1>1, <1>2, <1>3, <1>4, WaitersStay, SMTT(30)
<1>8. QED
  BY <1>1, <1>2, <1>4, <1>6, <1>7, PidsStayOfTasks DEF Kin

\* One round of waitpid: whoever is released was dead, and a caller that goes to
\* sleep has just seen that no child it waits for is dead.
LEMMA LookKeepsKin ==
  ASSUME FamilyInv, NEW p \in Int, NEW flag, NEW nohang, NEW sg, Look(p, flag, nohang, sg),
         UNCHANGED <<pid, father>>, warg'[current] = p,
         \A s \in Slots \ {current} : warg'[s] = warg[s] /\ signal[s] \subseteq sg[s]
  PROVE  Kin'
<1> DEFINE zombies == {s \in Children(p) : state[s] = "zombie"}
<1>1. TasksInv /\ Kin /\ current \in Slots /\ Used(current)
  BY CurrentUsed DEF FamilyInv, TasksInv, TableInv
<1>2. PidsOfTasks /\ FatherAlive /\ WaiterIsTold
  BY <1>1, SMTT(30) DEF Kin
<1>3. \A s \in zombies : s \in Slots /\ s # current /\ state[s] = "zombie"
  BY ZenonT(30) DEF Children, Others
<1>4. \/ /\ zombies # {} /\ GoesTo("sysret")
         /\ Schedule([state EXCEPT ![Max(zombies)] = "none"], sg, alarm, counter)
      \/ /\ zombies = {} /\ GoesTo("wait")
         /\ Schedule([state EXCEPT ![current] = "interruptible"], sg, alarm, counter)
      \/ GoesTo("sysret") /\ signal' = sg /\ UNCHANGED <<state, counter, current>>
  BY SMTT(30) DEF Look, Released
<1>5. zombies = {} => \A z \in Others : father[z] = pid[current] /\ pid[z] = p /\ z # current
                                          => state[z] # "zombie"
  BY DEF Children
<1> HIDE DEF zombies
<1>6. CASE /\ zombies # {} /\ GoesTo("sysret")
           /\ Schedule([state EXCEPT ![Max(zombies)] = "none"], sg, alarm, counter)
  <2>1. PICK z \in zombies : z = Max(zombies)
    BY <1>3, <1>6, MaxIsMember
  <2>2. z \in Slots /\ z # current /\ state[z] = "zombie"
    BY <1>3, SMTT(30)
  <2>3. /\ \A s \in Slots \ {z} : Calm(s)
        /\ state'[z] = "none"
        /\ \A s \in Slots : sg[s] \subseteq signal'[s]
    BY <1>1, <1>6, <2>1, <2>2, SwitchMoves, Zenon
  <2>4. /\ pc'[current] = "sysret"
        /\ \A s \in Slots \ {current} : pc'[s] = pc[s]
    BY <1>1, <1>6, GoesOn, Zenon
  <2>5. \A s \in Slots : state[s] = "none" => state'[s] = "none"
    BY <2>3 DEF Calm
  <2>6. \A t \in Slots : Alive(t) => Alive(t)'
    BY <2>2, <2>3, <2>4, SMTT(30) DEF Alive, Used, Calm
  <2>7. FatherAlive'
    BY <1>2, <2>5, <2>6, FathersStay
  <2>8. \A s \in Slots : pc'[s] = "wait" /\ state'[s] = "interruptible" =>
          /\ pc[s] = "wait" /\ state[s] = "interruptible"
          /\ warg'[s] = warg[s] /\ signal[s] \subseteq signal'[s]
    BY <2>3, <2>4 DEF Calm
  <2>9. \A x \in Slots : state'[x] = "zombie" =>
          state[x] = "zombie" /\ father'[x] \in {father[x], 0}
    BY <2>3, SMTT(30) DEF Calm
  <2>10. WaiterIsTold'
    BY <1>2, <2>5, <2>8, <2>9, WaitersStay
  <2>11. QED
    BY <1>2, <2>5, <2>7, <2>10, PidsStayOfTasks, SMTT(30) DEF Kin
<1>7. CASE /\ zombies = {} /\ GoesTo("wait")
           /\ Schedule([state EXCEPT ![current] = "interruptible"], sg, alarm, counter)
  <2>1. /\ \A s \in Slots \ {current} : Calm(s)
        /\ state'[current] \in {"interruptible", "running"}
        /\ \A s \in Slots : sg[s] \subseteq signal'[s]
    BY <1>1, <1>7, SwitchMoves, ZenonT(30)
  <2>2. /\ pc'[current] = "wait"
        /\ \A s \in Slots \ {current} : pc'[s] = pc[s]
    BY <1>1, <1>7, GoesOn, Zenon
  <2>3. \A s \in Slots : state[s] = "none" => state'[s] = "none"
    BY <1>1, <2>1 DEF Used, Calm
  <2>4. \A t \in Slots : Alive(t) => Alive(t)'
    BY <2>1, <2>2, SMTT(30) DEF Alive, Used, Calm
  <2>5. FatherAlive'
    BY <1>2, <2>3, <2>4, FathersStay
  <2>6. WaiterIsTold'
    <3>1. SUFFICES ASSUME NEW s \in Slots \ {FIRST_TASK}, NEW z \in Slots \ {FIRST_TASK},
                          pc'[s] = "wait", state'[s] = "interruptible",
                          state'[z] = "zombie", father'[z] = pid'[s], pid'[z] = warg'[s]
                   PROVE  SIGCHLD \in signal'[s]
      BY DEF WaiterIsTold, Others, Used
    <3>2. z # current /\ state[z] = "zombie"
      BY <2>1, <3>1 DEF Calm
    <3>3. z \in Others
      BY <3>2, Zenon DEF Others, Used
    <3>4. s # current
      BY <1>5, <1>7, <3>1, <3>2, <3>3, SMTT(30)
    <3>5. pc[s] = "wait" /\ state[s] = "interruptible"
      BY <2>1, <2>2, <3>1, <3>4 DEF Calm
    <3>6. s \in Others
      BY <3>5, SMTT(30) DEF Others, Used
    <3>7. pid[z] = warg[s] /\ father[z] = pid[s]
      BY <3>1, <3>4
    <3>8. SIGCHLD \in signal[s]
      BY <1>2, <3>2, <3>3, <3>5, <3>6, <3>7, Zenon DEF WaiterIsTold
    <3>9. QED
      BY <2>1, <3>4, <3>8, SMTT(30)
  <2>7. QED
    BY <1>2, <2>3, <2>5, <2>6, PidsStayOfTasks, SMTT(30) DEF Kin
<1>8. CASE GoesTo("sysret") /\ signal' = sg /\ UNCHANGED <<state, counter, current>>
  BY <1>1, <1>8, GoesOn, QuietKeepsFamily DEF Calm
<1>9. QED
  BY <1>4, <1>6, <1>7, <1>8, ZenonT(30)

LEMMA WaitKeepsKin ==
  ASSUME FamilyInv, (\E p \in Int, nohang \in BOOLEAN : Waitpid(p, nohang)) \/ WaitResumes
  PROVE  Kin'
<1>1. /\ TasksInv /\ current \in Slots
      /\ warg \in [Slots -> Int] /\ signal \in [Slots -> SUBSET Signals]
  BY SMTT(30) DEF FamilyInv, FieldsInv, TasksInv, TableInv
<1>2. CASE \E p \in Int, nohang \in BOOLEAN : Waitpid(p, nohang)
  <2>1. PICK p \in Int, nohang \in BOOLEAN : Waitpid(p, nohang)
    BY <1>2
  <2>2. /\ Look(p, FALSE, nohang, signal) /\ UNCHANGED <<pid, father>>
        /\ warg' = [warg EXCEPT ![current] = p]
    BY <2>1, Zenon DEF Waitpid, ids
  <2>3. warg'[current] = p /\ \A s \in Slots \ {current} : warg'[s] = warg[s]
    BY <1>1, <2>2
  <2>4. QED
    BY <2>2, <2>3, LookKeepsKin, Zenon
<1>3. CASE WaitResumes
  <2> DEFINE sg == [signal EXCEPT ![current] = signal[current] \ {SIGCHLD}]
  <2>1. UNCHANGED <<pid, father, warg>>
    BY <1>3 DEF WaitResumes, ids
  <2>2. \/ Look(warg[current], TRUE, FALSE, sg)
        \/ GoesTo("sysret") /\ signal' = sg /\ UNCHANGED <<state, counter, current>>
    BY <1>3, ZenonT(30) DEF WaitResumes
  <2>3. \A s \in Slots \ {current} : signal[s] \subseteq sg[s]
    BY <1>1
  <2>4. warg[current] \in Int
    BY <1>1
  <2> HIDE DEF sg
  <2>5. CASE Look(warg[current], TRUE, FALSE, sg)
    BY <2>1, <2>3, <2>4, <2>5, LookKeepsKin, Zenon
  <2>6. CASE GoesTo("sysret") /\ signal' = sg /\ UNCHANGED <<state, counter, current>>
    <3>1. /\ Used(current) /\ pc'[current] = "sysret"
          /\ \A s \in Slots \ {current} : pc'[s] = pc[s]
      BY <1>1, <2>6, GoesOn, Zenon
    <3>2. pc'[current] \notin {"wait", "closing"}
      BY <3>1
    <3>3. \A s \in Slots \ {current} : /\ Calm(s) /\ signal[s] \subseteq signal'[s]
                                        /\ pc'[s] = pc[s] /\ warg'[s] = warg[s]
      BY <2>1, <2>3, <2>6, <3>1, Zenon DEF Calm
    <3>4. QED
      BY <1>1, <2>1, <2>6, <3>1, <3>2, <3>3, QuietKeepsFamily, Zenon
  <2>7. QED
    BY <2>2, <2>5, <2>6, Zenon
<1>4. QED
  BY <1>2, <1>3

\* fork: the child's father is alive, and the child has died to nobody.
LEMMA ForkKeepsKin ==
  ASSUME FamilyInv, NEW memory \in BOOLEAN, Fork(memory)
  PROVE  Kin'
<1>1. TasksInv /\ Kin /\ FieldsInv /\ current \in Slots /\ Used(current)
  BY CurrentUsed DEF FamilyInv, TasksInv, TableInv
<1>2. PidsOfTasks /\ FatherAlive /\ WaiterIsTold /\ state \in [Slots -> States]
  BY <1>1, Zenon DEF Kin, TasksInv, TableInv
<1>3. GoesTo("sysret") /\ warg' = warg /\ pc[current] = "user"
  BY SMTT(30) DEF Fork, InUser
<1>4. /\ pc'[current] = "sysret"
      /\ \A s \in Slots \ {current} : pc'[s] = pc[s]
  BY <1>1, <1>3, GoesOn, Zenon
<1>5. CASE UNCHANGED <<state, signal, ids>>
  BY <1>1, <1>3, <1>4, <1>5, QuietKeepsFamily DEF Calm, ids
<1>6. CASE FreeSlots # {} /\ state' = [state EXCEPT ![Min(FreeSlots)] = "running"]
  <2> DEFINE n == Min(FreeSlots)
  <2>1. n \in FreeSlots
    <3>1. FreeSlots \subseteq Slots
      BY DEF FreeSlots
    <3>2. QED
      BY <1>6, <3>1, MinIsMember
  <2>2. n \in Slots /\ n # FIRST_TASK /\ ~Used(n) /\ n # current
    BY <1>1, <2>1, Zenon DEF FreeSlots
  <2>3. PICK q \in 1 .. MaxPid : last_pid' = q
    BY DEF Fork
  <2>4. q > 0
    BY <2>3
  <2>5. /\ pid' = [pid EXCEPT ![n] = q]
        /\ father' = [father EXCEPT ![n] = pid[current]]
        /\ signal' = [signal EXCEPT ![n] = {}]
    <3>1. state' # state
      BY <1>2, <1>6, <2>2 DEF Used
    <3>2. QED
      BY <2>3, <3>1 DEF Fork
  <2>6. state' = [state EXCEPT ![n] = "running"]
    BY <1>6
  <2> HIDE DEF n
  <2>7. state'[n] = "running" /\ pid'[n] = q /\ father'[n] = pid[current]
    BY <1>1, <1>2, <2>2, <2>5, <2>6 DEF FieldsInv
  <2>8. \A s \in Slots \ {n} : /\ state'[s] = state[s] /\ pid'[s] = pid[s]
                               /\ father'[s] = father[s] /\ signal'[s] = signal[s]
    BY <1>1, <1>2, <2>5, <2>6 DEF FieldsInv
  <2>9. PidsOfTasks'
    <3>1. FIRST_TASK \in Slots
      BY TasksAssumption DEF FIRST_TASK, Slots
    <3>2. \A s \in Slots \ {FIRST_TASK} : state'[s] # "none" => pid'[s] > 0
      BY <1>2, <2>4, <2>7, <2>8, SMTT(30) DEF PidsOfTasks, Others, Used
    <3>3. pid'[FIRST_TASK] = 0
      BY <1>2, <2>2, <2>8, <3>1, Zenon DEF PidsOfTasks
    <3>4. QED
      BY <3>2, <3>3, SMTT(30) DEF PidsOfTasks, Others, Used
  <2>10. \A t \in Slots : Alive(t) => Alive(t)' /\ pid'[t] = pid[t]
    BY <1>4, <2>2, <2>8 DEF Alive, Used
  <2>11. FatherAlive'
    <3>1. SUFFICES ASSUME NEW s \in Slots \ {FIRST_TASK}, state'[s] # "none", father'[s] # 0
                   PROVE  \E t \in Slots : Alive(t)' /\ pid'[t] = father'[s]
      BY DEF FatherAlive, Others, Used, Alive
    <3>2. CASE s # n
      <4>1. s \in Others /\ father'[s] = father[s]
        BY <2>8, <3>1, <3>2 DEF Others, Used
      <4>2. PICK t \in Slots : Alive(t) /\ pid[t] = father[s]
        BY <1>2, <3>1, <4>1, Zenon DEF FatherAlive, Alive
      <4>3. QED
        BY <2>10, <4>1, <4>2, SMTT(30)
    <3>3. CASE s = n
      <4>1. current # FIRST_TASK
        BY <1>2, <2>7, <3>1, <3>3, Zenon DEF PidsOfTasks
      <4>2. Alive(current)
        BY <1>1, <1>3, <4>1, Zenon DEF Alive, TasksInv, CurrentMayRun
      <4>3. QED
        BY <1>1, <2>7, <2>10, <3>3, <4>2, Zenon
    <3>4. QED
      BY <3>2, <3>3
  <2>12. WaiterIsTold'
    <3>1. SUFFICES ASSUME NEW s \in Slots \ {FIRST_TASK}, NEW z \in Slots \ {FIRST_TASK},
                          pc'[s] = "wait", state'[s] = "interruptible",
                          state'[z] = "zombie", father'[z] = pid'[s], pid'[z] = warg'[s]
                   PROVE  SIGCHLD \in signal'[s]
      BY DEF WaiterIsTold, Others, Used
    <3>2. s # n /\ z # n /\ s # current
      BY <1>4, <2>7, <3>1, Zenon
    <3>3. /\ pc[s] = "wait" /\ state[s] = "interruptible" /\ state[z] = "zombie"
          /\ father[z] = pid[s] /\ pid[z] = warg[s] /\ signal'[s] = signal[s]
      BY <1>3, <1>4, <2>8, <3>1, <3>2
    <3>4. s \in Others /\ z \in Others
      BY <3>3, SMTT(30) DEF Others, Used
    <3>5. QED
      BY <1>2, <3>3, <3>4, Zenon DEF WaiterIsTold
  <2>13. QED
    BY <2>9, <2>11, <2>12 DEF Kin
<1>7. QED
  BY <1>5, <1>6 DEF Fork

\* sys_nice and fork: priorities stay above 0.
LEMMA PrioritiesStay ==
  ASSUME TasksInv, TimeForAll, [TNext]_tvars
  PROVE  TimeForAll'
<1>1. priority \in [Slots -> Nat] /\ current \in Slots
  BY DEF TasksInv, TableInv
<1>2. CASE \E n \in {-1, 1} : Nice(n)
  <2>1. PICK n \in {-1, 1} : Nice(n)
    BY <1>2
  <2>2. priority' = [priority EXCEPT ![current] =
                       IF Lowers(priority[current], n) THEN priority[current] - n
                       ELSE priority[current]]
    BY <2>1 DEF Nice
  <2>3. (IF Lowers(priority[current], n) THEN priority[current] - n
         ELSE priority[current]) > 0
    BY <1>1 DEF Lowers, TimeForAll
  <2>4. QED
    BY <1>1, <2>2, <2>3 DEF TimeForAll
<1>3. CASE \E b \in BOOLEAN : Fork(b)
  <2>1. priority' = priority \/ \E n : priority' = [priority EXCEPT ![n] = priority[current]]
    BY <1>3 DEF Fork, Inherit
  <2>2. QED
    BY <1>1, <2>1 DEF TimeForAll
<1>4. CASE UNCHANGED priority
  BY <1>4 DEF TimeForAll
<1>5. QED
  BY <1>2, <1>3, <1>4, Zenon
  DEF TNext, tvars, SystemCall, Kernel, IdleTask, LifeCalls, SignalCalls, GroupCalls,
      TimerInterrupt, SysRet, RetFromSysCall, ExitBegin, ExitEnd, WaitResumes, Pause, Exit,
      Kill, Waitpid, Alarm, SysSignal, Setsid, Setpgid, Setuid, DiskWakes

LEMMA InitFamily == TInit => FamilyInv
<1> SUFFICES ASSUME TInit PROVE FamilyInv
  OBVIOUS
<1>1. FIRST_TASK \in Slots /\ Priority \in Nat \ {0} /\ MaxPid \in Nat /\ HZ \in Nat /\ 0 \in Uids
  BY TasksAssumption DEF FIRST_TASK, Slots
<1>2. 0 \in 0 .. MaxPid /\ -1 \in -1 .. MaxPid /\ NoAlarm \in -2 .. HZ
  BY <1>1 DEF NoAlarm
<1>3. FieldsInv
  BY <1>1, <1>2 DEF TInit, FieldsInv
<1>4. TimeForAll
  BY <1>1 DEF TInit, TimeForAll
<1>5. Others = {}
  BY DEF TInit, Others, Used
<1>6. Kin
  BY <1>1, <1>5 DEF TInit, Kin, PidsOfTasks, FatherAlive, WaiterIsTold
<1>7. QED
  BY <1>3, <1>4, <1>6, InitTasks DEF FamilyInv

LEMMA NextFamily == FamilyInv /\ [TNext]_tvars => FamilyInv'
<1> SUFFICES ASSUME FamilyInv, [TNext]_tvars PROVE FamilyInv'
  OBVIOUS
<1>1. TasksInv /\ FieldsInv /\ TimeForAll
  BY DEF FamilyInv
<1>2. TasksInv' /\ FieldsInv' /\ TimeForAll'
  BY <1>1, NextTasks, FieldsStep, PrioritiesStay, SMTT(30)
<1>3. Pids \subseteq 0 .. MaxPid
  BY <1>1, Zenon DEF Pids, Others, FieldsInv
<1>4. 0 .. MaxPid \subseteq Int /\ MaxPid \in Nat /\ SIGKILL \in Signals
  BY TasksAssumption
<1>5. {-1, 0} \cup Pids \subseteq Int /\ \A p \in Pids : p \in Int /\ -p \in Int
  BY <1>3, <1>4
<1>6. CASE UNCHANGED tvars
  <2>1. Kin'
    BY <1>6 DEF tvars, run, ids, FamilyInv, Kin, PidsOfTasks, FatherAlive, WaiterIsTold, Others, Used
  <2>2. QED
    BY <1>2, <2>1, Zenon DEF FamilyInv
<1>7. CASE LifeCalls
  <2>1. \/ Pause \/ Exit
        \/ \E b \in BOOLEAN : Fork(b)
        \/ \E p \in Int, g \in Signals : Kill(p, g)
        \/ \E p \in Int, nohang \in BOOLEAN : Waitpid(p, nohang)
    BY <1>4, <1>5, <1>7 DEF LifeCalls
  <2>2. Kin'
    BY <2>1, ReturnKeepsKin, ForkKeepsKin, WaitKeepsKin, CallKeepsKin
  <2>3. QED
    BY <1>2, <2>2 DEF FamilyInv
<1>8. CASE SignalCalls \/ GroupCalls
  <2>1. \/ \E n \in {0, 1} : Alarm(n)
        \/ \E n \in {-1, 1} : Nice(n)
        \/ \E g \in Signals, fn \in {"dfl", "ign", "fn"} : SysSignal(g, fn)
        \/ \E p \in Int, g \in Signals : Kill(p, g)
        \/ Setsid
        \/ \E p, g \in {0} \cup Pids : Setpgid(p, g)
        \/ \E u \in Uids : Setuid(u)
    BY <1>5, <1>8 DEF SignalCalls, GroupCalls
  <2>2. Kin'
    BY <2>1, CallKeepsKin
  <2>3. QED
    BY <1>2, <2>2 DEF FamilyInv
<1>9. CASE TimerInterrupt \/ Kernel \/ IdleTask \/ \E s \in Slots : DiskWakes(s)
  <2>1. Kin'
    BY <1>9, ReturnKeepsKin, ExitBeginKeepsKin, ExitEndKeepsKin, WaitKeepsKin, DiskKeepsKin, SMTT(30)
    DEF Kernel, IdleTask
  <2>2. QED
    BY <1>2, <2>1 DEF FamilyInv
<1>10. QED
  BY <1>6, <1>7, <1>8, <1>9 DEF TNext, SystemCall

\* fork, do_exit, waitpid and nice: whatever the size of the task table, the
\* range of pids and the signals in use, a task's father is alive or it has none,
\* a father asleep in waitpid for a child that is dead has been told, every field
\* stays in range and the scheduler has time to give.
THEOREM FamiliesStaySound == TSpec => []FamilySound
<1>1. FamilyInv => FamilySound
  BY DEF FamilyInv, Kin, FamilySound, TTypeOK, FieldsInv, TasksInv, TableInv, States, Places
<1>2. QED
  BY <1>1, InitFamily, NextFamily, PTL DEF TSpec

=============================================================================
