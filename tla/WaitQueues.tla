----------------------------- MODULE WaitQueues ------------------------------
(***************************************************************************)
(* sleep_on, interruptible_sleep_on and wake_up of Linux 0.01 (sched.c).   *)
(* A queue is one pointer, to the task that went to sleep last; each       *)
(* sleeper keeps the pointer it found in tmp, on its stack, and wakes that *)
(* task when it runs again itself.                                         *)
(*                                                                         *)
(* A record w holds head (by queue), tmp (by task), the tasks inside       *)
(* sleep_on and, among them, the tasks that are asleep.                    *)
(***************************************************************************)
EXTENDS Integers

NoTask == 0

NoSleepers(queues, tasks) ==
  [head |-> [q \in queues |-> NoTask], tmp |-> [t \in tasks |-> NoTask],
   inside |-> {}, asleep |-> {}]

\* Up to the call of schedule().
SleepOn(w, t, q) ==
  [w EXCEPT !.head[q] = t, !.tmp[t] = w.head[q],
            !.inside = @ \cup {t}, !.asleep = @ \cup {t}]

\* For the mutation of SleptOn: the task behind is not woken.
SleptOn_Alone(w, t) == [w EXCEPT !.inside = @ \ {t}, !.tmp[t] = NoTask]

\* sleep_on behind schedule().
SleptOn(w, t) ==
  [w EXCEPT !.inside = @ \ {t}, !.asleep = @ \ {w.tmp[t]}, !.tmp[t] = NoTask]

(***************************************************************************)
(* interruptible_sleep_on behind schedule(): a task that is not the one    *)
(* the queue points to wakes that one and goes back to sleep.              *)
(***************************************************************************)
InterruptiblySlept(w, t, q) ==
  IF w.head[q] \notin {NoTask, t}
  THEN [w EXCEPT !.asleep = (@ \ {w.head[q]}) \cup {t}]
  ELSE [SleptOn(w, t) EXCEPT !.head[q] = NoTask]

WakeUp(w, q) ==
  IF w.head[q] = NoTask THEN w
  ELSE [w EXCEPT !.asleep = @ \ {w.head[q]}, !.head[q] = NoTask]

\* schedule() finds a signal for a task that sleeps interruptibly.
Interrupted(w, t) == [w EXCEPT !.asleep = @ \ {t}]

\* sleep_on and wake_up: a task asleep is what some queue points to, or is kept by
\* another task inside sleep_on, which will wake it.
NoneLost(w) ==
  \A t \in w.asleep : (\E q \in DOMAIN w.head : w.head[q] = t) \/ \E u \in w.inside : w.tmp[u] = t

=============================================================================
