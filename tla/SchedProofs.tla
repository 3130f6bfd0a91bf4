---------------------------- MODULE SchedProofs ----------------------------
(***************************************************************************)
(* Proofs about Sched, for any number of processes: as long as nobody      *)
(* kills the idle task, every live task is in exactly one place and no     *)
(* waitpid misses the exit it waits for.                                   *)
(***************************************************************************)
EXTENDS Sched, FiniteSetTheorems, SequenceTheorems, TLAPS

Inj(q) == \A i, j \in DOMAIN q : i # j => q[i] # q[j]

----------------------------------------------------------------------------
(* Queues *)

\* An order of S is a sequence of the members of S, each once.
LEMMA OrdersProperties ==
    ASSUME NEW S, S \subseteq Pid, NEW w \in Orders(S)
    PROVE  w \in Seq(Pid) /\ Elems(w) = S /\ Inj(w)
<1>1. IsFiniteSet(Pid)
  BY FS_Interval, SchedAssumption DEF Pid
<1>2. Cardinality(S) \in Nat
  BY <1>1, FS_Subset, FS_CardinalityType
<1>3. w \in [1..Cardinality(S) -> S]
  BY DEF Orders
<1>4. w \in Seq(Pid)
  BY <1>2, <1>3
<1>5. QED
  BY <1>3, <1>4 DEF Orders, Elems, Inj

\* What concatenation does to the elements of two queues without repetition.
LEMMA ConcatQueues ==
    ASSUME NEW q \in Seq(Pid), NEW w \in Seq(Pid), Inj(q), Inj(w),
           Elems(q) \cap Elems(w) = {}
    PROVE  /\ q \o w \in Seq(Pid)
           /\ Elems(q \o w) = Elems(q) \cup Elems(w)
           /\ Inj(q \o w)
<1>1. /\ q \o w \in Seq(Pid)
      /\ Len(q \o w) = Len(q) + Len(w)
      /\ \A i \in 1..(Len(q) + Len(w)) :
            (q \o w)[i] = IF i <= Len(q) THEN q[i] ELSE w[i - Len(q)]
  BY ConcatProperties
<1>2. /\ DOMAIN (q \o w) = 1..(Len(q) + Len(w)) /\ DOMAIN q = 1..Len(q)
      /\ DOMAIN w = 1..Len(w) /\ Len(q) \in Nat /\ Len(w) \in Nat
  BY <1>1, LenProperties
<1>3. Elems(q \o w) \subseteq Elems(q) \cup Elems(w)
  <2>1. ASSUME NEW i \in 1..(Len(q) + Len(w))
        PROVE  (q \o w)[i] \in Elems(q) \cup Elems(w)
    <3>1. CASE i <= Len(q)
      BY <1>1, <1>2, <3>1 DEF Elems
    <3>2. CASE ~(i <= Len(q))
      <4>1. i - Len(q) \in DOMAIN w /\ (q \o w)[i] = w[i - Len(q)]
        BY <1>1, <1>2, <3>2
      <4>2. QED
        BY <4>1 DEF Elems
    <3>3. QED
      BY <3>1, <3>2
  <2>2. QED
    BY <1>2, <2>1 DEF Elems
<1>4. Elems(q) \subseteq Elems(q \o w)
  <2>1. \A i \in DOMAIN q : i \in DOMAIN (q \o w) /\ (q \o w)[i] = q[i]
    BY <1>1, <1>2
  <2>2. QED
    BY <2>1 DEF Elems
<1>5. Elems(w) \subseteq Elems(q \o w)
  <2>1. \A i \in DOMAIN w : i + Len(q) \in DOMAIN (q \o w) /\ (q \o w)[i + Len(q)] = w[i]
    BY <1>1, <1>2
  <2>2. QED
    BY Zenon, <2>1 DEF Elems
<1>6. Inj(q \o w)
  <2>1. SUFFICES ASSUME NEW i \in DOMAIN (q \o w), NEW j \in DOMAIN (q \o w), i # j
                 PROVE  (q \o w)[i] # (q \o w)[j]
    BY DEF Inj
  <2>0. \A a \in DOMAIN q, b \in DOMAIN w : q[a] # w[b]
    BY SMTT(60) DEF Elems
  <2>2. CASE i <= Len(q) /\ j <= Len(q)
    BY <1>1, <1>2, <2>1, <2>2 DEF Inj
  <2>3. CASE ~(i <= Len(q)) /\ ~(j <= Len(q))
    BY <1>1, <1>2, <2>1, <2>3 DEF Inj
  <2>4. CASE i <= Len(q) /\ ~(j <= Len(q))
    BY SMTT(60), <1>1, <1>2, <2>0, <2>1, <2>4
  <2>5. CASE ~(i <= Len(q)) /\ j <= Len(q)
    BY <1>1, <1>2, <2>0, <2>1, <2>5
  <2>6. QED
    BY SMTT(60), <2>2, <2>3, <2>4, <2>5
<1>7. QED
  BY SMTT(60), <1>1, <1>3, <1>4, <1>5, <1>6

\* swap_remove of a task takes that task, and only it, off the queue.
LEMMA RemoveTaskProperties ==
    ASSUME NEW q \in Seq(Pid), NEW pid \in Pid, Inj(q)
    PROVE  /\ RemoveTask(q, pid) \in Seq(Pid)
           /\ Elems(RemoveTask(q, pid)) = Elems(q) \ {pid}
           /\ Inj(RemoveTask(q, pid))
<1>1. CASE pid \notin Elems(q)
  BY <1>1 DEF RemoveTask
<1>2. CASE pid \in Elems(q)
  <2> DEFINE k == CHOOSE i \in DOMAIN q : q[i] = pid
             r == SwapRemove(q, k)
  <2>1. k \in DOMAIN q /\ q[k] = pid
    BY <1>2 DEF Elems
  <2>2. Len(q) \in Nat /\ DOMAIN q = 1..Len(q) /\ q \in [1..Len(q) -> Pid]
    BY LenProperties
  <2>3. RemoveTask(q, pid) = r
    BY <1>2 DEF RemoveTask
  <2> HIDE DEF k
  <2>4. /\ r = [j \in 1..(Len(q) - 1) |-> IF j = k THEN q[Len(q)] ELSE q[j]]
        /\ Len(q) - 1 \in Nat
    BY <2>1, <2>2 DEF SwapRemove
  <2> HIDE DEF r
  <2>5. r \in Seq(Pid)
    <3>1. r \in [1..(Len(q) - 1) -> Pid]
      BY <2>1, <2>2, <2>4
    <3>2. QED
      BY <2>4, <3>1
  <2>6. Inj(r)
    BY SMTT(60), <2>1, <2>2, <2>4 DEF Inj
  <2>7. Elems(r) = Elems(q) \ {pid}
    <3>1. \A j \in DOMAIN r : r[j] \in Elems(q) /\ r[j] # pid
      BY SMTT(60), <2>1, <2>2, <2>4 DEF Elems, Inj
    <3>2. ASSUME NEW i \in DOMAIN q, i # k PROVE \E j \in DOMAIN r : r[j] = q[i]
      <4>1. CASE i = Len(q)
        BY SMTT(60), <2>1, <2>2, <2>4, <3>2, <4>1
      <4>2. CASE i # Len(q)
        BY SMTT(60), <2>1, <2>2, <2>4, <3>2, <4>2
      <4>3. QED
        BY <4>1, <4>2
    <3>3. \A i \in DOMAIN q : q[i] # pid => i # k
      BY <2>1
    <3>4. QED
      BY <3>1, <3>2, <3>3 DEF Elems
  <2>8. QED
    BY <2>3, <2>5, <2>6, <2>7
<1>3. QED
  BY <1>1, <1>2

----------------------------------------------------------------------------
(* schedule() and wake_all() *)

\* The situation just before schedule() is called with run queue q, CURRENT =
\* prev and task states st: the queue is in order, holds every ready task but
\* prev, and is empty only if prev can go on.
Switchable(q, prev, st) ==
    /\ q \in Seq(Pid) /\ prev \in Pid \cup {None} /\ st \in [Pid -> TaskState]
    /\ Inj(q)
    /\ \A t \in Elems(q) : t # prev /\ st[t] = "Ready"
    /\ \A t \in Pid : st[t] = "Running" => t = prev
    /\ \A t \in Pid : st[t] = "Ready" => t = prev \/ t \in Elems(q)
    /\ q = <<>> => prev # None /\ st[prev] \in {"Ready", "Running"}

\* The situation after a step: what Placement says of the CPU and the queue.
Switched ==
    /\ runQueue' \in Seq(Pid) /\ current' \in Pid /\ state' \in [Pid -> TaskState]
    /\ RunQueueSound' /\ CurrentSound'
    /\ \A t \in Pid : state'[t] = "Running" => t = current'
    /\ \A t \in Pid : state'[t] = "Ready" => t = current' \/ t \in Elems(runQueue')

\* schedule() puts the CPU and the queue in order, and leaves the dead, parked
\* and unborn tasks alone.
LEMMA ScheduleProperties ==
    ASSUME NEW q, NEW prev, NEW st, Switchable(q, prev, st), Schedule(q, prev, st)
    PROVE  /\ Switched
           /\ \A t \in Pid, s \in {"Blocked", "Dead", "Unborn"} : state'[t] = s <=> st[t] = s
<1> USE DEF Switchable
<1>0. None \notin Pid /\ Len(q) \in Nat /\ DOMAIN q = 1..Len(q)
  BY LenProperties, SchedAssumption DEF None, Pid
<1>1. CASE q = <<>>
  <2>1. runQueue' = q /\ current' = prev /\ state' = st
    BY <1>1 DEF Schedule
  <2>2. DOMAIN q = {}
    BY <1>1
  <2>3. QED
    BY <1>1, <2>1, <2>2 DEF Switched, RunQueueSound, CurrentSound, Elems, None
<1>2. CASE q # <<>>
  <2> DEFINE h == Head(q)
             requeue == prev # None /\ st[prev] \in {"Ready", "Running"}
             r == IF requeue THEN Append(Tail(q), prev) ELSE Tail(q)
  <2>1. /\ runQueue' = r /\ current' = h
        /\ state' = [t \in Pid |-> IF t = h THEN "Running"
                                   ELSE IF requeue /\ t = prev THEN "Ready" ELSE st[t]]
    BY <1>2 DEF Schedule
  <2>2. /\ Tail(q) \in Seq(Pid) /\ Len(Tail(q)) = Len(q) - 1 /\ Len(q) >= 1
        /\ DOMAIN Tail(q) = 1..(Len(q) - 1)
        /\ \A i \in 1..(Len(q) - 1) : Tail(q)[i] = q[i + 1]
        /\ h = q[1] /\ h \in Pid
    BY SMTT(60), <1>0, <1>2, HeadTailProperties, LenProperties
  <2>3. h \in Elems(q) /\ h # prev /\ st[h] = "Ready"
    BY <1>0, <2>2 DEF Elems
  <2>4. Inj(Tail(q)) /\ Elems(Tail(q)) = Elems(q) \ {h}
    <3>1. Inj(Tail(q))
      BY <1>0, <2>2 DEF Inj
    <3>2. \A i \in DOMAIN Tail(q) : Tail(q)[i] \in Elems(q) /\ Tail(q)[i] # h
      BY <1>0, <2>2 DEF Inj, Elems
    <3>3. ASSUME NEW i \in DOMAIN q, q[i] # h PROVE \E j \in DOMAIN Tail(q) : Tail(q)[j] = q[i]
      <4>1. i - 1 \in DOMAIN Tail(q) /\ Tail(q)[i - 1] = q[i]
        BY SMTT(60), <1>0, <2>2, <3>3
      <4>2. QED
        BY <4>1
    <3>4. QED
      BY <3>1, <3>2, <3>3 DEF Elems
  <2>5. r \in Seq(Pid) /\ Inj(r) /\ Elems(r) = (Elems(q) \ {h}) \cup (IF requeue THEN {prev} ELSE {})
    <3>1. CASE ~requeue
      BY <2>2, <2>4, <3>1
    <3>2. CASE requeue
      <4> DEFINE z == <<prev>>
      <4>1. z \in Seq(Pid) /\ Inj(z) /\ Elems(z) = {prev}
        BY SMTT(30), <1>0, <3>2 DEF Inj, Elems
      <4>2. r = Tail(q) \o z
        BY ZenonT(60), <2>2, <3>2, AppendIsConcat
      <4> HIDE DEF z, r
      <4>3. Elems(Tail(q)) \cap Elems(z) = {}
        BY <2>4, <4>1
      <4>4. /\ Tail(q) \o z \in Seq(Pid) /\ Inj(Tail(q) \o z)
            /\ Elems(Tail(q) \o z) = Elems(Tail(q)) \cup Elems(z)
        BY ONLY Zenon, <2>2, <2>4, <4>1, <4>3, ConcatQueues
      <4>5. QED
        BY SMTT(60), <2>4, <3>2, <4>1, <4>2, <4>4
    <3>3. QED
      BY <3>1, <3>2
  <2> HIDE DEF r, h
  <2>6. state' \in [Pid -> TaskState]
    BY <2>1 DEF TaskState
  <2>7. RunQueueSound'
    <3>1. \A t \in Elems(r) : t \in Pid
      BY <2>5, LenProperties DEF Elems
    <3>2. \A t \in Elems(r) : t # h /\ state'[t] = "Ready"
      BY <2>1, <2>3, <2>5, <3>1
    <3>3. QED
      BY ZenonT(60), <2>1, <2>5, <3>2 DEF RunQueueSound, Inj, Elems
  <2>8. CurrentSound'
    BY <1>0, <2>1, <2>2 DEF CurrentSound
  <2>9. \A t \in Pid : /\ state'[t] = "Running" => t = h
                       /\ state'[t] = "Ready" => t \in Elems(r)
    BY <1>0, <2>1, <2>5
  <2>10. \A t \in Pid, s \in {"Blocked", "Dead", "Unborn"} : state'[t] = s <=> st[t] = s
    BY <1>0, <2>1, <2>3
  <2>11. QED
    BY SMTT(60), <2>1, <2>2, <2>5, <2>6, <2>7, <2>8, <2>9, <2>10 DEF Switched
<1>3. QED
  BY <1>1, <1>2

\* wake_all() queues the tasks parked on the key, each once, behind q0.
LEMMA WakeProperties ==
    ASSUME TypeOK, Placement, NEW key, NEW q0 \in Seq(Pid), Inj(q0),
           Elems(q0) \subseteq Elems(runQueue), NEW q \in WakeQueues(key, q0)
    PROVE  /\ q \in Seq(Pid) /\ Inj(q)
           /\ Elems(q) = Elems(q0) \cup Woken(key)
           /\ \A t \in Woken(key) : /\ t \in Pid /\ t # current /\ key = WaitKey(t)
                                    /\ state[t] \in {"Blocked", "Dead"}
<1>1. \A t \in Woken(key) : /\ t \in Pid /\ t # current /\ key = WaitKey(t)
                            /\ state[t] \in {"Blocked", "Dead"}
  BY DEF Woken, Placement, WaitQueueSound, CurrentSound
<1>2. Elems(q0) \cap Woken(key) = {}
  BY <1>1 DEF Placement, RunQueueSound
<1>3. PICK w \in Orders(Woken(key)) : q = q0 \o w
  BY DEF WakeQueues
<1>4. Woken(key) \subseteq Pid
  BY DEF Woken
<1>5. w \in Seq(Pid) /\ Elems(w) = Woken(key) /\ Inj(w)
  BY <1>4, OrdersProperties
<1>6. QED
  BY SMTT(60), <1>1, <1>2, <1>3, <1>5, ConcatQueues

----------------------------------------------------------------------------
(* The inductive invariant *)

\* No part of it is inductive alone: that the run queue is never found empty
\* by a task that exits or parks needs idle alive and in place, that a woken
\* task is not queued twice needs WaitQueueSound, and that a parked waitpid
\* has missed nothing needs the entry its parent key is woken through.
SchedInv == TypeOK /\ Placement /\ NoLostWakeup

\* The constants of a system in which idle is never killed.
IdleSafe == Idle \notin Killable

LEMMA InitSchedInv == Init => SchedInv
<1> SUFFICES ASSUME Init PROVE SchedInv
  OBVIOUS
<1>0. Pid \subseteq Int /\ 1 \in Pid /\ 2 \in Pid /\ 0 \notin Pid /\ -1 \notin 0..MaxPid
  BY SchedAssumption DEF Pid
<1>1. runQueue = <<2>> /\ runQueue \in Seq(Pid) /\ DOMAIN runQueue = {1} /\ runQueue[1] = 2
  BY <1>0 DEF Init, Spring
<1>2. TypeOK
  BY <1>0, <1>1, SchedAssumption DEF Init, TypeOK, TaskState, Idle, Spring, None, NoCall
<1>3. Placement
  <2>1. Elems(runQueue) = {2}
    BY <1>1 DEF Elems
  <2>2. RunQueueSound
    BY <1>0, <1>1, <2>1 DEF Init, RunQueueSound, Idle, Spring
  <2>3. WaitQueueSound /\ CurrentSound
    BY <1>0 DEF Init, WaitQueueSound, CurrentSound, Idle, Spring, None
  <2>4. NoTaskLost
    BY <2>1 DEF Init, NoTaskLost, Idle, Spring
  <2>5. TasksSound
    BY <1>0, SchedAssumption DEF Init, TasksSound, Idle, Spring, Pid
  <2>6. QED
    BY <2>2, <2>3, <2>4, <2>5 DEF Placement
<1>4. NoLostWakeup
  BY DEF Init, NoLostWakeup
<1>5. QED
  BY <1>2, <1>3, <1>4 DEF SchedInv

\* Idle is queued while another task runs: the queue is not empty then.
LEMMA RunnableIdle ==
    ASSUME SchedInv, current # Idle
    PROVE  Idle \in Elems(runQueue)
<1>1. Idle \in Pid
  BY SchedAssumption DEF Idle, Pid
<1>2. QED
  BY Zenon, <1>1 DEF SchedInv, Placement, NoTaskLost, TasksSound

\* Tick and Yield: the running task gives way.
LEMMA SwitchSchedInv ==
    ASSUME SchedInv, Schedule(runQueue, current, state),
           UNCHANGED <<waitQueue, parent, exitCode, nextId, call>>
    PROVE  SchedInv'
<1>1. TypeOK /\ Placement /\ NoLostWakeup
  BY DEF SchedInv
<1>2. Switchable(runQueue, current, state)
  BY Zenon, <1>1 DEF Switchable, TypeOK, Placement, RunQueueSound, CurrentSound, NoTaskLost, Inj
<1>3. /\ Switched
      /\ \A t \in Pid, s \in {"Blocked", "Dead", "Unborn"} : state'[t] = s <=> state[t] = s
  BY <1>2, ScheduleProperties
<1>4. TypeOK'
  BY <1>1, <1>3 DEF TypeOK, Switched
<1>5. WaitQueueSound'
  BY <1>1, <1>3 DEF TypeOK, Placement, WaitQueueSound
<1>6. NoTaskLost'
  BY <1>1, <1>3 DEF Placement, NoTaskLost, Switched
<1>7. TasksSound'
  <2>1. Idle \in Pid
    BY SchedAssumption DEF Idle, Pid
  <2>2. QED
    BY SMTT(60), <1>1, <1>3, <1>4, <2>1 DEF Placement, TasksSound, TypeOK, TaskState
<1>8. NoLostWakeup'
  <2>1. Tasks \subseteq Pid
    BY <1>1, SchedAssumption DEF TypeOK, Tasks, Pid
  <2>2. \A t, pid : ExitedChild(t, pid)' = ExitedChild(t, pid)
    BY <1>3, <2>1 DEF ExitedChild, Child, Tasks
  <2>3. QED
    BY <1>1, <1>3, <2>2 DEF NoLostWakeup
<1>9. QED
  BY SMTT(60), <1>3, <1>4, <1>5, <1>6, <1>7, <1>8 DEF SchedInv, Placement, Switched

\* Spawn: the new task is queued behind the others.
LEMMA SpawnSchedInv ==
    ASSUME SchedInv, NEW c \in Pid, Spawn(c)
    PROVE  SchedInv'
<1>1. TypeOK /\ Placement /\ NoLostWakeup
  BY DEF SchedInv
<1>2. nextId \in Pid /\ nextId \in Int /\ nextId >= 3 /\ nextId' = nextId + 1
  BY <1>1, SchedAssumption DEF TypeOK, Spawn, Pid
<1>3. /\ state' = [state EXCEPT ![nextId] = "Ready"] /\ state[nextId] = "Unborn"
      /\ parent' = [parent EXCEPT ![nextId] = c] /\ runQueue' = Append(runQueue, nextId)
      /\ UNCHANGED <<current, waitQueue, exitCode, call>>
  BY <1>1, <1>2 DEF Spawn, Placement, TasksSound
<1>4. runQueue \in Seq(Pid) /\ Inj(runQueue) /\ nextId \notin Elems(runQueue)
  BY <1>1, <1>3 DEF TypeOK, Placement, RunQueueSound, Inj
<1>5. runQueue' \in Seq(Pid) /\ Inj(runQueue') /\ Elems(runQueue') = Elems(runQueue) \cup {nextId}
  <2> DEFINE z == <<nextId>>
  <2>1. z \in Seq(Pid) /\ Inj(z) /\ Elems(z) = {nextId}
    BY <1>2 DEF Inj, Elems
  <2>2. runQueue' = runQueue \o z
    BY SMTT(60), <1>2, <1>3, <1>4, AppendIsConcat
  <2> HIDE DEF z
  <2>3. Elems(runQueue) \cap Elems(z) = {}
    BY SMTT(60), <1>4, <2>1
  <2>4. QED
    BY SMTT(60), <1>4, <2>1, <2>2, <2>3, ConcatQueues
<1>6. TypeOK'
  BY SMTT(60), <1>1, <1>2, <1>3, <1>5, SchedAssumption DEF TypeOK, TaskState, Pid
<1>7. nextId # current
  BY <1>1, <1>3 DEF Placement, CurrentSound
<1>8. RunQueueSound'
  <2>1. \A t \in Elems(runQueue') : t \in Pid
    BY <1>5, LenProperties DEF Elems
  <2>2. \A t \in Elems(runQueue') : t # current' /\ state'[t] = "Ready"
    BY SMTT(60), <1>1, <1>3, <1>5, <1>7, <2>1 DEF Placement, RunQueueSound, TypeOK
  <2>3. QED
    BY <1>5, <2>2 DEF RunQueueSound, Inj
<1>9. WaitQueueSound' /\ CurrentSound'
  BY SMTT(60), <1>1, <1>3, <1>7 DEF TypeOK, Placement, WaitQueueSound, CurrentSound
<1>10. NoTaskLost'
  BY SMTT(60), <1>1, <1>3, <1>5 DEF TypeOK, Placement, NoTaskLost
<1>11. TasksSound'
  BY SMTT(60), <1>1, <1>2, <1>3, SchedAssumption DEF TypeOK, Placement, TasksSound, Idle, Pid
<1>12. NoLostWakeup'
  <2>1. Tasks \subseteq Pid /\ Tasks' = Tasks \cup {nextId} /\ nextId \notin Tasks
    BY <1>1, <1>2, SchedAssumption DEF TypeOK, Tasks, Pid
  <2>2. \A t, pid : ExitedChild(t, pid)' \subseteq ExitedChild(t, pid)
    BY <1>1, <1>2, <1>3, <2>1 DEF TypeOK, ExitedChild, Child
  <2>3. \A t \in Pid : state'[t] = "Blocked" => state[t] = "Blocked"
    BY SMTT(60), <1>1, <1>2, <1>3 DEF TypeOK
  <2>4. QED
    BY SMTT(60), <1>1, <1>3, <2>2, <2>3 DEF NoLostWakeup
<1>13. QED
  BY SMTT(60), <1>6, <1>8, <1>9, <1>10, <1>11, <1>12 DEF SchedInv, Placement

\* The death of task x, by exit or by kill: what marking it dead and waking
\* its parent does to the task states and the wait queue, whoever runs next.
LEMMA DeathProperties ==
    ASSUME SchedInv, NEW x \in Pid, x < nextId, NEW key, key = WaitKey(parent[x]),
           NEW st, st = WakeStates(key, [state EXCEPT ![x] = "Dead"]),
           state' \in [Pid -> TaskState], waitQueue' = WakeDequeue(key),
           \A t \in Pid, s \in {"Blocked", "Dead", "Unborn"} : state'[t] = s <=> st[t] = s,
           UNCHANGED <<parent, nextId, call>>
    PROVE  /\ WaitQueueSound'
           /\ \A t \in Pid : state'[t] = "Blocked" =>
                 <<WaitKey(t), t>> \in waitQueue' /\ call'[t] # NoCall
           /\ \A t \in Pid : state'[t] = "Unborn" <=> t >= nextId'
           /\ NoLostWakeup'
<1>1. TypeOK /\ Placement /\ NoLostWakeup
  BY DEF SchedInv
<1>2. \A t \in Pid : st[t] = IF t \in Woken(key) THEN "Ready"
                            ELSE IF t = x THEN "Dead" ELSE state[t]
  BY <1>1 DEF WakeStates, TypeOK
<1>3. \A t \in Pid : t \in Woken(key) <=> <<key, t>> \in waitQueue
  BY DEF Woken
<1>4. \A t \in Pid : state'[t] = "Blocked" => /\ state[t] = "Blocked" /\ t # x
                                              /\ t \notin Woken(key)
  BY Zenon, <1>2
<1>5. WaitQueueSound'
  <2>1. SUFFICES ASSUME NEW e \in waitQueue'
                 PROVE  e[1] = WaitKey(e[2]) /\ state'[e[2]] \in {"Blocked", "Dead"}
    BY DEF WaitQueueSound
  <2>2. e \in waitQueue /\ e[1] # key /\ e[2] \in Pid /\ e = <<e[1], e[2]>>
    BY <1>1, <2>1 DEF WakeDequeue, TypeOK
  <2>3. e[1] = WaitKey(e[2]) /\ state[e[2]] \in {"Blocked", "Dead"}
    BY <1>1, <2>2 DEF Placement, WaitQueueSound
  <2>4. e[2] \notin Woken(key)
    <3>1. ASSUME <<key, e[2]>> \in waitQueue PROVE key = WaitKey(e[2])
      BY <1>1, <3>1 DEF Placement, WaitQueueSound
    <3>2. QED
      BY SMTT(60), <1>3, <2>2, <2>3, <3>1
  <2>5. st[e[2]] \in {"Blocked", "Dead"}
    BY ZenonT(60), <1>2, <2>2, <2>3, <2>4
  <2>6. QED
    BY ZenonT(60), <2>2, <2>3, <2>5
<1>6. ASSUME NEW t \in Pid, state'[t] = "Blocked"
      PROVE  /\ <<WaitKey(t), t>> \in waitQueue' /\ call'[t] # NoCall
             /\ WaitKey(t) # key
  <2>1. <<WaitKey(t), t>> \in waitQueue /\ call[t] # NoCall
    BY SMTT(60), <1>1, <1>4, <1>6 DEF Placement, NoTaskLost
  <2>2. WaitKey(t) # key
    BY <1>3, <1>4, <1>6, <2>1
  <2>3. QED
    BY <2>1, <2>2 DEF WakeDequeue
<1>7. \A t \in Pid : state'[t] = "Unborn" <=> t >= nextId'
  <2>1. \A t \in Woken(key) : t \in Pid /\ state[t] \in {"Blocked", "Dead"}
    BY <1>1 DEF Woken, Placement, WaitQueueSound
  <2>2. nextId \in Int /\ x \in Int
    BY <1>1, SchedAssumption DEF TypeOK, Pid
  <2>3. ~(x >= nextId)
    BY <2>2
  <2>4. QED
    BY ZenonT(60), <1>1, <1>2, <2>1, <2>3 DEF Placement, TasksSound
<1>8. NoLostWakeup'
  <2>1. Tasks \subseteq Pid /\ Tasks' = Tasks
    BY <1>1, SchedAssumption DEF TypeOK, Tasks, Pid
  <2>2. ASSUME NEW t \in Pid, state'[t] = "Blocked", NEW u \in ExitedChild(t, call[t])'
        PROVE  FALSE
    <3>1. u \in Tasks /\ u \in Pid /\ parent[u] = t /\ call[t] \in {0, u} /\ state'[u] = "Dead"
      BY <2>1, <2>2 DEF ExitedChild, Child
    <3>2. u # x
      BY Zenon, <1>6, <2>2, <3>1
    <3>3. state[u] = "Dead"
      BY ZenonT(60), <1>2, <3>1, <3>2
    <3>4. u \in ExitedChild(t, call[t])
      BY SMTT(60), <3>1, <3>3 DEF ExitedChild, Child
    <3>5. QED
      BY SMTT(60), <1>1, <1>4, <2>2, <3>4 DEF NoLostWakeup
  <2>3. QED
    BY <2>2 DEF NoLostWakeup
<1>9. QED
  BY SMTT(60), <1>5, <1>6, <1>7, <1>8

\* Exit: the task leaves the CPU for the next one.
LEMMA ExitSchedInv ==
    ASSUME SchedInv, NEW c \in Pid, NEW code \in Codes, Exit(c, code)
    PROVE  SchedInv'
<1> DEFINE key == WaitKey(parent[c])
           dead == [state EXCEPT ![c] = "Dead"]
           st == WakeStates(key, dead)
<1>1. TypeOK /\ Placement /\ NoLostWakeup
  BY SMTT(60) DEF SchedInv
<1>2. /\ c = current /\ c # Idle
      /\ exitCode' = [exitCode EXCEPT ![c] = code] /\ waitQueue' = WakeDequeue(key)
      /\ UNCHANGED <<parent, nextId, call>>
  BY DEF Exit, InUser
<1>3. PICK q \in WakeQueues(key, runQueue) : Schedule(q, None, st)
  BY DEF Exit
<1>4. runQueue \in Seq(Pid) /\ Inj(runQueue)
  BY SMTT(60), <1>1 DEF TypeOK, Placement, RunQueueSound, Inj
<1>5. /\ q \in Seq(Pid) /\ Inj(q) /\ Elems(q) = Elems(runQueue) \cup Woken(key)
      /\ \A t \in Woken(key) : /\ t \in Pid /\ t # current /\ key = WaitKey(t)
                                /\ state[t] \in {"Blocked", "Dead"}
  BY SMTT(60), <1>1, <1>4, WakeProperties
<1>6. /\ st \in [Pid -> TaskState]
      /\ \A t \in Pid : st[t] = IF t \in Woken(key) THEN "Ready"
                                ELSE IF t = c THEN "Dead" ELSE state[t]
  BY <1>1 DEF WakeStates, TypeOK, TaskState
<1>7. Idle \in Elems(q) /\ Idle \in Pid
  BY SMTT(60), <1>2, <1>5, RunnableIdle, SchedAssumption DEF Idle, Pid
<1> HIDE DEF key, st
<1>8. Switchable(q, None, st)
  <2>1. q # <<>>
    BY <1>7 DEF Elems
  <2>2. \A t \in Elems(q) : t \in Pid /\ t # None
    BY SMTT(60), <1>5, LenProperties, SchedAssumption DEF Elems, None, Pid
  <2>3. \A t \in Elems(q) : st[t] = "Ready"
    BY SMTT(60), <1>1, <1>2, <1>5, <1>6, <2>2 DEF Placement, RunQueueSound
  <2>4. \A t \in Pid : st[t] # "Running"
    BY Zenon, <1>1, <1>2, <1>6 DEF Placement, NoTaskLost
  <2>5. \A t \in Pid : st[t] = "Ready" => t \in Elems(q)
    BY ZenonT(60), <1>1, <1>2, <1>5, <1>6 DEF Placement, NoTaskLost
  <2>6. QED
    BY SMTT(60), <1>5, <1>6, <2>1, <2>2, <2>3, <2>4, <2>5 DEF Switchable
<1>9. /\ Switched
      /\ \A t \in Pid, s \in {"Blocked", "Dead", "Unborn"} : state'[t] = s <=> st[t] = s
  BY SMTT(60), <1>3, <1>8, ScheduleProperties
<1>10. c < nextId
  BY SMTT(60), <1>1, <1>2, SchedAssumption DEF Placement, TasksSound, CurrentSound, TypeOK, Pid
<1>11. /\ WaitQueueSound' /\ NoLostWakeup'
       /\ \A t \in Pid : state'[t] = "Blocked" =>
             <<WaitKey(t), t>> \in waitQueue' /\ call'[t] # NoCall
       /\ \A t \in Pid : state'[t] = "Unborn" <=> t >= nextId'
  <2>1. state' \in [Pid -> TaskState]
    BY <1>9 DEF Switched
  <2>2. key = WaitKey(parent[c]) /\ st = WakeStates(key, [state EXCEPT ![c] = "Dead"])
    BY DEF key, st
  <2>3. QED
    BY SMTT(60), <1>2, <1>9, <1>10, <2>1, <2>2, DeathProperties
<1>12. TypeOK'
  BY ZenonT(60), <1>1, <1>2, <1>9 DEF TypeOK, Switched, WakeDequeue
<1>13. TasksSound'
  <2>1. state'[Idle] \in {"Ready", "Running"}
    BY SMTT(60), <1>1, <1>2, <1>6, <1>7, <1>9 DEF Switched, TaskState, Placement, TasksSound
  <2>2. QED
    BY SMTT(60), <1>1, <1>2, <1>11, <2>1 DEF Placement, TasksSound
<1>14. QED
  BY SMTT(60), <1>9, <1>11, <1>12, <1>13 DEF SchedInv, Placement, Switched, NoTaskLost

\* Kill of another task: it leaves the run queue, and the caller runs on.
LEMMA KillSchedInv ==
    ASSUME IdleSafe, SchedInv, NEW c \in Pid, NEW pid \in Pid, NEW code \in Codes,
           Kill(c, pid, code)
    PROVE  SchedInv'
<1> DEFINE key == WaitKey(parent[pid])
           st == WakeStates(key, [state EXCEPT ![pid] = "Dead"])
           q0 == RemoveTask(runQueue, pid)
<1>1. TypeOK /\ Placement /\ NoLostWakeup
  BY SMTT(60) DEF SchedInv
<1>2. /\ c = current /\ pid # current /\ pid # Idle /\ pid \in Tasks
      /\ exitCode' = [exitCode EXCEPT ![pid] = code] /\ waitQueue' = WakeDequeue(key)
      /\ state' = st /\ runQueue' \in WakeQueues(key, q0)
      /\ UNCHANGED <<current, parent, nextId, call>>
  BY DEF Kill, Killed, InUser, IdleSafe
<1>3. runQueue \in Seq(Pid) /\ Inj(runQueue)
  BY <1>1 DEF TypeOK, Placement, RunQueueSound, Inj
<1>4. q0 \in Seq(Pid) /\ Elems(q0) = Elems(runQueue) \ {pid} /\ Inj(q0)
  BY <1>3, RemoveTaskProperties
<1>5. /\ st \in [Pid -> TaskState]
      /\ \A t \in Pid : st[t] = IF t \in Woken(key) THEN "Ready"
                                ELSE IF t = pid THEN "Dead" ELSE state[t]
  BY <1>1 DEF WakeStates, TypeOK, TaskState
<1> HIDE DEF q0, key, st
<1>6. /\ runQueue' \in Seq(Pid) /\ Inj(runQueue')
      /\ Elems(runQueue') = Elems(q0) \cup Woken(key)
      /\ \A t \in Woken(key) : /\ t \in Pid /\ t # current /\ key = WaitKey(t)
                                /\ state[t] \in {"Blocked", "Dead"}
  BY <1>1, <1>2, <1>4, WakeProperties
<1>7. TypeOK'
  BY ZenonT(60), <1>1, <1>2, <1>5, <1>6 DEF TypeOK, WakeDequeue
<1>8. RunQueueSound'
  <2>1. \A t \in Elems(runQueue') : t \in Pid
    BY SMTT(60), <1>6, LenProperties DEF Elems
  <2>2. \A t \in Elems(runQueue') : t # current' /\ state'[t] = "Ready"
    BY SMTT(60), <1>1, <1>2, <1>4, <1>5, <1>6, <2>1 DEF Placement, RunQueueSound
  <2>3. QED
    BY SMTT(60), <1>6, <2>2 DEF RunQueueSound, Inj
<1>9. CurrentSound'
  BY SMTT(60), <1>1, <1>2, <1>5, <1>6 DEF Placement, CurrentSound, TypeOK
<1>10. pid < nextId
  BY SMTT(30), <1>1, <1>2, SchedAssumption DEF TypeOK, Tasks, Pid
<1>11. /\ WaitQueueSound' /\ NoLostWakeup'
       /\ \A t \in Pid : state'[t] = "Blocked" =>
             <<WaitKey(t), t>> \in waitQueue' /\ call'[t] # NoCall
       /\ \A t \in Pid : state'[t] = "Unborn" <=> t >= nextId'
  <2>1. key = WaitKey(parent[pid]) /\ st = WakeStates(key, [state EXCEPT ![pid] = "Dead"])
    BY DEF key, st
  <2>2. QED
    BY ZenonT(60), <1>2, <1>5, <1>10, <2>1, DeathProperties
<1>12. NoTaskLost'
  <2>1. \A t \in Pid : state'[t] = "Running" => t = current'
    BY Zenon, <1>1, <1>2, <1>5 DEF Placement, NoTaskLost
  <2>2. \A t \in Pid : state'[t] = "Ready" => t = current' \/ t \in Elems(runQueue')
    BY ZenonT(60), <1>1, <1>2, <1>4, <1>5, <1>6 DEF Placement, NoTaskLost
  <2>3. QED
    BY <1>11, <2>1, <2>2 DEF NoTaskLost
<1>13. TasksSound'
  <2>1. Idle \in Pid
    BY SchedAssumption DEF Idle, Pid
  <2>2. QED
    BY SMTT(60), <1>1, <1>2, <1>5, <1>11, <2>1 DEF Placement, TasksSound
<1>14. QED
  BY SMTT(60), <1>7, <1>8, <1>9, <1>11, <1>12, <1>13 DEF SchedInv, Placement

\* Waitpid and Resume: the running task finds no exited child and parks.
LEMMA ParkSchedInv ==
    ASSUME SchedInv, current # Idle, NEW pid \in 0..MaxPid,
           BlockOnChildren(current), ExitedChild(current, pid) = {},
           call' = [call EXCEPT ![current] = pid], UNCHANGED <<parent, exitCode, nextId>>
    PROVE  SchedInv'
<1> DEFINE c == current
           st == [state EXCEPT ![c] = "Blocked"]
<1>1. TypeOK /\ Placement /\ NoLostWakeup
  BY DEF SchedInv
<1>2. /\ c \in Pid /\ Idle \in Pid /\ Idle # c /\ state[c] \in {"Ready", "Running"}
      /\ Idle \in Elems(runQueue) /\ None \notin Pid
  BY <1>1, RunnableIdle, SchedAssumption DEF TypeOK, Placement, CurrentSound, Idle, Pid, None
<1>3. waitQueue' = waitQueue \cup {<<WaitKey(c), c>>} /\ Schedule(runQueue, c, st)
  BY DEF BlockOnChildren
<1>4. st \in [Pid -> TaskState] /\ \A t \in Pid : st[t] = IF t = c THEN "Blocked" ELSE state[t]
  BY <1>1, <1>2 DEF TypeOK, TaskState
<1> HIDE DEF st
<1>5. Switchable(runQueue, c, st)
  <2>1. runQueue # <<>>
    BY SMTT(60), <1>2 DEF Elems
  <2>2. \A t \in Elems(runQueue) : t \in Pid
    BY SMTT(60), <1>1, LenProperties DEF TypeOK, Elems
  <2>3. QED
    BY ZenonT(60), <1>1, <1>2, <1>4, <2>1, <2>2
    DEF Switchable, TypeOK, Placement, RunQueueSound, NoTaskLost, Inj
<1>6. /\ Switched
      /\ \A t \in Pid, s \in {"Blocked", "Dead", "Unborn"} : state'[t] = s <=> st[t] = s
  BY SMTT(60), <1>3, <1>5, ScheduleProperties
<1>7. call' \in [Pid -> {NoCall} \cup 0..MaxPid] /\ call'[c] = pid /\ pid # NoCall
      /\ \A t \in Pid : t # c => call'[t] = call[t]
  BY SMTT(60), <1>1, <1>2, SchedAssumption DEF TypeOK, NoCall
<1>8. TypeOK'
  BY SMTT(60), <1>1, <1>2, <1>3, <1>6, <1>7 DEF TypeOK, Switched
<1>9. WaitQueueSound'
  <2>1. \A e \in waitQueue : /\ e[2] \in Pid /\ e[1] = WaitKey(e[2])
                             /\ state'[e[2]] \in {"Blocked", "Dead"}
    BY SMTT(60), <1>1, <1>2, <1>4, <1>6 DEF TypeOK, Placement, WaitQueueSound
  <2>2. state'[c] = "Blocked"
    BY SMTT(60), <1>2, <1>4, <1>6
  <2>3. QED
    BY SMTT(60), <1>3, <2>1, <2>2 DEF WaitQueueSound
<1>10. NoTaskLost'
  <2>1. \A t \in Pid : state'[t] = "Blocked" =>
            <<WaitKey(t), t>> \in waitQueue' /\ call'[t] # NoCall
    BY SMTT(60), <1>1, <1>3, <1>4, <1>6, <1>7 DEF Placement, NoTaskLost
  <2>2. QED
    BY SMTT(60), <1>6, <2>1 DEF Switched, NoTaskLost
<1>11. TasksSound'
  <2>1. \A t \in Pid : state'[t] = "Unborn" <=> t >= nextId'
    BY SMTT(60), <1>1, <1>2, <1>4, <1>6 DEF Placement, TasksSound
  <2>2. state'[Idle] \in {"Ready", "Running"} /\ call'[Idle] = NoCall
    BY SMTT(60), <1>1, <1>2, <1>4, <1>6, <1>7 DEF Placement, TasksSound, Switched, TaskState
  <2>3. QED
    BY <2>1, <2>2 DEF TasksSound
<1>12. NoLostWakeup'
  <2>1. Tasks \subseteq Pid /\ Tasks' = Tasks
    BY SMTT(60), <1>1, SchedAssumption DEF TypeOK, Tasks, Pid
  <2>2. \A t, u : ExitedChild(t, u)' \subseteq ExitedChild(t, u)
    BY SMTT(60), <1>4, <1>6, <2>1 DEF ExitedChild, Child
  <2>3. ASSUME NEW t \in Pid, state'[t] = "Blocked" PROVE ExitedChild(t, call[t])' = {}
    <3>1. CASE t = c
      BY SMTT(60), <1>7, <2>2, <3>1
    <3>2. CASE t # c
      BY SMTT(60), <1>1, <1>4, <1>6, <1>7, <2>2, <2>3, <3>2 DEF NoLostWakeup
    <3>3. QED
      BY SMTT(60), <3>1, <3>2
  <2>4. QED
    BY <2>3 DEF NoLostWakeup
<1>13. QED
  BY SMTT(60), <1>6, <1>8, <1>9, <1>10, <1>11, <1>12 DEF SchedInv, Placement, Switched

\* Every step keeps the invariant.
LEMMA NextSchedInv ==
    ASSUME IdleSafe, SchedInv, [Next]_vars
    PROVE  SchedInv'
<1>1. CASE Tick
  BY <1>1, SwitchSchedInv DEF Tick
<1>2. ASSUME NEW c \in Pid, Yield(c) PROVE SchedInv'
  BY <1>2, SwitchSchedInv DEF Yield, InUser
<1>3. ASSUME NEW c \in Pid, Spawn(c) PROVE SchedInv'
  BY <1>3, SpawnSchedInv
<1>4. ASSUME NEW c \in Pid, NEW code \in Codes, Exit(c, code) PROVE SchedInv'
  BY <1>4, ExitSchedInv
<1>5. ASSUME NEW c \in Pid, NEW pid \in Pid, NEW code \in Codes, Kill(c, pid, code)
      PROVE  SchedInv'
  BY <1>5, KillSchedInv
<1>6. ASSUME NEW c \in Pid, NEW pid \in 0..MaxPid, Waitpid(c, pid) PROVE SchedInv'
  BY Zenon, <1>6, ParkSchedInv DEF Waitpid, InUser
<1>7. CASE Resume
  <2>0. TypeOK /\ Placement /\ NoLostWakeup
    BY DEF SchedInv
  <2>1. current \in Pid /\ call[current] \in 0..MaxPid /\ current # Idle
    BY <1>7, <2>0 DEF Resume, TypeOK, Placement, TasksSound
  <2>2. CASE ExitedChild(current, call[current]) = {}
    <3>1. /\ BlockOnChildren(current) /\ UNCHANGED call
          /\ UNCHANGED <<parent, exitCode, nextId>>
      BY SMTT(60), <1>7, <2>2 DEF Resume
    <3>2. call' = [call EXCEPT ![current] = call[current]]
      BY SMTT(60), <2>0, <2>1, <3>1 DEF TypeOK
    <3>3. QED
      BY ZenonT(60), <2>1, <2>2, <3>1, <3>2, ParkSchedInv
  <2>3. CASE ExitedChild(current, call[current]) # {}
    <3>1. /\ call' = [call EXCEPT ![current] = NoCall]
          /\ UNCHANGED <<runQueue, current, waitQueue, state, parent, exitCode, nextId>>
      BY SMTT(60), <1>7, <2>3 DEF Resume
    <3>2. /\ call' \in [Pid -> {NoCall} \cup 0..MaxPid] /\ call'[current] = NoCall
          /\ \A t \in Pid : t # current => call'[t] = call[t]
      BY SMTT(60), <2>0, <2>1, <3>1 DEF TypeOK
    <3>3. state[current] # "Blocked"
      BY SMTT(60), <2>0 DEF Placement, CurrentSound
    <3>4. TypeOK'
      BY SMTT(60), <2>0, <3>1, <3>2 DEF TypeOK
    <3>5. RunQueueSound' /\ WaitQueueSound' /\ CurrentSound'
      BY SMTT(60), <2>0, <3>1 DEF Placement, RunQueueSound, WaitQueueSound, CurrentSound, Elems
    <3>6. NoTaskLost'
      BY SMTT(60), <2>0, <3>1, <3>2, <3>3 DEF Placement, NoTaskLost, Elems
    <3>7. TasksSound'
      <4>1. Idle \in Pid
        BY SchedAssumption DEF Idle, Pid
      <4>2. QED
        BY SMTT(60), <2>0, <2>1, <3>1, <3>2, <4>1 DEF Placement, TasksSound
    <3>8. NoLostWakeup'
      BY SMTT(60), <2>0, <3>1, <3>2, <3>3 DEF NoLostWakeup, ExitedChild, Child, Tasks
    <3>9. QED
      BY SMTT(60), <3>4, <3>5, <3>6, <3>7, <3>8 DEF SchedInv, Placement
  <2>4. QED
    BY <2>2, <2>3
<1>8. CASE UNCHANGED vars
  BY <1>8 DEF vars, SchedInv, TypeOK, Placement, RunQueueSound, WaitQueueSound, CurrentSound,
              NoTaskLost, TasksSound, NoLostWakeup, ExitedChild, Child, Tasks, Elems
<1>9. QED
  BY SMTT(60), <1>1, <1>2, <1>3, <1>4, <1>5, <1>6, <1>7, <1>8 DEF Next

----------------------------------------------------------------------------
(* The order of the run queue, and the dead *)

\* A task of queue q that is in queue r too is no further from the head there.
KeepsUp(q, r) ==
    \A i \in DOMAIN q : q[i] \in Elems(r) => \E j \in DOMAIN r : j <= i /\ r[j] = q[i]

\* What every step does: it keeps the order of the run queue, revives a dead task
\* only through a stale entry in a wait queue, and kills no parked task unless
\* it was asked to; a new entry in a wait queue is of a task that is parked.
Orderly ==
    /\ KeepsUp(runQueue, runQueue')
    /\ \A t \in Pid : state[t] = "Dead" => state'[t] = "Dead" \/ \E e \in waitQueue : e[2] = t
    /\ \A t \in Pid : state[t] = "Blocked" /\ state'[t] = "Dead" => "Blocked" \in KillStates
    /\ \A e \in waitQueue' : e \in waitQueue \/ state'[e[2]] = "Blocked"

LEMMA KeepsUpPosition ==
    ASSUME NEW q \in Seq(Pid), NEW r \in Seq(Pid), Inj(r), KeepsUp(q, r),
           NEW t \in Elems(q), t \in Elems(r)
    PROVE  Position(r, t) <= Position(q, t)
<1>1. Position(q, t) \in DOMAIN q /\ q[Position(q, t)] = t
  BY DEF Position, Elems
<1>2. Position(r, t) \in DOMAIN r /\ r[Position(r, t)] = t
  BY DEF Position, Elems
<1>3. PICK j \in DOMAIN r : j <= Position(q, t) /\ r[j] = t
  BY <1>1 DEF KeepsUp
<1>4. Position(r, t) = j
  BY <1>2, <1>3 DEF Inj
<1>5. QED
  BY <1>3, <1>4

\* The longer queue that wake_all makes keeps the order of the shorter one.
LEMMA KeepsUpBehind ==
    ASSUME NEW q \in Seq(Pid), NEW w \in Seq(Pid), NEW r, KeepsUp(q \o w, r)
    PROVE  KeepsUp(q, r)
<1>1. \A i \in DOMAIN q : i \in DOMAIN (q \o w) /\ (q \o w)[i] = q[i]
  BY ConcatProperties, LenProperties
<1>2. QED
  BY <1>1 DEF KeepsUp

\* schedule() takes the head of the queue, so the others move up.
LEMMA ScheduleOrder ==
    ASSUME NEW q \in Seq(Pid), NEW prev \in Pid \cup {None}, NEW st \in [Pid -> TaskState], Inj(q),
           \A t \in Elems(q) : t # prev /\ st[t] = "Ready", Schedule(q, prev, st)
    PROVE  /\ KeepsUp(q, runQueue')
           /\ \A t \in Pid, s \in {"Blocked", "Dead"} : state'[t] = s <=> st[t] = s
<1>0. None \notin Pid /\ Len(q) \in Nat /\ DOMAIN q = 1..Len(q)
  BY LenProperties, SchedAssumption DEF None, Pid
<1>1. CASE q = <<>>
  BY <1>0, <1>1 DEF Schedule, KeepsUp
<1>2. CASE q # <<>>
  <2> DEFINE h == Head(q)
             requeue == prev # None /\ st[prev] \in {"Ready", "Running"}
             r == IF requeue THEN Append(Tail(q), prev) ELSE Tail(q)
  <2>1. /\ runQueue' = r /\ current' = h
        /\ state' = [t \in Pid |-> IF t = h THEN "Running"
                                   ELSE IF requeue /\ t = prev THEN "Ready" ELSE st[t]]
    BY <1>2 DEF Schedule
  <2>2. /\ Tail(q) \in Seq(Pid) /\ Len(Tail(q)) = Len(q) - 1 /\ Len(q) >= 1
        /\ DOMAIN Tail(q) = 1..(Len(q) - 1)
        /\ \A i \in 1..(Len(q) - 1) : Tail(q)[i] = q[i + 1]
        /\ h = q[1] /\ h \in Pid
    BY SMTT(60), <1>0, <1>2, HeadTailProperties, LenProperties
  <2>3. h \in Elems(q) /\ h # prev /\ st[h] = "Ready"
    BY <1>0, <2>2 DEF Elems
  <2>4. /\ \A i \in 1..(Len(q) - 1) : i \in DOMAIN r /\ r[i] = q[i + 1]
        /\ \A i \in DOMAIN r : r[i] = prev \/ \E j \in DOMAIN q : j # 1 /\ r[i] = q[j]
    <3>1. CASE ~requeue
      <4>1. \A i \in 1..(Len(q) - 1) : i + 1 \in DOMAIN q /\ i + 1 # 1
        BY <1>0
      <4>2. QED
        BY <2>2, <3>1, <4>1
    <3>2. CASE requeue
      <4>1. /\ DOMAIN r = 1..Len(q) /\ r[Len(q)] = prev
            /\ \A i \in 1..(Len(q) - 1) : r[i] = q[i + 1]
        BY SMTT(60), <1>0, <2>2, <3>2
      <4> HIDE DEF r
      <4>2. \A i \in 1..(Len(q) - 1) : i + 1 \in DOMAIN q /\ i + 1 # 1 /\ i \in 1..Len(q)
        BY <1>0
      <4>3. \A i \in 1..Len(q) : i = Len(q) \/ i \in 1..(Len(q) - 1)
        <5>1. \A n \in Nat : \A i \in 1..n : i = n \/ i \in 1..(n - 1)
          OBVIOUS
        <5>2. QED
          BY <1>0, <5>1, Zenon
      <4>4. QED
        BY <4>1, <4>2, <4>3
    <3>3. QED
      BY <3>1, <3>2
  <2> HIDE DEF h, r
  <2>5. h \notin Elems(r)
    <3>1. \A j \in DOMAIN q : j # 1 => q[j] # h
      BY <1>0, <2>2 DEF Inj
    <3>2. QED
      BY <2>3, <2>4, <3>1 DEF Elems
  <2>6. ASSUME NEW i \in DOMAIN q, q[i] \in Elems(r) PROVE \E j \in DOMAIN r : j <= i /\ r[j] = q[i]
    <3>1. i # 1
      BY <2>2, <2>5, <2>6
    <3>2. i - 1 \in 1..(Len(q) - 1) /\ (i - 1) + 1 = i /\ i - 1 <= i
      BY <1>0, <3>1
    <3>3. QED
      BY <2>4, <3>2
  <2>7. \A t \in Pid, s \in {"Blocked", "Dead"} : state'[t] = s <=> st[t] = s
    BY <1>0, <2>1, <2>3
  <2>8. QED
    BY <2>1, <2>6, <2>7 DEF KeepsUp
<1>3. QED
  BY <1>1, <1>2

\* swap_remove moves the last task up and leaves the others where they are.
LEMMA RemoveTaskOrder ==
    ASSUME NEW q \in Seq(Pid), NEW pid \in Pid, Inj(q), NEW w \in Seq(Pid), pid \notin Elems(w)
    PROVE  KeepsUp(q, RemoveTask(q, pid) \o w)
<1> DEFINE r == RemoveTask(q, pid)
<1>1. r \in Seq(Pid) /\ Elems(r) = Elems(q) \ {pid} /\ Inj(r)
  BY RemoveTaskProperties
<1>2. Len(q) \in Nat /\ DOMAIN q = 1..Len(q)
  BY LenProperties
<1>3. ASSUME NEW i \in DOMAIN q, q[i] # pid PROVE \E j \in DOMAIN r : j <= i /\ r[j] = q[i]
  <2>1. CASE pid \notin Elems(q)
    BY <1>2, <2>1 DEF RemoveTask
  <2>2. CASE pid \in Elems(q)
    <3> DEFINE k == CHOOSE x \in DOMAIN q : q[x] = pid
    <3>1. k \in DOMAIN q /\ q[k] = pid
      BY <2>2 DEF Elems
    <3>2. r = SwapRemove(q, k)
      BY <2>2 DEF RemoveTask
    <3> HIDE DEF k
    <3>3. r = [j \in 1..(Len(q) - 1) |-> IF j = k THEN q[Len(q)] ELSE q[j]]
      BY <3>2 DEF SwapRemove
    <3> HIDE DEF r
    <3>4. CASE i = Len(q)
      <4>1. k \in 1..(Len(q) - 1) /\ k <= i
        BY <1>2, <1>3, <3>1, <3>4
      <4>2. QED
        BY <3>3, <3>4, <4>1
    <3>5. CASE i # Len(q)
      <4>1. i \in 1..(Len(q) - 1) /\ i <= i /\ i # k
        BY <1>2, <1>3, <3>1, <3>5
      <4>2. QED
        BY <3>3, <4>1
    <3>6. QED
      BY <3>4, <3>5
  <2>3. QED
    BY <2>1, <2>2
<1> HIDE DEF r
<1>4. /\ \A i \in DOMAIN r : i \in DOMAIN (r \o w) /\ (r \o w)[i] = r[i]
      /\ \A i \in DOMAIN (r \o w) : (r \o w)[i] \in Elems(r) \cup Elems(w)
  <2>1. /\ Len(r \o w) = Len(r) + Len(w) /\ r \o w \in Seq(Pid)
        /\ \A i \in 1..(Len(r) + Len(w)) :
              (r \o w)[i] = IF i <= Len(r) THEN r[i] ELSE w[i - Len(r)]
    BY <1>1, ConcatProperties
  <2>2. /\ DOMAIN (r \o w) = 1..(Len(r) + Len(w)) /\ DOMAIN r = 1..Len(r) /\ DOMAIN w = 1..Len(w)
        /\ Len(r) \in Nat /\ Len(w) \in Nat
    BY <1>1, <2>1, LenProperties
  <2>3. ASSUME NEW i \in DOMAIN (r \o w) PROVE (r \o w)[i] \in Elems(r) \cup Elems(w)
    <3>1. CASE i <= Len(r)
      <4>1. i \in DOMAIN r /\ (r \o w)[i] = r[i]
        BY <2>1, <2>2, <3>1
      <4>2. QED
        BY <4>1 DEF Elems
    <3>2. CASE ~(i <= Len(r))
      <4>1. i - Len(r) \in DOMAIN w /\ (r \o w)[i] = w[i - Len(r)]
        BY <2>1, <2>2, <3>2
      <4>2. QED
        BY <4>1 DEF Elems
    <3>3. QED
      BY <3>1, <3>2
  <2>4. \A i \in DOMAIN r : i \in DOMAIN (r \o w) /\ (r \o w)[i] = r[i]
    BY <2>1, <2>2
  <2>5. QED
    BY <2>3, <2>4
<1>5. pid \notin Elems(r \o w)
  BY <1>1, <1>4 DEF Elems
<1>6. ASSUME NEW i \in DOMAIN q, q[i] \in Elems(r \o w)
      PROVE  \E j \in DOMAIN (r \o w) : j <= i /\ (r \o w)[j] = q[i]
  <2>1. PICK j \in DOMAIN r : j <= i /\ r[j] = q[i]
    BY <1>3, <1>5, <1>6
  <2>2. QED
    BY <1>4, <2>1
<1>7. KeepsUp(q, r \o w)
  BY <1>6 DEF KeepsUp
<1>8. QED
  BY <1>7 DEF r

LEMMA QueueSound ==
    ASSUME SchedInv
    PROVE  /\ TypeOK /\ Placement /\ runQueue \in Seq(Pid) /\ Inj(runQueue)
           /\ current \in Pid /\ current \notin Elems(runQueue)
           /\ \A t \in Elems(runQueue) : t \in Pid /\ state[t] = "Ready"
<1>1. TypeOK /\ Placement
  BY DEF SchedInv
<1>2. runQueue \in Seq(Pid) /\ current \in Pid
  BY <1>1 DEF TypeOK, Placement, CurrentSound
<1>3. \A t \in Elems(runQueue) : t \in Pid
  BY <1>2, LenProperties DEF Elems
<1>4. QED
  BY <1>1, <1>2, <1>3, Zenon DEF Placement, RunQueueSound, Inj

\* Tick and Yield.
LEMMA SwitchOrderly ==
    ASSUME SchedInv, Schedule(runQueue, current, state), UNCHANGED waitQueue
    PROVE  Orderly
<1>1. state \in [Pid -> TaskState]
  BY DEF SchedInv, TypeOK
<1>2. /\ KeepsUp(runQueue, runQueue')
      /\ \A t \in Pid, s \in {"Blocked", "Dead"} : state'[t] = s <=> state[t] = s
  BY <1>1, QueueSound, ScheduleOrder
<1>3. QED
  BY <1>2 DEF Orderly

LEMMA SpawnOrderly ==
    ASSUME SchedInv, NEW c \in Pid, Spawn(c)
    PROVE  Orderly
<1>1. /\ TypeOK /\ Placement /\ runQueue \in Seq(Pid) /\ nextId \in Pid
      /\ state \in [Pid -> TaskState] /\ nextId \in Int
  BY QueueSound, SchedAssumption DEF TypeOK, Spawn, Pid
<1>2. /\ state' = [state EXCEPT ![nextId] = "Ready"] /\ state[nextId] = "Unborn"
      /\ runQueue' = Append(runQueue, nextId) /\ UNCHANGED waitQueue
  BY <1>1 DEF Spawn, Placement, TasksSound
<1>3. \A i \in DOMAIN runQueue : i \in DOMAIN runQueue' /\ i <= i /\ runQueue'[i] = runQueue[i]
  BY <1>1, <1>2, LenProperties
<1>4. KeepsUp(runQueue, runQueue')
  BY <1>3 DEF KeepsUp
<1>5. \A t \in Pid, s \in {"Blocked", "Dead"} : state'[t] = s <=> state[t] = s
  BY <1>1, <1>2
<1>6. QED
  BY <1>2, <1>4, <1>5 DEF Orderly

\* The task states after the death of task x, and the tasks it wakes.
LEMMA DeathStates ==
    ASSUME SchedInv, NEW x \in Pid, NEW key
    PROVE  LET st == WakeStates(key, [state EXCEPT ![x] = "Dead"])
           IN  /\ st \in [Pid -> TaskState]
               /\ \A t \in Pid : st[t] = IF t \in Woken(key) THEN "Ready"
                                         ELSE IF t = x THEN "Dead" ELSE state[t]
               /\ \A t \in Woken(key) : \E e \in waitQueue : e[2] = t
               /\ WakeDequeue(key) \subseteq waitQueue
<1>1. state \in [Pid -> TaskState]
  BY DEF SchedInv, TypeOK
<1>2. \A t \in Woken(key) : \E e \in waitQueue : e[2] = t
  <2>1. \A t \in Woken(key) : <<key, t>> \in waitQueue /\ <<key, t>>[2] = t
    BY DEF Woken
  <2>2. QED
    BY <2>1
<1>3. QED
  BY <1>1, <1>2 DEF WakeStates, WakeDequeue, TaskState

LEMMA ExitOrderly ==
    ASSUME SchedInv, NEW c \in Pid, NEW code \in Codes, Exit(c, code)
    PROVE  Orderly
<1> DEFINE key == WaitKey(parent[c])
           st == WakeStates(key, [state EXCEPT ![c] = "Dead"])
<1>1. /\ TypeOK /\ Placement /\ runQueue \in Seq(Pid) /\ Inj(runQueue)
      /\ current \notin Elems(runQueue) /\ \A t \in Elems(runQueue) : t \in Pid /\ state[t] = "Ready"
  BY QueueSound
<1>2. c = current /\ waitQueue' = WakeDequeue(key) /\ state[c] # "Blocked"
  BY <1>1 DEF Exit, InUser, Placement, CurrentSound
<1>3. PICK q \in WakeQueues(key, runQueue) : Schedule(q, None, st)
  BY DEF Exit
<1>4. /\ st \in [Pid -> TaskState]
      /\ \A t \in Pid : st[t] = IF t \in Woken(key) THEN "Ready"
                                ELSE IF t = c THEN "Dead" ELSE state[t]
      /\ \A t \in Woken(key) : \E e \in waitQueue : e[2] = t
      /\ WakeDequeue(key) \subseteq waitQueue
  BY DeathStates
<1> HIDE DEF key, st
<1>5. /\ q \in Seq(Pid) /\ Inj(q) /\ Elems(q) = Elems(runQueue) \cup Woken(key)
      /\ \A t \in Woken(key) : t \in Pid
  BY <1>1, WakeProperties
<1>6. \A t \in Elems(q) : t # None /\ st[t] = "Ready"
  <2>1. None \notin Pid
    BY SchedAssumption DEF None, Pid
  <2>2. QED
    BY <1>1, <1>2, <1>4, <1>5, <2>1
<1>7. /\ KeepsUp(q, runQueue')
      /\ \A t \in Pid, s \in {"Blocked", "Dead"} : state'[t] = s <=> st[t] = s
  BY <1>3, <1>4, <1>5, <1>6, ScheduleOrder
<1>8. KeepsUp(runQueue, runQueue')
  <2>1. PICK w \in Orders(Woken(key)) : q = runQueue \o w
    BY DEF WakeQueues
  <2>2. w \in Seq(Pid)
    BY <1>5, OrdersProperties
  <2>3. QED
    BY <1>1, <1>7, <2>1, <2>2, KeepsUpBehind
<1>9. \A t \in Pid : state[t] = "Dead" => state'[t] = "Dead" \/ \E e \in waitQueue : e[2] = t
  BY <1>4, <1>7
<1>10. \A t \in Pid : state[t] = "Blocked" => state'[t] # "Dead"
  BY <1>2, <1>4, <1>7
<1>11. QED
  BY <1>2, <1>4, <1>8, <1>9, <1>10 DEF Orderly

LEMMA KillOrderly ==
    ASSUME SchedInv, NEW c \in Pid, NEW pid \in Pid, NEW code \in Codes, Kill(c, pid, code)
    PROVE  Orderly
<1> DEFINE key == WaitKey(parent[pid])
           st == WakeStates(key, [state EXCEPT ![pid] = "Dead"])
<1>1. /\ TypeOK /\ Placement /\ runQueue \in Seq(Pid) /\ Inj(runQueue)
      /\ \A t \in Elems(runQueue) : t \in Pid /\ state[t] = "Ready"
  BY QueueSound
<1>2. /\ state[pid] \in KillStates /\ waitQueue' = WakeDequeue(key) /\ state' = st
      /\ runQueue' \in WakeQueues(key, RemoveTask(runQueue, pid))
  BY DEF Kill, Killed
<1>3. /\ st \in [Pid -> TaskState]
      /\ \A t \in Pid : st[t] = IF t \in Woken(key) THEN "Ready"
                                ELSE IF t = pid THEN "Dead" ELSE state[t]
      /\ \A t \in Woken(key) : \E e \in waitQueue : e[2] = t
      /\ WakeDequeue(key) \subseteq waitQueue
  BY DeathStates
<1> HIDE DEF key, st
<1>4. PICK w \in Orders(Woken(key)) : runQueue' = RemoveTask(runQueue, pid) \o w
  BY <1>2 DEF WakeQueues
<1>5. w \in Seq(Pid) /\ Elems(w) = Woken(key)
  <2>1. Woken(key) \subseteq Pid
    BY DEF Woken
  <2>2. QED
    BY <2>1, OrdersProperties
<1>6. KeepsUp(runQueue, runQueue')
  <2>1. CASE pid \notin Woken(key)
    BY <1>1, <1>4, <1>5, <2>1, RemoveTaskOrder
  <2>2. CASE pid \in Woken(key)
    <3>1. state[pid] \in {"Blocked", "Dead"}
      BY <1>1, <2>2 DEF Woken, Placement, WaitQueueSound
    <3>2. pid \notin Elems(runQueue)
      BY <1>1, <3>1
    <3>3. runQueue' = runQueue \o w
      BY <1>4, <3>2 DEF RemoveTask
    <3>4. \A i \in DOMAIN runQueue :
             i \in DOMAIN runQueue' /\ i <= i /\ runQueue'[i] = runQueue[i]
      BY <1>1, <1>5, <3>3, ConcatProperties, LenProperties
    <3>5. QED
      BY <3>4 DEF KeepsUp
  <2>3. QED
    BY <2>1, <2>2
<1>7. \A t \in Pid : state[t] = "Dead" => state'[t] = "Dead" \/ \E e \in waitQueue : e[2] = t
  BY <1>2, <1>3
<1>8. \A t \in Pid : state[t] = "Blocked" /\ state'[t] = "Dead" => "Blocked" \in KillStates
  BY <1>2, <1>3
<1>9. QED
  BY <1>2, <1>3, <1>6, <1>7, <1>8 DEF Orderly

\* Waitpid and Resume.
LEMMA ParkOrderly ==
    ASSUME SchedInv, BlockOnChildren(current)
    PROVE  Orderly
<1> DEFINE st == [state EXCEPT ![current] = "Blocked"]
<1>1. /\ TypeOK /\ Placement /\ runQueue \in Seq(Pid) /\ Inj(runQueue) /\ current \in Pid
      /\ current \notin Elems(runQueue) /\ \A t \in Elems(runQueue) : t \in Pid /\ state[t] = "Ready"
  BY QueueSound
<1>2. /\ waitQueue' = waitQueue \cup {<<WaitKey(current), current>>}
      /\ Schedule(runQueue, current, st)
  BY DEF BlockOnChildren
<1>3. /\ st \in [Pid -> TaskState]
      /\ \A t \in Pid : st[t] = IF t = current THEN "Blocked" ELSE state[t]
  BY <1>1 DEF TypeOK, TaskState
<1> HIDE DEF st
<1>4. \A t \in Elems(runQueue) : t # current /\ st[t] = "Ready"
  BY <1>1, <1>3
<1>5. /\ KeepsUp(runQueue, runQueue')
      /\ \A t \in Pid, s \in {"Blocked", "Dead"} : state'[t] = s <=> st[t] = s
  BY <1>1, <1>2, <1>3, <1>4, ScheduleOrder
<1>6. state[current] # "Dead" /\ state'[current] = "Blocked"
  BY <1>1, <1>3, <1>5 DEF Placement, CurrentSound
<1>7. /\ \A t \in Pid : state[t] = "Dead" => state'[t] = "Dead"
      /\ \A t \in Pid : state[t] = "Blocked" => state'[t] # "Dead"
  BY <1>3, <1>5, <1>6
<1>8. \A e \in waitQueue' : e \in waitQueue \/ state'[e[2]] = "Blocked"
  BY <1>2, <1>6
<1>9. QED
  BY <1>5, <1>7, <1>8 DEF Orderly

LEMMA NextOrderly ==
    ASSUME SchedInv, Next
    PROVE  Orderly
<1>1. CASE Tick
  BY <1>1, SwitchOrderly DEF Tick
<1>2. ASSUME NEW c \in Pid, Yield(c) PROVE Orderly
  BY <1>2, SwitchOrderly DEF Yield, InUser
<1>3. ASSUME NEW c \in Pid, Spawn(c) PROVE Orderly
  BY <1>3, SpawnOrderly
<1>4. ASSUME NEW c \in Pid, NEW code \in Codes, Exit(c, code) PROVE Orderly
  BY <1>4, ExitOrderly
<1>5. ASSUME NEW c \in Pid, NEW pid \in Pid, NEW code \in Codes, Kill(c, pid, code) PROVE Orderly
  BY <1>5, KillOrderly
<1>6. ASSUME NEW c \in Pid, NEW pid \in 0..MaxPid, Waitpid(c, pid) PROVE Orderly
  BY <1>6, ParkOrderly DEF Waitpid, InUser
<1>7. CASE Resume
  <2>1. CASE BlockOnChildren(current)
    BY <2>1, ParkOrderly
  <2>2. CASE UNCHANGED <<runQueue, current, waitQueue, state>>
    <3>1. runQueue \in Seq(Pid)
      BY QueueSound
    <3>2. \A i \in DOMAIN runQueue : i <= i
      BY <3>1, LenProperties
    <3>3. KeepsUp(runQueue, runQueue')
      BY <2>2, <3>2 DEF KeepsUp
    <3>4. QED
      BY <2>2, <3>3 DEF Orderly
  <2>3. QED
    BY <1>7, <2>1, <2>2 DEF Resume
<1>8. QED
  BY <1>1, <1>2, <1>3, <1>4, <1>5, <1>6, <1>7 DEF Next

----------------------------------------------------------------------------
(* Theorems *)

\* The inductive invariant holds in every reachable state.
THEOREM SchedInvariant ==
    ASSUME IdleSafe
    PROVE  Spec => []SchedInv
<1>1. Init => SchedInv
  BY InitSchedInv
<1>2. SchedInv /\ [Next]_vars => SchedInv'
  BY NextSchedInv
<1>3. QED
  BY <1>1, <1>2, PTL DEF Spec

\* The variables keep their types.
THEOREM TypeCorrect ==
    ASSUME IdleSafe
    PROVE  Spec => []TypeOK
<1>1. SchedInv => TypeOK
  BY DEF SchedInv
<1>2. QED
  BY <1>1, SchedInvariant, PTL

\* schedule(), wake_all(), block_on(), kill() and current_exit() keep every
\* live task in exactly one of CURRENT, RUN_QUEUE and WAIT_QUEUES.
THEOREM PlacementHolds ==
    ASSUME IdleSafe
    PROVE  Spec => []Placement
<1>1. SchedInv => Placement
  BY DEF SchedInv
<1>2. QED
  BY <1>1, SchedInvariant, PTL

\* No waitpid sleeps on although the child it waits for has exited.
THEOREM NoLostWakeupHolds ==
    ASSUME IdleSafe
    PROVE  Spec => []NoLostWakeup
<1>1. SchedInv => NoLostWakeup
  BY DEF SchedInv
<1>2. QED
  BY <1>1, SchedInvariant, PTL

\* schedule() takes from the head of the run queue, and enqueue and wake_all push
\* at its end; the swap_remove of kill moves the last task up to the place of the
\* one that is killed: whoever stays queued is never moved back.
THEOREM NoOvertakingHolds ==
    ASSUME IdleSafe
    PROVE  Spec => NoOvertaking
<1> DEFINE A == \A t \in Elems(runQueue) :
                  t \in Elems(runQueue') => Position(runQueue', t) <= Position(runQueue, t)
<1>1. SchedInv /\ SchedInv' /\ [Next]_vars => [A]_vars
  <2> SUFFICES ASSUME SchedInv, SchedInv', Next PROVE A
    OBVIOUS
  <2>1. runQueue \in Seq(Pid) /\ runQueue' \in Seq(Pid) /\ Inj(runQueue')
    BY DEF SchedInv, TypeOK, Placement, RunQueueSound, Inj
  <2>2. KeepsUp(runQueue, runQueue')
    BY NextOrderly DEF Orderly
  <2>3. QED
    BY <2>1, <2>2, KeepsUpPosition
<1>2. QED
  BY <1>1, SchedInvariant, PTL DEF Spec, NoOvertaking

\* The entries of the wait queues are of parked tasks, not of dead ones.
ParkedAlive == \A e \in waitQueue : state[e[2]] = "Blocked"

\* current_exit and kill mark a task dead for good, as long as nobody kills a
\* task that is parked in waitpid: kill leaves its entry in the wait queue, and
\* wake_all would make it ready again.
THEOREM DeadIsFinalHolds ==
    ASSUME IdleSafe, "Blocked" \notin KillStates
    PROVE  Spec => DeadIsFinal
<1> DEFINE A == \A t \in Pid : state[t] = "Dead" => state'[t] = "Dead"
<1>1. Init => ParkedAlive
  BY DEF Init, ParkedAlive
<1>2. SchedInv /\ SchedInv' /\ ParkedAlive /\ [Next]_vars => ParkedAlive' /\ [A]_vars
  <2> SUFFICES ASSUME SchedInv, SchedInv', ParkedAlive, [Next]_vars PROVE ParkedAlive' /\ [A]_vars
    OBVIOUS
  <2>1. CASE UNCHANGED vars
    BY <2>1 DEF vars, ParkedAlive
  <2>2. CASE Next
    <3>1. Orderly
      BY <2>2, NextOrderly
    <3>2. A
      BY <3>1 DEF Orderly, ParkedAlive
    <3>3. ASSUME NEW e \in waitQueue' PROVE state'[e[2]] = "Blocked"
      <4>1. e[2] \in Pid /\ state'[e[2]] \in {"Blocked", "Dead"}
        BY DEF SchedInv, TypeOK, Placement, WaitQueueSound
      <4>2. CASE e \in waitQueue
        BY <3>1, <4>1, <4>2 DEF Orderly, ParkedAlive
      <4>3. CASE e \notin waitQueue
        BY <3>1, <4>3 DEF Orderly
      <4>4. QED
        BY <4>2, <4>3
    <3>4. QED
      BY <3>2, <3>3 DEF ParkedAlive
  <2>3. QED
    BY <2>1, <2>2
<1>3. QED
  BY <1>1, <1>2, SchedInvariant, PTL DEF Spec, DeadIsFinal

=============================================================================
