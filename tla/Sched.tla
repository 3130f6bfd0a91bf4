------------------------------- MODULE Sched -------------------------------
(***************************************************************************)
(* The scheduler and the process life cycle of the kernel:                 *)
(* kernel/src/sched/mod.rs, kernel/src/sched/task.rs and the handlers of   *)
(* spawn, exit, yield, waitpid and kill in kernel/src/syscall.rs.          *)
(*                                                                         *)
(* The kernel runs on one CPU.  A system call runs with interrupts masked  *)
(* (arch/x86_64/syscall.rs, FMASK) and so does the timer handler, so a     *)
(* call is one atomic step up to the point where it gives the CPU away in  *)
(* schedule().  Only waitpid does something after that point: its loop is  *)
(* the action Resume.  The timer interrupts user mode and the idle task    *)
(* only.                                                                   *)
(***************************************************************************)
EXTENDS Integers, Sequences, FiniteSets

CONSTANTS MaxPid,      \* bound: the last process id NEXT_ID hands out
          Codes,       \* the exit codes processes use
          Killable,    \* bound: the processes that kill(pid) is asked for
          KillStates   \* bound: the states in which they are killed

TaskState == {"Ready", "Running", "Blocked", "Dead", "Unborn"}

Idle   == 1            \* the first task kernel/src/main.rs creates
Spring == 2            \* the second one, PID 2 in sys_kill
None   == 0            \* CURRENT = None, and the parent of Idle and Spring
NoCall == -1           \* the task is not inside waitpid
Pid    == 1..MaxPid

ASSUME SchedAssumption ==
    /\ MaxPid \in Nat /\ MaxPid >= 2
    /\ Codes \subseteq Int /\ 0 \in Codes
    /\ Killable \subseteq Pid
    /\ KillStates \subseteq TaskState

VARIABLES runQueue,    \* RUN_QUEUE
          current,     \* CURRENT
          waitQueue,   \* WAIT_QUEUES, as the set of its (key, task) entries
          state,       \* Task::state
          parent,      \* Task::parent
          exitCode,    \* Task::exit_code
          nextId,      \* NEXT_ID; TASKS holds 1..nextId-1 in this order
          call         \* the argument of the waitpid a task is inside of

vars == <<runQueue, current, waitQueue, state, parent, exitCode, nextId, call>>

Tasks == 1..(nextId - 1)
Elems(q) == {q[i] : i \in DOMAIN q}

----------------------------------------------------------------------------
(* Library of sched/mod.rs *)

\* The wait key of a process that waits for its children.
WaitKey(p) == <<"child", p>>

Woken(key) == {t \in Pid : <<key, t>> \in waitQueue}

\* Every order in which the members of S can be pushed onto a queue.
Orders(S) == {w \in [1..Cardinality(S) -> S] :
                 /\ \A i, j \in DOMAIN w : i # j => w[i] # w[j]
                 /\ \A t \in S : \E i \in DOMAIN w : w[i] = t}

\* Faulty variant of WakeQueues: woken tasks enter at the head of the queue.
WakeQueues_AtHead(key, q) == {w \o q : w \in Orders(Woken(key))}

\* wake_all: the entries of the key leave the wait queue and their tasks are
\* pushed onto the run queue q in state Ready, whatever their state was.
WakeStates(key, st) == [t \in Pid |-> IF t \in Woken(key) THEN "Ready" ELSE st[t]]
WakeQueues(key, q)  == {q \o w : w \in Orders(Woken(key))}
WakeDequeue(key)    == {e \in waitQueue : e[1] # key}

\* Faulty variant of Schedule: the preempted task re-enters at the head.
Schedule_AtHead(q, prev, st) ==
    IF q = <<>>
    THEN /\ runQueue' = q /\ current' = prev /\ state' = st
    ELSE LET requeue == prev # None /\ st[prev] \in {"Ready", "Running"}
         IN  /\ runQueue' = IF requeue THEN <<prev>> \o Tail(q) ELSE Tail(q)
             /\ current' = Head(q)
             /\ state' = [t \in Pid |-> IF t = Head(q) THEN "Running"
                                        ELSE IF requeue /\ t = prev THEN "Ready"
                                        ELSE st[t]]

\* schedule() with run queue q, CURRENT = prev and task states st: the head of
\* the queue runs, and prev goes to the back unless it is dead or parked.
Schedule(q, prev, st) ==
    IF q = <<>>
    THEN /\ runQueue' = q
         /\ current' = prev
         /\ state' = st
    ELSE LET requeue == prev # None /\ st[prev] \in {"Ready", "Running"}
         IN  /\ runQueue' = IF requeue THEN Append(Tail(q), prev) ELSE Tail(q)
             /\ current' = Head(q)
             /\ state' = [t \in Pid |-> IF t = Head(q) THEN "Running"
                                        ELSE IF requeue /\ t = prev THEN "Ready"
                                        ELSE st[t]]

\* Vec::swap_remove: the last element takes the place of the removed one.
SwapRemove(q, i) ==
    [j \in 1..(Len(q) - 1) |-> IF j = i THEN q[Len(q)] ELSE q[j]]

\* The removal loop of kill().  A task is on the queue at most once (the
\* invariant Placement), so the loop removes at most one element.
RemoveTask(q, pid) ==
    IF pid \in Elems(q)
    THEN SwapRemove(q, CHOOSE i \in DOMAIN q : q[i] = pid)
    ELSE q

Child(p, pid) == {t \in Tasks : parent[t] = p /\ pid \in {0, t}}
ExitedChild(p, pid) == {t \in Child(p, pid) : state[t] = "Dead"}

----------------------------------------------------------------------------
(* main.rs: idle and Spring are registered and queued, run() enters idle    *)
(* without marking it Running.                                              *)
Init ==
    /\ runQueue = <<Spring>>
    /\ current = Idle
    /\ waitQueue = {}
    /\ state = [t \in Pid |-> IF t \in {Idle, Spring} THEN "Ready" ELSE "Unborn"]
    /\ parent = [t \in Pid |-> None]
    /\ exitCode = [t \in Pid |-> 0]
    /\ nextId = 3
    /\ call = [t \in Pid |-> NoCall]

\* The CPU executes the user program of task c.
InUser(c) == c = current /\ c \notin {None, Idle} /\ call[c] = NoCall

----------------------------------------------------------------------------
\* on_tick(): the timer interrupts the idle loop or a user program.
Tick ==
    /\ InUser(current) \/ current = Idle
    /\ Schedule(runQueue, current, state)
    /\ UNCHANGED <<waitQueue, parent, exitCode, nextId, call>>

\* sys_yield
Yield(c) ==
    /\ InUser(c)
    /\ Schedule(runQueue, c, state)
    /\ UNCHANGED <<waitQueue, parent, exitCode, nextId, call>>

\* Faulty variant of Spawn: the id counter is bumped twice per task.
Spawn_TwoIds(c) ==
    /\ InUser(c)
    /\ nextId <= MaxPid
    /\ nextId' = nextId + 2
    /\ parent' = [parent EXCEPT ![nextId] = c]
    /\ state' = [state EXCEPT ![nextId] = "Ready"]
    /\ runQueue' = Append(runQueue, nextId)
    /\ UNCHANGED <<current, waitQueue, exitCode, call>>

\* sys_spawn of a program that loads: register, then enqueue.
Spawn(c) ==
    /\ InUser(c)
    /\ nextId <= MaxPid
    /\ nextId' = nextId + 1
    /\ parent' = [parent EXCEPT ![nextId] = c]
    /\ state' = [state EXCEPT ![nextId] = "Ready"]
    /\ runQueue' = Append(runQueue, nextId)
    /\ UNCHANGED <<current, waitQueue, exitCode, call>>

\* Faulty variant of Exit: it wakes the waiters for its own children.
Exit_WakesOwnKey(c, code) ==
    /\ InUser(c)
    /\ exitCode' = [exitCode EXCEPT ![c] = code]
    /\ LET key == WaitKey(c)
           st  == [state EXCEPT ![c] = "Dead"]
       IN  /\ waitQueue' = WakeDequeue(key)
           /\ \E q \in WakeQueues(key, runQueue) :
                 Schedule(q, None, WakeStates(key, st))
    /\ UNCHANGED <<parent, nextId, call>>

\* sys_exit, or sys_kill of the caller itself: current_exit.
Exit(c, code) ==
    /\ InUser(c)
    /\ exitCode' = [exitCode EXCEPT ![c] = code]
    /\ LET key == WaitKey(parent[c])
           st  == [state EXCEPT ![c] = "Dead"]
       IN  /\ waitQueue' = WakeDequeue(key)
           /\ \E q \in WakeQueues(key, runQueue) :
                 Schedule(q, None, WakeStates(key, st))
    /\ UNCHANGED <<parent, nextId, call>>

\* Faulty variant of Killed: the task stays on the run queue.
Killed_StaysQueued(pid, code) ==
    /\ exitCode' = [exitCode EXCEPT ![pid] = code]
    /\ LET key == WaitKey(parent[pid])
       IN  /\ runQueue' \in WakeQueues(key, runQueue)
           /\ state' = WakeStates(key, [state EXCEPT ![pid] = "Dead"])
           /\ waitQueue' = WakeDequeue(key)

\* kill(): the task is dead and leaves the run queue, and its parent is woken.
\* An entry of the task in the wait queue stays.
Killed(pid, code) ==
    /\ exitCode' = [exitCode EXCEPT ![pid] = code]
    /\ LET key == WaitKey(parent[pid])
       IN  /\ runQueue' \in WakeQueues(key, RemoveTask(runQueue, pid))
           /\ state' = WakeStates(key, [state EXCEPT ![pid] = "Dead"])
           /\ waitQueue' = WakeDequeue(key)

\* sys_kill of another task: Spring may kill any task, others their children.
Kill(c, pid, code) ==
    /\ InUser(c)
    /\ pid # c /\ pid \in Tasks /\ pid \in Killable /\ state[pid] \in KillStates
    /\ c = Spring \/ parent[pid] = c
    /\ Killed(pid, code)
    /\ UNCHANGED <<current, parent, nextId, call>>

\* block_on(wait_key(c))
BlockOnChildren(c) ==
    /\ waitQueue' = waitQueue \cup {<<WaitKey(c), c>>}
    /\ Schedule(runQueue, c, [state EXCEPT ![c] = "Blocked"])

\* sys_waitpid of a child that has not exited: the caller parks.  The calls
\* that return at once (no such child, an exited child, WNOHANG) change
\* nothing in the kernel: the exited child stays registered and dead.
Waitpid(c, pid) ==
    /\ InUser(c)
    /\ Child(c, pid) # {} /\ ExitedChild(c, pid) = {}
    /\ call' = [call EXCEPT ![c] = pid]
    /\ BlockOnChildren(c)
    /\ UNCHANGED <<parent, exitCode, nextId>>

\* A woken waitpid looks for an exited child again, and returns or parks.
Resume ==
    /\ current # None /\ call[current] # NoCall
    /\ \/ /\ ExitedChild(current, call[current]) # {}
          /\ call' = [call EXCEPT ![current] = NoCall]
          /\ UNCHANGED <<runQueue, current, waitQueue, state>>
       \/ /\ ExitedChild(current, call[current]) = {}
          /\ BlockOnChildren(current)
          /\ UNCHANGED call
    /\ UNCHANGED <<parent, exitCode, nextId>>

Next ==
    \/ Tick
    \/ Resume
    \/ \E c \in Pid :
         \/ Yield(c)
         \/ Spawn(c)
         \/ \E code \in Codes : Exit(c, code)
         \/ \E pid \in Pid, code \in Codes : Kill(c, pid, code)
         \/ \E pid \in 0..MaxPid : Waitpid(c, pid)

Spec == Init /\ [][Next]_vars

\* The timer keeps ticking: a tick that is due while the kernel runs is taken
\* when it returns to user mode, so a tick cannot be postponed for ever by
\* system calls.  The code of a resumed call runs on.
FairSpec == Spec /\ SF_vars(Tick) /\ WF_vars(Resume)

----------------------------------------------------------------------------
(* Properties *)

TypeOK ==
    /\ runQueue \in Seq(Pid)
    /\ current \in Pid \cup {None}
    /\ waitQueue \subseteq {WaitKey(p) : p \in Pid} \X Pid
    /\ state \in [Pid -> TaskState]
    /\ parent \in [Pid -> Pid \cup {None}]
    /\ exitCode \in [Pid -> Codes]
    /\ nextId \in 3..(MaxPid + 1)
    /\ call \in [Pid -> {NoCall} \cup 0..MaxPid]

(* Where the tasks are.  The parts of Placement:                           *)

\* The run queue holds no task twice, and holds ready tasks only.
RunQueueSound ==
    /\ \A i, j \in DOMAIN runQueue : i # j => runQueue[i] # runQueue[j]
    /\ \A t \in Elems(runQueue) : t # current /\ state[t] = "Ready"

\* A task waits under its own key, and neither runs nor is queued to run.
\* It is parked, or was killed while it was.
WaitQueueSound ==
    \A e \in waitQueue : /\ e[1] = WaitKey(e[2])
                         /\ state[e[2]] \in {"Blocked", "Dead"}

\* The CPU has a task, and that task is alive.
CurrentSound == current # None /\ state[current] \in {"Ready", "Running"}

\* No live task is lost: it runs, is queued to run, or is parked in waitpid.
NoTaskLost ==
    \A t \in Pid :
        /\ state[t] = "Running" => t = current
        /\ state[t] = "Ready" => t = current \/ t \in Elems(runQueue)
        /\ state[t] = "Blocked" => <<WaitKey(t), t>> \in waitQueue /\ call[t] # NoCall

\* Ids are handed out in order, and idle stays alive.
TasksSound ==
    /\ \A t \in Pid : state[t] = "Unborn" <=> t >= nextId
    /\ state[Idle] \in {"Ready", "Running"} /\ call[Idle] = NoCall

\* Every task that is neither dead nor unborn is in exactly one of CURRENT,
\* RUN_QUEUE and WAIT_QUEUES, once, and its state says which; so schedule()
\* never runs a task twice, forgets one, or finds the queue empty when the
\* running task exits or parks.  (sched/mod.rs: schedule, kill, block_on,
\* wake_all, current_exit.)
Placement ==
    /\ RunQueueSound
    /\ WaitQueueSound
    /\ CurrentSound
    /\ NoTaskLost
    /\ TasksSound

\* A process parked in waitpid has no exited child it waits for: the exit or
\* the kill of that child has woken it.  (sys_waitpid tests, then parks;
\* current_exit and kill mark the child dead, then wake the parent.)
NoLostWakeup ==
    \A t \in Pid : state[t] = "Blocked" => ExitedChild(t, call[t]) = {}

\* Nobody is moved back in the run queue: whatever is woken, spawned, killed or
\* swap_removed, a task that stays queued never moves away from the head.
\* (sched/mod.rs: schedule, kill, wake_all, enqueue.)
Position(q, t) == CHOOSE i \in DOMAIN q : q[i] = t
NoOvertaking ==
    [][\A t \in Elems(runQueue) :
          t \in Elems(runQueue') => Position(runQueue', t) <= Position(runQueue, t)]_vars

\* A dead task is never made runnable again.  ("Wake every task blocked on
\* `key`", sched/mod.rs:296; "Mark the current task as dead and never schedule
\* it again", sched/mod.rs:206.)
DeadIsFinal ==
    [][\A t \in Pid : state[t] = "Dead" => state'[t] = "Dead"]_vars

\* A task that is ready to run gets the CPU, unless it is killed.  (Round
\* robin of schedule() under the timer tick.)
StarvationFree ==
    \A t \in Pid : state[t] = "Ready" ~> state[t] \in {"Running", "Dead"}

\* waitpid returns once a child it waits for has exited, unless the waiting
\* process is killed.
WaitpidReturns ==
    \A t \in Pid :
        (call[t] # NoCall /\ ExitedChild(t, call[t]) # {})
            ~> (call[t] = NoCall \/ state[t] = "Dead")

=============================================================================
