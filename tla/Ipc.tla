-------------------------------- MODULE Ipc --------------------------------
(***************************************************************************)
(* Capabilities, ports and the name registry: kernel/src/ipc/.             *)
(*                                                                         *)
(* A system call is one atomic step (see Sched), except sys_recv, which    *)
(* parks the caller while its port is empty.  The scheduler appears here   *)
(* as what block_on and wake_all promise: a parked task does nothing until *)
(* a wake-up of its key, and any other task may run next.  A task that has *)
(* exited is one that makes no more calls; its capabilities stay where     *)
(* they are, because the kernel never takes a task out of TASKS.           *)
(*                                                                         *)
(* Calls that fail before they change anything are left out.               *)
(***************************************************************************)
EXTENDS Integers, Sequences, FiniteSets

CONSTANTS Task,           \* the user tasks
          Spring,         \* the one that gets the registrar cap at boot
          Name,           \* the service names
          MaxPort,        \* bound: the number of ports created
          MaxCapId,       \* bound: the ids one cap table hands out
          MAX_IN_FLIGHT,  \* port.rs: messages queued in a port
          MAX_CAPS,       \* port.rs: caps in a message
          ScanLimit       \* the id up to which sys_name looks over free slots

Port  == 1..MaxPort
CapId == 1..MaxCapId
None  == 0

ASSUME IpcAssumption ==
    /\ Spring \in Task
    /\ MaxPort \in Nat /\ MaxCapId \in Nat \ {0}
    /\ MAX_IN_FLIGHT \in Nat \ {0} /\ MAX_CAPS \in Nat /\ ScanLimit \in Nat

VARIABLES slots,     \* CapTable::slots
          next,      \* CapTable::next
          queue,     \* Port::queue
          nextPort,  \* the ports 1..nextPort-1 have been created
          registry,  \* REGISTRY
          receiving, \* the port whose sys_recv a task is inside of
          parked     \* the tasks block_on has parked

vars == <<slots, next, queue, nextPort, registry, receiving, parked>>

Rights == {"SEND", "RECV", "DUP"}
Registrar == [object |-> None, rights |-> {}]
Cap == [object : Port, rights : SUBSET Rights] \cup {Registrar}
NoCap == [object |-> -1, rights |-> {}]        \* an id with no cap behind it

\* Of a message only the caps matter here, not its words and pages.
Message == Seq(Cap)

----------------------------------------------------------------------------
(* cap_table.rs *)

Held(t) == {id \in CapId : slots[t][id] # NoCap}

\* install, once for each cap of the sequence cs, in a table tbl whose next
\* id is n.  CanInstall keeps the ids within the bound MaxCapId.
CanInstall(t, cs) == next[t] + Len(cs) - 1 <= MaxCapId
Installed(tbl, n, cs) ==
    [id \in CapId |-> IF id \in n..(n + Len(cs) - 1) THEN cs[id - n + 1] ELSE tbl[id]]
Install(t, cs) ==
    /\ CanInstall(t, cs)
    /\ slots' = [slots EXCEPT ![t] = Installed(slots[t], next[t], cs)]
    /\ next' = [next EXCEPT ![t] = next[t] + Len(cs)]

Removed(tbl, ids) ==
    [id \in CapId |-> IF \E i \in DOMAIN ids : ids[i] = id THEN NoCap ELSE tbl[id]]

----------------------------------------------------------------------------
Init ==
    /\ slots = [t \in Task |-> [id \in CapId |->
                   IF t = Spring /\ id = 1 THEN Registrar ELSE NoCap]]
    /\ next = [t \in Task |-> IF t = Spring THEN 2 ELSE 1]
    /\ queue = [p \in Port |-> <<>>]
    /\ nextPort = 1
    /\ registry = [n \in Name |-> None]
    /\ receiving = [t \in Task |-> None]
    /\ parked = {}

InUser(t) == receiving[t] = None

----------------------------------------------------------------------------
PortCreate(t) ==
    /\ InUser(t)
    /\ nextPort <= MaxPort
    /\ Install(t, <<[object |-> nextPort, rights |-> Rights]>>)
    /\ nextPort' = nextPort + 1
    /\ UNCHANGED <<queue, registry, receiving, parked>>

CapDrop(t, id) ==
    /\ InUser(t)
    /\ id \in Held(t)
    /\ slots' = [slots EXCEPT ![t][id] = NoCap]
    /\ UNCHANGED <<next, queue, nextPort, registry, receiving, parked>>

\* Faulty variant of CapDup: the copy keeps the RECV right.
CapDup_KeepsRecv(t, id, mask) ==
    /\ InUser(t)
    /\ id \in Held(t) /\ "DUP" \in slots[t][id].rights
    /\ Install(t, <<[slots[t][id] EXCEPT !.rights = @ \cap mask]>>)
    /\ UNCHANGED <<queue, nextPort, registry, receiving, parked>>

CapDup(t, id, mask) ==
    /\ InUser(t)
    /\ id \in Held(t) /\ "DUP" \in slots[t][id].rights
    /\ Install(t, <<[slots[t][id] EXCEPT !.rights = (@ \cap mask) \ {"RECV"}]>>)
    /\ UNCHANGED <<queue, nextPort, registry, receiving, parked>>

----------------------------------------------------------------------------
(* sys_send.  The second pass over the caller's list skips an id it has     *)
(* already taken, so the lists without repetition stand for all of them.    *)

CapLists == UNION {{ids \in [1..n -> CapId] :
                       \A i, j \in 1..n : i # j => ids[i] # ids[j]} : n \in 0..MAX_CAPS}

MaySend(t, id, ids) ==
    /\ InUser(t)
    /\ id \in Held(t) /\ "SEND" \in slots[t][id].rights
    /\ \A i \in DOMAIN ids : ids[i] \in Held(t)

Taken(t, ids) == [i \in DOMAIN ids |-> slots[t][ids[i]]]

\* The pages the caller passes are misaligned (EINVAL) or cannot be taken from
\* its address space (EFAULT): the caps go back into the table, under new ids.
SendRefused(t, id, ids) ==
    /\ MaySend(t, id, ids)
    /\ CanInstall(t, ids)
    /\ slots' = [slots EXCEPT ![t] = Installed(Removed(slots[t], ids), next[t], Taken(t, ids))]
    /\ next' = [next EXCEPT ![t] = next[t] + Len(ids)]
    /\ UNCHANGED <<queue, nextPort, registry, receiving, parked>>

\* Faulty variant of Send: the receiver is not woken.
Send_NoWake(t, id, ids) ==
    /\ MaySend(t, id, ids)
    /\ slots' = [slots EXCEPT ![t] = Removed(slots[t], ids)]
    /\ LET p == slots[t][id].object
       IN  IF Len(queue[p]) >= MAX_IN_FLIGHT
           THEN UNCHANGED <<queue, parked>>
           ELSE queue' = [queue EXCEPT ![p] = Append(@, Taken(t, ids))] /\ UNCHANGED parked
    /\ UNCHANGED <<next, nextPort, registry, receiving>>

\* Faulty variant of Send: the caps are copied, not moved, into the message.
Send_Copies(t, id, ids) ==
    /\ MaySend(t, id, ids)
    /\ LET p == slots[t][id].object
       IN  IF Len(queue[p]) >= MAX_IN_FLIGHT
           THEN UNCHANGED <<queue, parked>>
           ELSE /\ queue' = [queue EXCEPT ![p] = Append(@, Taken(t, ids))]
                /\ parked' = {r \in parked : receiving[r] # p}
    /\ UNCHANGED <<slots, next, nextPort, registry, receiving>>

\* Faulty variant of Send: a full port takes the message all the same.
Send_NoLimit(t, id, ids) ==
    /\ MaySend(t, id, ids)
    /\ slots' = [slots EXCEPT ![t] = Removed(slots[t], ids)]
    /\ LET p == slots[t][id].object
       IN  /\ queue' = [queue EXCEPT ![p] = Append(@, Taken(t, ids))]
           /\ parked' = {r \in parked : receiving[r] # p}
    /\ UNCHANGED <<next, nextPort, registry, receiving>>

\* The message is queued and the receiver woken; or the port is full, and the
\* message is dropped with the caps and pages in it (EAGAIN).
Send(t, id, ids) ==
    /\ MaySend(t, id, ids)
    /\ slots' = [slots EXCEPT ![t] = Removed(slots[t], ids)]
    /\ LET p == slots[t][id].object
       IN  IF Len(queue[p]) >= MAX_IN_FLIGHT
           THEN UNCHANGED <<queue, parked>>
           ELSE /\ queue' = [queue EXCEPT ![p] = Append(@, Taken(t, ids))]
                /\ parked' = {r \in parked : receiving[r] # p}
    /\ UNCHANGED <<next, nextPort, registry, receiving>>

----------------------------------------------------------------------------
(* sys_recv *)

\* What follows the pop: the caps are installed, or dropped with the whole
\* message when the caller has no room for them (E2BIG).  A failure to map the
\* pages (ENOMEM) comes after the caps have been installed.
Deliver(t, p, room) ==
    LET cs == Head(queue[p])
    IN  /\ queue' = [queue EXCEPT ![p] = Tail(@)]
        /\ IF room < Len(cs) THEN UNCHANGED <<slots, next>> ELSE Install(t, cs)
        /\ receiving' = [receiving EXCEPT ![t] = None]
        /\ UNCHANGED parked

\* One turn of the loop around port.pop().
PopOrPark(t, p, room) ==
    \/ queue[p] # <<>> /\ Deliver(t, p, room)
    \/ /\ queue[p] = <<>>
       /\ receiving' = [receiving EXCEPT ![t] = p]
       /\ parked' = parked \cup {t}
       /\ UNCHANGED <<slots, next, queue>>

Recv(t, id, room) ==
    /\ InUser(t)
    /\ id \in Held(t) /\ "RECV" \in slots[t][id].rights
    /\ PopOrPark(t, slots[t][id].object, room)
    /\ UNCHANGED <<nextPort, registry>>

RecvResume(t, room) ==
    /\ ~InUser(t) /\ t \notin parked
    /\ PopOrPark(t, receiving[t], room)
    /\ UNCHANGED <<nextPort, registry>>

----------------------------------------------------------------------------
(* sys_name and registry.rs *)

\* The scan goes up the ids and ends at the first free one past ScanLimit.
HasRegistrar(t) ==
    \E id \in Held(t) :
        /\ slots[t][id] = Registrar
        /\ \A free \in CapId \ Held(t) : free < id => free <= ScanLimit

Publish(t, id, name) ==
    /\ InUser(t)
    /\ id \in Held(t) /\ slots[t][id] # Registrar
    /\ HasRegistrar(t)
    /\ registry[name] = None
    /\ registry' = [registry EXCEPT ![name] = slots[t][id].object]
    /\ UNCHANGED <<slots, next, queue, nextPort, receiving, parked>>

\* Faulty variant of Lookup: the cap has the rights of the published one.
Lookup_FullRights(t, name) ==
    /\ InUser(t)
    /\ registry[name] # None
    /\ Install(t, <<[object |-> registry[name], rights |-> Rights]>>)
    /\ UNCHANGED <<queue, nextPort, registry, receiving, parked>>

Lookup(t, name) ==
    /\ InUser(t)
    /\ registry[name] # None
    /\ Install(t, <<[object |-> registry[name], rights |-> {"SEND"}]>>)
    /\ UNCHANGED <<queue, nextPort, registry, receiving, parked>>

----------------------------------------------------------------------------
Next ==
    \E t \in Task :
        \/ PortCreate(t)
        \/ \E id \in CapId :
             \/ CapDrop(t, id)
             \/ \E mask \in SUBSET Rights : CapDup(t, id, mask)
             \/ \E ids \in CapLists : Send(t, id, ids) \/ SendRefused(t, id, ids)
             \/ \E room \in 0..MAX_CAPS : Recv(t, id, room)
             \/ \E name \in Name : Publish(t, id, name)
        \/ \E room \in 0..MAX_CAPS : RecvResume(t, room)
        \/ \E name \in Name : Lookup(t, name)

Spec == Init /\ [][Next]_vars

\* A woken task gets the CPU (StarvationFree of Sched) and runs on.
FairSpec == Spec /\ \A t \in Task : WF_vars(\E room \in 0..MAX_CAPS : RecvResume(t, room))

----------------------------------------------------------------------------
(* Properties *)

TypeOK ==
    /\ slots \in [Task -> [CapId -> Cap \cup {NoCap}]]
    /\ next \in [Task -> 1..(MaxCapId + 1)]
    /\ \A t \in Task, id \in CapId : id >= next[t] => slots[t][id] = NoCap
    /\ queue \in [Port -> Seq(Message)]
    /\ \A p \in Port : Len(queue[p]) <= MAX_IN_FLIGHT
    /\ nextPort \in 1..(MaxPort + 1)
    /\ registry \in [Name -> Port \cup {None}]
    /\ receiving \in [Task -> Port \cup {None}]
    /\ parked \subseteq {t \in Task : receiving[t] # None}

\* At most one of the caps in L exists, counting the slots of all cap tables
\* and the caps inside queued messages.
AtMostOne(L) ==
    /\ \A t, u \in Task : \A i, j \in CapId :
          slots[t][i] \in L /\ slots[u][j] \in L => t = u /\ i = j
    /\ \A p, q \in Port : \A m \in DOMAIN queue[p], n \in DOMAIN queue[q] :
          \A k \in DOMAIN queue[p][m], l \in DOMAIN queue[q][n] :
             queue[p][m][k] \in L /\ queue[q][n][l] \in L => p = q /\ m = n /\ k = l
    /\ \A t \in Task, i \in CapId, p \in Port : \A m \in DOMAIN queue[p] :
          \A k \in DOMAIN queue[p][m] : ~(slots[t][i] \in L /\ queue[p][m][k] \in L)

RecvCaps(p) == {c \in Cap : c.object = p /\ "RECV" \in c.rights}

\* "At most one live cap in the whole system carries this bit for a given
\* port" (cap.rs:18): whatever is created, duplicated, moved by a message,
\* given back by a refused send or dropped, a port has one RECV cap at most.
UniqueRecv == \A p \in Port : AtMostOne(RecvCaps(p))

\* The registrar cap is "minted once at boot" (cap.rs:34), and no sequence of
\* transfers makes a second one.
UniqueRegistrar == AtMostOne({Registrar})

\* A port has one receiver at a time, as WAIT_QUEUES expects (sched/mod.rs:37):
\* while a task is inside sys_recv it keeps the RECV cap it entered with, and
\* nobody else is inside sys_recv of that port.
SoleReceiver ==
    /\ \A t \in Task : receiving[t] # None =>
          \E id \in CapId : slots[t][id] \in RecvCaps(receiving[t])
    /\ \A t, u \in Task : receiving[t] = receiving[u] /\ receiving[t] # None => t = u

\* No lost wake-up: a receiver is parked on an empty port only.  (sys_recv
\* pops, then parks; sys_send pushes, then wakes.)
ParkedPortEmpty == \A t \in parked : queue[receiving[t]] = <<>>

\* A message in the port of a blocked receiver is delivered: sys_recv returns.
ReceiverReturns ==
    \A t \in Task, p \in Port :
        (receiving[t] = p /\ queue[p] # <<>>) ~> receiving[t] = None

\* A send that fails because of its pages leaves the caller its caps, under the
\* ids it knows them by.  ("Restore any caps we already moved; the caller
\* shouldn't lose them on EINVAL", syscalls.rs:154.)
RefusedSendKeepsCaps ==
    [][\A t \in Task, id \in CapId, ids \in CapLists : SendRefused(t, id, ids) =>
          \A i \in DOMAIN ids : slots'[t][ids[i]] = slots[t][ids[i]]]_vars

=============================================================================
