----------------------------- MODULE IpcProofs -----------------------------
(***************************************************************************)
(* Proofs about Ipc, for any tasks, names, ports and table sizes: a port   *)
(* has at most one RECV cap, there is at most one registrar cap, a port    *)
(* has at most one receiver, and no receiver sleeps beside a message.      *)
(***************************************************************************)
EXTENDS Ipc, SequenceTheorems, TLAPS

----------------------------------------------------------------------------
(* The operators of the module *)

\* A position of a queue one longer, other than the last, is one of the queue.
LEMMA BelowTop ==
    ASSUME NEW n \in Nat, NEW m \in 1..(n + 1), m # n + 1
    PROVE  m \in 1..n
  OBVIOUS

\* The cap list of a send is a sequence of ids without repetition.
\* What Append does to the elements and the domain of a sequence.
LEMMA AppendFacts ==
    ASSUME NEW S, NEW seq \in Seq(S), NEW e \in S
    PROVE  /\ Len(seq) \in Nat /\ DOMAIN seq = 1..Len(seq) /\ Append(seq, e) \in Seq(S)
           /\ Len(Append(seq, e)) = Len(seq) + 1
           /\ DOMAIN Append(seq, e) = 1..(Len(seq) + 1)
           /\ \A m \in 1..Len(seq) : Append(seq, e)[m] = seq[m]
           /\ Append(seq, e)[Len(seq) + 1] = e
  BY AppendProperties, LenProperties

LEMMA CapListProperties ==
    ASSUME NEW ids \in CapLists
    PROVE  /\ ids \in Seq(CapId) /\ Len(ids) \in Nat /\ DOMAIN ids = 1..Len(ids)
           /\ \A i, j \in DOMAIN ids : i # j => ids[i] # ids[j]
<1>1. PICK n \in 0..MAX_CAPS : /\ ids \in [1..n -> CapId]
                               /\ \A i, j \in 1..n : i # j => ids[i] # ids[j]
  BY DEF CapLists
<1>2. n \in Nat
  BY IpcAssumption
<1>3. ids \in Seq(CapId) /\ Len(ids) = n /\ DOMAIN ids = 1..n
  BY <1>1, <1>2
<1>4. QED
  BY <1>1, <1>2, <1>3

\* The caps taken out of the table are the ones the list names, in its order.
LEMMA TakenProperties ==
    ASSUME TypeOK, NEW t \in Task, NEW id, NEW ids \in CapLists, MaySend(t, id, ids)
    PROVE  /\ Taken(t, ids) \in Seq(Cap) /\ Len(Taken(t, ids)) = Len(ids)
           /\ DOMAIN Taken(t, ids) = DOMAIN ids
           /\ \A i \in DOMAIN ids : ids[i] \in CapId /\ Taken(t, ids)[i] = slots[t][ids[i]]
<1>1. ids \in Seq(CapId) /\ Len(ids) \in Nat /\ DOMAIN ids = 1..Len(ids)
  BY CapListProperties
<1>2. \A i \in 1..Len(ids) : ids[i] \in CapId /\ slots[t][ids[i]] \in Cap
  BY <1>1 DEF MaySend, Held, TypeOK
<1>3. Taken(t, ids) = [i \in 1..Len(ids) |-> slots[t][ids[i]]]
  BY <1>1 DEF Taken
<1>4. Taken(t, ids) \in [1..Len(ids) -> Cap]
  BY <1>2, <1>3
<1>5. Taken(t, ids) \in Seq(Cap) /\ Len(Taken(t, ids)) = Len(ids)
  BY <1>1, <1>4
<1>6. QED
  BY <1>1, <1>2, <1>3, <1>5

\* The parts of TypeOK that speak of cap tables and ports, after a step that
\* installs caps in one table.
TablesOK ==
    /\ slots \in [Task -> [CapId -> Cap \cup {NoCap}]]
    /\ next \in [Task -> 1..(MaxCapId + 1)]
    /\ \A t \in Task, id \in CapId : id >= next[t] => slots[t][id] = NoCap

\* install keeps the table in order, whatever was removed from it before.
LEMMA InstalledTables ==
    ASSUME TablesOK, NEW t \in Task, NEW cs \in Seq(Cap), CanInstall(t, cs),
           NEW tbl \in [CapId -> Cap \cup {NoCap}],
           \A id \in CapId : id >= next[t] => tbl[id] = NoCap,
           slots' = [slots EXCEPT ![t] = Installed(tbl, next[t], cs)],
           next' = [next EXCEPT ![t] = next[t] + Len(cs)]
    PROVE  /\ TablesOK'
           /\ \A id \in CapId : slots'[t][id] =
                 IF id \in next[t]..(next[t] + Len(cs) - 1) THEN cs[id - next[t] + 1] ELSE tbl[id]
           /\ \A u \in Task : u # t => slots'[u] = slots[u]
<1> DEFINE n == next[t]
           new == Installed(tbl, n, cs)
<1>0. n \in 1..(MaxCapId + 1) /\ n \in Int /\ MaxCapId \in Int /\ Len(cs) \in Nat
  BY IpcAssumption, LenProperties DEF TablesOK
<1>1. \A id \in n..(n + Len(cs) - 1) : id - n + 1 \in 1..Len(cs) /\ cs[id - n + 1] \in Cap
  BY SMTT(60), <1>0, LenProperties, ElementOfSeq
<1>2. \A id \in CapId : new[id] = IF id \in n..(n + Len(cs) - 1) THEN cs[id - n + 1] ELSE tbl[id]
  BY DEF Installed
<1>3. new \in [CapId -> Cap \cup {NoCap}]
  BY <1>1 DEF Installed
<1>4. slots' = [slots EXCEPT ![t] = new] /\ next' = [next EXCEPT ![t] = n + Len(cs)]
  OBVIOUS
<1> HIDE DEF new
<1>5. slots' \in [Task -> [CapId -> Cap \cup {NoCap}]] /\ slots'[t] = new
      /\ \A u \in Task : u # t => slots'[u] = slots[u]
  BY <1>3, <1>4 DEF TablesOK
<1>6. n + Len(cs) \in 1..(MaxCapId + 1)
  BY <1>0 DEF CanInstall
<1>7. next' \in [Task -> 1..(MaxCapId + 1)] /\ next'[t] = n + Len(cs)
      /\ \A u \in Task : u # t => next'[u] = next[u]
  BY <1>4, <1>6 DEF TablesOK
<1>8. ASSUME NEW u \in Task, NEW id \in CapId, id >= next'[u] PROVE slots'[u][id] = NoCap
  <2>1. CASE u = t
    <3>1. id \in Int /\ id >= n + Len(cs)
      BY <1>7, <1>8, <2>1 DEF CapId
    <3>2. id >= n /\ id \notin n..(n + Len(cs) - 1)
      BY <1>0, <3>1
    <3>3. QED
      BY <1>2, <1>5, <2>1, <3>2
  <2>2. CASE u # t
    BY <1>5, <1>7, <1>8, <2>2 DEF TablesOK
  <2>3. QED
    BY <2>1, <2>2
<1>9. QED
  BY <1>2, <1>5, <1>7, <1>8 DEF TablesOK

----------------------------------------------------------------------------
(* At most one: what each kind of step does to the caps of a set L *)

\* Steps that put no cap of L anywhere.
LEMMA FewerCaps ==
    ASSUME NEW L, AtMostOne(L), queue' = queue,
           \A u \in Task, id \in CapId : slots'[u][id] \in L => slots[u][id] \in L
    PROVE  AtMostOne(L)'
BY SMTT(60) DEF AtMostOne

\* A send that is queued moves caps from a table to the back of a port.
LEMMA SendMoves ==
    ASSUME TypeOK, NEW L, NoCap \notin L, AtMostOne(L),
           NEW t \in Task, NEW id, NEW ids \in CapLists, MaySend(t, id, ids), NEW p \in Port,
           slots' = [slots EXCEPT ![t] = Removed(slots[t], ids)],
           queue' = [queue EXCEPT ![p] = Append(queue[p], Taken(t, ids))]
    PROVE  AtMostOne(L)'
<1> DEFINE msg == Taken(t, ids)
<1>1. /\ msg \in Seq(Cap) /\ DOMAIN msg = DOMAIN ids
      /\ \A i \in DOMAIN ids : ids[i] \in CapId /\ msg[i] = slots[t][ids[i]]
  BY TakenProperties
<1>2. \A i, j \in DOMAIN ids : i # j => ids[i] # ids[j]
  BY CapListProperties
<1> HIDE DEF msg
<1>3. /\ Len(queue[p]) \in Nat /\ DOMAIN queue[p] = 1..Len(queue[p])
      /\ DOMAIN queue'[p] = 1..(Len(queue[p]) + 1)
      /\ \A m \in 1..Len(queue[p]) : queue'[p][m] = queue[p][m]
      /\ queue'[p][Len(queue[p]) + 1] = msg
      /\ \A q \in Port : q # p => queue'[q] = queue[q]
  <2>1. queue[p] \in Seq(Message) /\ msg \in Message
    BY <1>1 DEF TypeOK, Message
  <2>2. queue'[p] = Append(queue[p], msg) /\ \A q \in Port : q # p => queue'[q] = queue[q]
    BY DEF TypeOK, msg
  <2>3. QED
    BY <2>1, <2>2, AppendProperties, LenProperties
<1>4. ASSUME NEW u \in Task, NEW i \in CapId, slots'[u][i] \in L
      PROVE  slots[u][i] \in L /\ (u = t => \A k \in DOMAIN ids : ids[k] # i)
  BY <1>4 DEF TypeOK, Removed
<1>5. ASSUME NEW q \in Port, NEW m \in DOMAIN queue'[q]
      PROVE  \/ m \in DOMAIN queue[q] /\ queue'[q][m] = queue[q][m]
             \/ q = p /\ m = Len(queue[p]) + 1 /\ queue'[q][m] = msg
  <2>1. CASE q = p
    BY <1>3, <1>5, <2>1
  <2>2. CASE q # p
    BY <1>3, <1>5, <2>2
  <2>3. QED
    BY <2>1, <2>2
<1>6. \A u, v \in Task : \A i, j \in CapId :
         slots'[u][i] \in L /\ slots'[v][j] \in L => u = v /\ i = j
  BY <1>4 DEF AtMostOne
<1>7. ASSUME NEW q \in Port, NEW r \in Port,
             NEW m \in DOMAIN queue'[q], NEW n \in DOMAIN queue'[r],
             NEW k \in DOMAIN queue'[q][m], NEW l \in DOMAIN queue'[r][n],
             queue'[q][m][k] \in L, queue'[r][n][l] \in L
      PROVE  q = r /\ m = n /\ k = l
  <2>1. CASE /\ m \in DOMAIN queue[q] /\ queue'[q][m] = queue[q][m]
             /\ n \in DOMAIN queue[r] /\ queue'[r][n] = queue[r][n]
    BY SMTT(60), <1>7, <2>1 DEF AtMostOne
  <2>2. CASE /\ m \in DOMAIN queue[q] /\ queue'[q][m] = queue[q][m]
             /\ queue'[r][n] = msg
    BY SMTT(60), <1>1, <1>7, <2>2 DEF AtMostOne
  <2>3. CASE /\ n \in DOMAIN queue[r] /\ queue'[r][n] = queue[r][n]
             /\ queue'[q][m] = msg
    BY SMTT(60), <1>1, <1>7, <2>3 DEF AtMostOne
  <2>4. CASE /\ q = p /\ r = p /\ m = Len(queue[p]) + 1 /\ n = Len(queue[p]) + 1
             /\ queue'[q][m] = msg /\ queue'[r][n] = msg
    <3>1. slots[t][ids[k]] \in L /\ slots[t][ids[l]] \in L /\ k \in DOMAIN ids /\ l \in DOMAIN ids
      BY <1>1, <1>7, <2>4
    <3>2. ids[k] = ids[l]
      BY <1>1, <3>1 DEF AtMostOne
    <3>3. QED
      BY <1>2, <2>4, <3>1, <3>2
  <2>5. QED
    BY SMTT(60), <1>5, <2>1, <2>2, <2>3, <2>4
<1>8. ASSUME NEW u \in Task, NEW i \in CapId, NEW q \in Port, NEW m \in DOMAIN queue'[q],
             NEW k \in DOMAIN queue'[q][m], slots'[u][i] \in L, queue'[q][m][k] \in L
      PROVE  FALSE
  <2>1. CASE m \in DOMAIN queue[q] /\ queue'[q][m] = queue[q][m]
    BY <1>4, <1>8, <2>1 DEF AtMostOne
  <2>2. CASE queue'[q][m] = msg
    <3>1. slots[t][ids[k]] \in L /\ k \in DOMAIN ids /\ ids[k] \in CapId
      BY SMTT(60), <1>1, <1>8, <2>2
    <3>2. u = t /\ i = ids[k]
      BY SMTT(60), <1>4, <1>8, <3>1 DEF AtMostOne
    <3>3. QED
      BY SMTT(60), <1>4, <1>8, <3>1, <3>2
  <2>3. QED
    BY <1>5, <2>1, <2>2
<1>9. QED
  BY <1>6, <1>7, <1>8 DEF AtMostOne

\* A refused send moves caps to new ids of the same table.
LEMMA RefusedMoves ==
    ASSUME TypeOK, NEW L, NoCap \notin L, AtMostOne(L),
           NEW t \in Task, NEW id, NEW ids \in CapLists, SendRefused(t, id, ids)
    PROVE  AtMostOne(L)'
<1> DEFINE n == next[t]
           cs == Taken(t, ids)
           tbl == Removed(slots[t], ids)
<1>1. MaySend(t, id, ids) /\ CanInstall(t, ids) /\ queue' = queue
  BY DEF SendRefused
<1>2. /\ cs \in Seq(Cap) /\ Len(cs) = Len(ids)
      /\ \A i \in DOMAIN ids : ids[i] \in CapId /\ cs[i] = slots[t][ids[i]]
      /\ Len(ids) \in Nat /\ DOMAIN ids = 1..Len(ids)
      /\ \A i, j \in DOMAIN ids : i # j => ids[i] # ids[j]
  BY <1>1, TakenProperties, CapListProperties
<1>3. /\ tbl \in [CapId -> Cap \cup {NoCap}]
      /\ \A i \in CapId : tbl[i] = IF \E k \in DOMAIN ids : ids[k] = i THEN NoCap ELSE slots[t][i]
      /\ \A i \in CapId : i >= n => tbl[i] = NoCap
  BY DEF Removed, TypeOK
<1>4. /\ slots' = [slots EXCEPT ![t] = Installed(tbl, n, cs)]
      /\ next' = [next EXCEPT ![t] = n + Len(cs)] /\ CanInstall(t, cs)
  BY <1>1, <1>2 DEF SendRefused, CanInstall
<1> HIDE DEF cs, tbl
<1>5. /\ \A i \in CapId : slots'[t][i] =
            IF i \in n..(n + Len(cs) - 1) THEN cs[i - n + 1] ELSE tbl[i]
      /\ \A u \in Task : u # t => slots'[u] = slots[u]
  <2>1. TablesOK
    BY DEF TypeOK, TablesOK
  <2>2. \A i \in CapId : i >= next[t] => tbl[i] = NoCap
    BY SMTT(60), <1>3
  <2>3. t \in Task /\ cs \in Seq(Cap) /\ CanInstall(t, cs) /\ tbl \in [CapId -> Cap \cup {NoCap}]
    BY <1>2, <1>3, <1>4
  <2>4. /\ slots' = [slots EXCEPT ![t] = Installed(tbl, next[t], cs)]
        /\ next' = [next EXCEPT ![t] = next[t] + Len(cs)]
    BY <1>4
  <2>5. QED
    BY ONLY ZenonT(60), <2>1, <2>2, <2>3, <2>4, InstalledTables
<1>6. n \in Int /\ n >= 1
  BY DEF TypeOK
\* Where a cap of L in the new table was before: either at an id that the
\* list names, or at the same id, which the list then does not name.
<1>7. ASSUME NEW i \in CapId, slots'[t][i] \in L
      PROVE  \/ /\ i - n + 1 \in DOMAIN ids /\ slots[t][ids[i - n + 1]] \in L
             \/ /\ slots[t][i] \in L /\ \A k \in DOMAIN ids : ids[k] # i
  <2>1. i \in Int
    BY DEF CapId
  <2>2. CASE i \in n..(n + Len(cs) - 1)
    BY SMTT(60), <1>2, <1>5, <1>6, <1>7, <2>1, <2>2
  <2>3. CASE i \notin n..(n + Len(cs) - 1)
    BY <1>3, <1>5, <1>7, <2>3
  <2>4. QED
    BY <2>2, <2>3
<1>8. ASSUME NEW i \in CapId, slots'[t][i] \in L PROVE \E j \in CapId : slots[t][j] \in L
  BY <1>2, <1>7, <1>8
<1>9. ASSUME NEW i \in CapId, NEW j \in CapId, slots'[t][i] \in L, slots'[t][j] \in L PROVE i = j
  <2>0. i \in Int /\ j \in Int
    BY DEF CapId
  <2>1. CASE /\ i - n + 1 \in DOMAIN ids /\ slots[t][ids[i - n + 1]] \in L
             /\ j - n + 1 \in DOMAIN ids /\ slots[t][ids[j - n + 1]] \in L
    <3>1. ids[i - n + 1] = ids[j - n + 1]
      BY <1>2, <2>1 DEF AtMostOne
    <3>2. i - n + 1 = j - n + 1
      BY <1>2, <2>1, <3>1
    <3>3. QED
      BY <1>6, <2>0, <3>2
  <2>2. CASE /\ i - n + 1 \in DOMAIN ids /\ slots[t][ids[i - n + 1]] \in L
             /\ slots[t][j] \in L /\ \A k \in DOMAIN ids : ids[k] # j
    BY SMTT(60), <1>2, <2>2 DEF AtMostOne
  <2>3. CASE /\ j - n + 1 \in DOMAIN ids /\ slots[t][ids[j - n + 1]] \in L
             /\ slots[t][i] \in L /\ \A k \in DOMAIN ids : ids[k] # i
    BY <1>2, <2>3 DEF AtMostOne
  <2>4. CASE slots[t][i] \in L /\ slots[t][j] \in L
    BY <2>4 DEF AtMostOne
  <2>5. QED
    BY <1>7, <1>9, <2>1, <2>2, <2>3, <2>4
<1>10. ASSUME NEW u \in Task, NEW v \in Task, NEW i \in CapId, NEW j \in CapId,
              slots'[u][i] \in L, slots'[v][j] \in L
       PROVE  u = v /\ i = j
  <2>1. u = v
    BY <1>5, <1>8, <1>10 DEF AtMostOne
  <2>2. CASE u = t
    BY SMTT(60), <1>9, <1>10, <2>1, <2>2
  <2>3. CASE u # t
    BY <1>5, <1>10, <2>1, <2>3 DEF AtMostOne
  <2>4. QED
    BY SMTT(60), <2>1, <2>2, <2>3
<1>11. ASSUME NEW u \in Task, NEW i \in CapId, NEW q \in Port, NEW m \in DOMAIN queue[q],
              NEW k \in DOMAIN queue[q][m], slots'[u][i] \in L, queue[q][m][k] \in L
       PROVE  FALSE
  <2>1. CASE u = t
    BY SMTT(60), <1>8, <1>11, <2>1 DEF AtMostOne
  <2>2. CASE u # t
    BY <1>5, <1>11, <2>2 DEF AtMostOne
  <2>3. QED
    BY SMTT(60), <2>1, <2>2
<1>12. QED
  BY <1>1, <1>10, <1>11 DEF AtMostOne

\* The first message of a port, and what is left when it is popped.
LEMMA PopProperties ==
    ASSUME TypeOK, NEW p \in Port, queue[p] # <<>>, queue' = [queue EXCEPT ![p] = Tail(queue[p])]
    PROVE  /\ 1 \in DOMAIN queue[p] /\ Head(queue[p]) = queue[p][1] /\ Head(queue[p]) \in Seq(Cap)
           /\ queue' \in [Port -> Seq(Message)] /\ Len(queue'[p]) <= MAX_IN_FLIGHT
           /\ \A m \in DOMAIN queue'[p] : /\ m \in Nat /\ m >= 1 /\ m + 1 \in DOMAIN queue[p]
                                          /\ queue'[p][m] = queue[p][m + 1]
           /\ \A q \in Port : q # p => queue'[q] = queue[q]
<1>1. queue[p] \in Seq(Message) /\ Len(queue[p]) <= MAX_IN_FLIGHT /\ MAX_IN_FLIGHT \in Int
  BY IpcAssumption DEF TypeOK
<1>2. /\ Head(queue[p]) \in Message /\ Tail(queue[p]) \in Seq(Message)
      /\ Len(Tail(queue[p])) = Len(queue[p]) - 1
      /\ \A i \in 1..Len(Tail(queue[p])) : Tail(queue[p])[i] = queue[p][i + 1]
  BY <1>1, HeadTailProperties
<1>3. Len(queue[p]) \in Nat /\ Len(queue[p]) >= 1 /\ DOMAIN queue[p] = 1..Len(queue[p])
      /\ DOMAIN Tail(queue[p]) = 1..(Len(queue[p]) - 1) /\ Head(queue[p]) = queue[p][1]
  BY <1>1, <1>2, LenProperties, EmptySeq
<1>4. queue'[p] = Tail(queue[p]) /\ \A q \in Port : q # p => queue'[q] = queue[q]
  BY DEF TypeOK
<1>5. queue' \in [Port -> Seq(Message)]
  BY ZenonT(60), <1>2 DEF TypeOK
<1>6. QED
  BY SMTT(60), <1>1, <1>2, <1>3, <1>4, <1>5 DEF Message

\* A message that is popped and thrown away.
LEMMA DropsMessage ==
    ASSUME TypeOK, NEW L, AtMostOne(L), NEW p \in Port, queue[p] # <<>>,
           queue' = [queue EXCEPT ![p] = Tail(queue[p])], slots' = slots
    PROVE  AtMostOne(L)'
<1>1. \A m \in DOMAIN queue'[p] : /\ m \in Nat /\ m >= 1 /\ m + 1 \in DOMAIN queue[p]
                                 /\ queue'[p][m] = queue[p][m + 1]
  BY Zenon, PopProperties
<1>2. \A q \in Port : q # p => queue'[q] = queue[q]
  BY PopProperties
<1>3. ASSUME NEW q \in Port, NEW r \in Port,
             NEW m \in DOMAIN queue'[q], NEW n \in DOMAIN queue'[r],
             NEW k \in DOMAIN queue'[q][m], NEW l \in DOMAIN queue'[r][n],
             queue'[q][m][k] \in L, queue'[r][n][l] \in L
      PROVE  q = r /\ m = n /\ k = l
  <2>1. CASE q = p /\ r = p
    BY SMTT(60), <1>1, <1>3, <2>1 DEF AtMostOne
  <2>2. CASE q = p /\ r # p
    BY SMTT(60), <1>1, <1>2, <1>3, <2>2 DEF AtMostOne
  <2>3. CASE q # p /\ r = p
    BY SMTT(60), <1>1, <1>2, <1>3, <2>3 DEF AtMostOne
  <2>4. CASE q # p /\ r # p
    BY <1>2, <1>3, <2>4 DEF AtMostOne
  <2>5. QED
    BY SMTT(60), <2>1, <2>2, <2>3, <2>4
<1>4. ASSUME NEW u \in Task, NEW i \in CapId, NEW q \in Port, NEW m \in DOMAIN queue'[q],
             NEW k \in DOMAIN queue'[q][m], slots[u][i] \in L, queue'[q][m][k] \in L
      PROVE  FALSE
  <2>1. CASE q = p
    BY <1>1, <1>4, <2>1 DEF AtMostOne
  <2>2. CASE q # p
    BY ZenonT(60), <1>2, <1>4, <2>2 DEF AtMostOne
  <2>3. QED
    BY <2>1, <2>2
<1>5. QED
  BY SMTT(60), <1>3, <1>4 DEF AtMostOne

\* A delivery moves caps from the front of a port into a table.
LEMMA DeliveryMoves ==
    ASSUME TypeOK, NEW L, NoCap \notin L, AtMostOne(L), NEW t \in Task, NEW p \in Port,
           queue[p] # <<>>, queue' = [queue EXCEPT ![p] = Tail(queue[p])],
           Install(t, Head(queue[p]))
    PROVE  AtMostOne(L)'
<1> DEFINE n == next[t]
           cs == Head(queue[p])
<1>1. 1 \in DOMAIN queue[p] /\ cs = queue[p][1] /\ cs \in Seq(Cap)
  BY Zenon, PopProperties
<1>2. \A m \in DOMAIN queue'[p] : /\ m \in Nat /\ m >= 1 /\ m + 1 \in DOMAIN queue[p]
                                 /\ queue'[p][m] = queue[p][m + 1]
  BY Zenon, PopProperties
<1>3. \A q \in Port : q # p => queue'[q] = queue[q]
  BY PopProperties
<1>4. n \in Int /\ n >= 1 /\ Len(cs) \in Nat /\ DOMAIN cs = 1..Len(cs)
  BY <1>1, LenProperties DEF TypeOK
<1> HIDE DEF cs
<1>5. /\ \A i \in CapId : slots'[t][i] =
            IF i \in n..(n + Len(cs) - 1) THEN cs[i - n + 1] ELSE slots[t][i]
      /\ \A u \in Task : u # t => slots'[u] = slots[u]
  <2>1. TablesOK
    BY DEF TypeOK, TablesOK
  <2>2. /\ slots[t] \in [CapId -> Cap \cup {NoCap}] /\ t \in Task
        /\ \A i \in CapId : i >= next[t] => slots[t][i] = NoCap
    BY DEF TypeOK
  <2>3. /\ CanInstall(t, cs) /\ slots' = [slots EXCEPT ![t] = Installed(slots[t], next[t], cs)]
        /\ next' = [next EXCEPT ![t] = next[t] + Len(cs)]
    BY DEF Install, cs
  <2>4. QED
    BY ONLY ZenonT(60), <1>1, <2>1, <2>2, <2>3, InstalledTables
\* A cap of L in the new tables was there before, or in the message.
<1>6. ASSUME NEW u \in Task, NEW i \in CapId, slots'[u][i] \in L
      PROVE  \/ slots[u][i] \in L
             \/ u = t /\ i - n + 1 \in DOMAIN cs /\ cs[i - n + 1] \in L
  <2>1. i \in Int
    BY SMTT(60) DEF CapId
  <2>2. CASE u = t /\ i \in n..(n + Len(cs) - 1)
    <3>1. i - n + 1 \in 1..Len(cs)
      BY SMTT(60), <1>4, <2>1, <2>2
    <3>2. QED
      BY <1>4, <1>5, <1>6, <2>2, <3>1
  <2>3. CASE u = t /\ i \notin n..(n + Len(cs) - 1)
    BY SMTT(60), <1>5, <1>6, <2>3
  <2>4. CASE u # t
    BY SMTT(60), <1>5, <1>6, <2>4
  <2>5. QED
    BY <2>2, <2>3, <2>4
<1>7. ASSUME NEW u \in Task, NEW v \in Task, NEW i \in CapId, NEW j \in CapId,
             slots'[u][i] \in L, slots'[v][j] \in L
      PROVE  u = v /\ i = j
  <2>1. CASE slots[u][i] \in L /\ slots[v][j] \in L
    BY <2>1 DEF AtMostOne
  <2>2. CASE /\ u = t /\ i - n + 1 \in DOMAIN cs /\ cs[i - n + 1] \in L
             /\ v = t /\ j - n + 1 \in DOMAIN cs /\ cs[j - n + 1] \in L
    <3>1. i - n + 1 = j - n + 1
      BY <1>1, <2>2 DEF AtMostOne
    <3>2. i \in Int /\ j \in Int
      BY SMTT(60) DEF CapId
    <3>3. QED
      BY SMTT(60), <1>4, <2>2, <3>1, <3>2
  <2>3. CASE slots[u][i] \in L /\ j - n + 1 \in DOMAIN cs /\ cs[j - n + 1] \in L
    BY SMTT(60), <1>1, <2>3 DEF AtMostOne
  <2>4. CASE slots[v][j] \in L /\ i - n + 1 \in DOMAIN cs /\ cs[i - n + 1] \in L
    BY SMTT(60), <1>1, <2>4 DEF AtMostOne
  <2>5. QED
    BY SMTT(60), <1>6, <1>7, <2>1, <2>2, <2>3, <2>4
<1>8. ASSUME NEW q \in Port, NEW m \in DOMAIN queue'[q], NEW k \in DOMAIN queue'[q][m],
             queue'[q][m][k] \in L
      PROVE  /\ \A u \in Task, i \in CapId : slots[u][i] \notin L
             /\ \A l \in DOMAIN cs : cs[l] \notin L
  <2>1. CASE q = p
    <3>1. /\ m + 1 \in DOMAIN queue[p] /\ k \in DOMAIN queue[p][m + 1]
          /\ queue[p][m + 1][k] \in L /\ m + 1 # 1
      BY SMTT(60), <1>2, <1>8, <2>1
    <3>2. \A u \in Task, i \in CapId : slots[u][i] \notin L
      BY SMTT(60), <3>1 DEF AtMostOne
    <3>3. \A l \in DOMAIN cs : cs[l] \notin L
      BY <1>1, <3>1 DEF AtMostOne
    <3>4. QED
      BY <3>2, <3>3
  <2>2. CASE q # p
    BY ZenonT(60), <1>1, <1>3, <1>8, <2>2 DEF AtMostOne
  <2>3. QED
    BY <2>1, <2>2
<1>9. \A u \in Task, i \in CapId, q \in Port : \A m \in DOMAIN queue'[q] :
         \A k \in DOMAIN queue'[q][m] : ~(slots'[u][i] \in L /\ queue'[q][m][k] \in L)
  BY <1>6, <1>8
<1>10. ASSUME NEW q \in Port, NEW r \in Port,
              NEW m \in DOMAIN queue'[q], NEW l \in DOMAIN queue'[r],
              NEW k \in DOMAIN queue'[q][m], NEW h \in DOMAIN queue'[r][l],
              queue'[q][m][k] \in L, queue'[r][l][h] \in L
       PROVE  q = r /\ m = l /\ k = h
  <2>1. CASE q = p /\ r = p
    BY SMTT(60), <1>2, <1>10, <2>1 DEF AtMostOne
  <2>2. CASE q = p /\ r # p
    BY SMTT(60), <1>2, <1>3, <1>10, <2>2 DEF AtMostOne
  <2>3. CASE q # p /\ r = p
    BY SMTT(60), <1>2, <1>3, <1>10, <2>3 DEF AtMostOne
  <2>4. CASE q # p /\ r # p
    BY SMTT(60), <1>3, <1>10, <2>4 DEF AtMostOne
  <2>5. QED
    BY SMTT(60), <2>1, <2>2, <2>3, <2>4
<1>11. QED
  BY <1>7, <1>9, <1>10 DEF AtMostOne

----------------------------------------------------------------------------
(* The inductive invariant *)

\* No cap and no name refers to a port that is still to be created, so the
\* cap that sys_port_create makes is the first one for its port.
OldPorts ==
    /\ \A t \in Task, id \in CapId : slots[t][id].object < nextPort
    /\ \A p \in Port : \A m \in DOMAIN queue[p] : \A k \in DOMAIN queue[p][m] :
          queue[p][m][k].object < nextPort
    /\ \A name \in Name : registry[name] < nextPort

IpcInv ==
    /\ TypeOK
    /\ OldPorts
    /\ UniqueRecv /\ UniqueRegistrar
    /\ SoleReceiver
    /\ ParkedPortEmpty

\* What is known of the constants and of single caps.
LEMMA CapFacts ==
    /\ NoCap \notin Cap /\ Registrar \in Cap /\ NoCap.object = -1 /\ Registrar.object = 0
    /\ Port \subseteq Nat /\ None \notin Port /\ 1 \in CapId
    /\ \A c \in Cap : c.object \in Port \cup {None} /\ c.rights \subseteq Rights
    /\ \A c \in Cap : c.rights # {} => c \in [object : Port, rights : SUBSET Rights]
    /\ \A p : NoCap \notin RecvCaps(p)
BY IpcAssumption DEF NoCap, Cap, Registrar, None, Port, CapId, RecvCaps

LEMMA NoCapObject == NoCap.object = -1
BY CapFacts

LEMMA NonePort == None \notin Port
BY CapFacts

LEMMA CapObjects ==
    /\ \A c \in Cap \cup {NoCap} : c.object \in Int
    /\ \A p \in Port \cup {None} : p \in Int
    /\ \A c \in [object : Port, rights : SUBSET Rights] : c # Registrar /\ c \in Cap
BY IpcAssumption DEF NoCap, Cap, Registrar, None, Port

LEMMA InitIpcInv == Init => IpcInv
<1> SUFFICES ASSUME Init PROVE IpcInv
  OBVIOUS
<1>1. \A t \in Task, id \in CapId :
         slots[t][id] = IF t = Spring /\ id = 1 THEN Registrar ELSE NoCap
  BY DEF Init
<1>2. \A p \in Port : queue[p] = <<>> /\ DOMAIN queue[p] = {} /\ Len(queue[p]) = 0
  BY DEF Init
<1>3. TypeOK
  <2>1. slots \in [Task -> [CapId -> Cap \cup {NoCap}]]
    BY CapFacts DEF Init
  <2>2. /\ next \in [Task -> 1..(MaxCapId + 1)]
        /\ \A t \in Task, id \in CapId : id >= next[t] => slots[t][id] = NoCap
    BY <1>1, IpcAssumption DEF Init, CapId
  <2>3. queue \in [Port -> Seq(Message)] /\ \A p \in Port : Len(queue[p]) <= MAX_IN_FLIGHT
    BY <1>2, IpcAssumption DEF Init
  <2>4. QED
    BY SMTT(60), <2>1, <2>2, <2>3, IpcAssumption DEF TypeOK, Init
<1>4. OldPorts
  BY SMTT(60), <1>1, <1>2, CapFacts DEF OldPorts, Init, None
<1>5. UniqueRecv
  <2>1. \A p \in Port : Registrar \notin RecvCaps(p) /\ NoCap \notin RecvCaps(p)
    BY SMTT(60), CapFacts DEF RecvCaps, Registrar
  <2>2. QED
    BY <1>1, <1>2, <2>1 DEF UniqueRecv, AtMostOne
<1>6. UniqueRegistrar
  BY <1>1, <1>2, CapFacts DEF UniqueRegistrar, AtMostOne
<1>7. SoleReceiver /\ ParkedPortEmpty
  BY DEF Init, SoleReceiver, ParkedPortEmpty
<1>8. QED
  BY <1>3, <1>4, <1>5, <1>6, <1>7 DEF IpcInv

----------------------------------------------------------------------------
(* The steps *)

LEMMA InstallProperties ==
    ASSUME TypeOK, NEW t \in Task, NEW cs \in Seq(Cap), Install(t, cs)
    PROVE  /\ TablesOK'
           /\ \A id \in CapId : slots'[t][id] =
                 IF id \in next[t]..(next[t] + Len(cs) - 1) THEN cs[id - next[t] + 1]
                 ELSE slots[t][id]
           /\ \A u \in Task : u # t => slots'[u] = slots[u]
           /\ \A u \in Task, id \in CapId : slots[u][id] # NoCap => slots'[u][id] = slots[u][id]
<1>1. TablesOK
  BY DEF TypeOK, TablesOK
<1>2. /\ slots[t] \in [CapId -> Cap \cup {NoCap}]
      /\ \A id \in CapId : id >= next[t] => slots[t][id] = NoCap
  BY DEF TypeOK
<1>3. /\ CanInstall(t, cs) /\ slots' = [slots EXCEPT ![t] = Installed(slots[t], next[t], cs)]
      /\ next' = [next EXCEPT ![t] = next[t] + Len(cs)]
  BY DEF Install
<1>4. /\ TablesOK'
      /\ \A id \in CapId : slots'[t][id] =
            IF id \in next[t]..(next[t] + Len(cs) - 1) THEN cs[id - next[t] + 1]
            ELSE slots[t][id]
      /\ \A u \in Task : u # t => slots'[u] = slots[u]
  BY ZenonT(60), <1>1, <1>2, <1>3, InstalledTables
<1>5. \A id \in CapId : slots[t][id] # NoCap => id \notin next[t]..(next[t] + Len(cs) - 1)
  <2>1. next[t] \in Int /\ Len(cs) \in Nat /\ CapId \subseteq Int
    BY LenProperties DEF TypeOK, CapId
  <2>2. QED
    BY <1>2, <2>1
<1>6. QED
  BY <1>4, <1>5

\* PortCreate, CapDup and Lookup: one new cap, which has the RECV right only
\* if its port is new as well.
LEMMA MintIpcInv ==
    ASSUME IpcInv, NEW t \in Task, NEW c \in [object : Port, rights : SUBSET Rights],
           Install(t, <<c>>), UNCHANGED <<queue, registry, receiving, parked>>,
           nextPort' \in 1..(MaxPort + 1), nextPort' >= nextPort, c.object < nextPort',
           "RECV" \in c.rights => c.object = nextPort
    PROVE  IpcInv'
<1>0. /\ TypeOK /\ OldPorts /\ UniqueRecv /\ UniqueRegistrar /\ SoleReceiver
      /\ ParkedPortEmpty
  BY DEF IpcInv
<1> DEFINE cs == <<c>>
           n == next[t]
<1>1. c \in Cap /\ cs \in Seq(Cap) /\ Len(cs) = 1 /\ cs[1] = c
  BY DEF Cap
<1> HIDE DEF cs
<1>2. /\ TablesOK'
      /\ \A id \in CapId : slots'[t][id] =
            IF id \in n..(n + Len(cs) - 1) THEN cs[id - n + 1] ELSE slots[t][id]
      /\ \A u \in Task : u # t => slots'[u] = slots[u]
      /\ \A u \in Task, id \in CapId : slots[u][id] # NoCap => slots'[u][id] = slots[u][id]
  <2>1. Install(t, cs)
    BY SMTT(60) DEF cs
  <2>2. QED
    BY Zenon, <1>0, <1>1, <2>1, InstallProperties
<1>3. /\ n \in Int
      /\ \A id \in CapId : slots'[t][id] = IF id = n THEN c ELSE slots[t][id]
  <2>1. n \in Int /\ CapId \subseteq Int
    BY <1>0 DEF TypeOK, CapId
  <2>2. \A id \in CapId : id \in n..(n + Len(cs) - 1) <=> id = n
    BY <1>1, <2>1
  <2>3. n - n + 1 = 1
    BY SMTT(60), <2>1
  <2>4. QED
    BY SMTT(60), <1>1, <1>2, <2>1, <2>2, <2>3
<1>4. TypeOK'
  BY SMTT(60), <1>0, <1>2 DEF TypeOK, TablesOK
<1>5. OldPorts'
  <2>1. nextPort \in Int /\ nextPort' \in Int
    BY SMTT(60), <1>0 DEF TypeOK
  <2>2. ASSUME NEW u \in Task, NEW id \in CapId PROVE slots'[u][id].object < nextPort'
    <3>1. slots[u][id].object \in Int /\ slots[u][id].object < nextPort
      BY SMTT(60), <1>0, CapObjects DEF TypeOK, OldPorts
    <3>2. slots'[u][id] \in {c, slots[u][id]}
      BY <1>2, <1>3
    <3>3. QED
      BY SMTT(60), <2>1, <3>1, <3>2
  <2>3. ASSUME NEW p \in Port, NEW m \in DOMAIN queue[p], NEW k \in DOMAIN queue[p][m]
        PROVE  queue[p][m][k].object < nextPort'
    <3>1. queue[p][m] \in Seq(Cap)
      BY <1>0, ElementOfSeq, LenProperties DEF TypeOK, Message
    <3>2. queue[p][m][k] \in Cap
      BY SMTT(60), <3>1, ElementOfSeq, LenProperties
    <3>3. queue[p][m][k].object \in Int /\ queue[p][m][k].object < nextPort
      BY <1>0, <3>2, CapObjects DEF OldPorts
    <3>4. QED
      BY SMTT(60), <2>1, <3>3
  <2>4. ASSUME NEW name \in Name PROVE registry[name] < nextPort'
    <3>1. registry[name] \in Int /\ registry[name] < nextPort
      BY <1>0, CapObjects DEF TypeOK, OldPorts
    <3>2. QED
      BY SMTT(60), <2>1, <3>1
  <2>5. QED
    BY <2>2, <2>3, <2>4 DEF OldPorts
<1>6. UniqueRecv'
  <2>1. SUFFICES ASSUME NEW p \in Port PROVE AtMostOne(RecvCaps(p))'
    BY DEF UniqueRecv
  <2> DEFINE L == RecvCaps(p)
  <2>2. AtMostOne(L) /\ NoCap \notin L
    BY SMTT(60), <1>0, CapFacts DEF UniqueRecv
  <2>3. CASE c \notin L
    <3>1. \A u \in Task, id \in CapId : slots'[u][id] \in L => slots[u][id] \in L
      BY SMTT(60), <1>2, <1>3, <2>3
    <3>2. QED
      BY SMTT(60), <2>2, <3>1, FewerCaps
  <2>4. CASE c \in L
    <3>1. p = nextPort
      BY <2>4 DEF RecvCaps
    <3>2. nextPort \in Int /\ \A d \in L : ~(d.object < nextPort)
      BY SMTT(60), <1>0, <3>1 DEF RecvCaps, TypeOK
    <3>3. \A u \in Task, id \in CapId : slots[u][id] \notin L
      BY <1>0, <3>2 DEF OldPorts
    <3>4. \A q \in Port : \A m \in DOMAIN queue[q] : \A k \in DOMAIN queue[q][m] :
             queue[q][m][k] \notin L
      BY Zenon, <1>0, <3>2 DEF OldPorts
    <3>5. \A u \in Task, id \in CapId : slots'[u][id] \in L => u = t /\ id = n
      BY ZenonT(60), <1>2, <1>3, <3>3
    <3>6. QED
      BY <3>4, <3>5 DEF AtMostOne
  <2>5. QED
    BY <2>3, <2>4
<1>7. UniqueRegistrar'
  <2>1. c # Registrar
    BY SMTT(60), CapObjects
  <2>2. \A u \in Task, id \in CapId : slots'[u][id] \in {Registrar} => slots[u][id] \in {Registrar}
    BY SMTT(60), <1>2, <1>3, <2>1
  <2>3. QED
    BY <1>0, <2>2, FewerCaps DEF UniqueRegistrar
<1>8. SoleReceiver'
  <2>1. ASSUME NEW u \in Task, receiving[u] # None
        PROVE  \E id \in CapId : slots'[u][id] \in RecvCaps(receiving[u])
    <3>1. PICK id \in CapId : slots[u][id] \in RecvCaps(receiving[u])
      BY SMTT(60), <1>0, <2>1 DEF SoleReceiver
    <3>2. slots[u][id] # NoCap
      BY <3>1, CapFacts
    <3>3. QED
      BY SMTT(60), <1>2, <3>1, <3>2
  <2>2. QED
    BY SMTT(60), <1>0, <2>1 DEF SoleReceiver
<1>9. ParkedPortEmpty'
  BY SMTT(60), <1>0 DEF ParkedPortEmpty
<1>10. QED
  BY <1>4, <1>5, <1>6, <1>7, <1>8, <1>9 DEF IpcInv

\* The steps of a task that runs in user mode on its own table: every cap of
\* the new table was in the old one.  Other tasks, and so all receivers, keep
\* their tables.
LEMMA ReshuffleIpcInv ==
    ASSUME IpcInv, NEW t \in Task, InUser(t), TablesOK',
           \A id \in CapId : \/ slots'[t][id] = NoCap
                             \/ \E j \in CapId : slots'[t][id] = slots[t][j],
           \A u \in Task : u # t => slots'[u] = slots[u],
           UNCHANGED <<queue, nextPort, registry, receiving, parked>>,
           UniqueRecv', UniqueRegistrar'
    PROVE  IpcInv'
<1>0. TypeOK /\ OldPorts /\ SoleReceiver /\ ParkedPortEmpty
  BY SMTT(60) DEF IpcInv
<1>1. TypeOK'
  BY SMTT(60), <1>0 DEF TypeOK, TablesOK
<1>2. OldPorts'
  <2>1. NoCap.object < nextPort
    BY SMTT(60), <1>0, NoCapObject DEF TypeOK
  <2>2. ASSUME NEW u \in Task, NEW id \in CapId PROVE slots'[u][id].object < nextPort
    BY <1>0, <2>1 DEF OldPorts
  <2>3. QED
    BY SMTT(60), <1>0, <2>2 DEF OldPorts
<1>3. SoleReceiver'
  BY ZenonT(60), <1>0 DEF SoleReceiver, InUser
<1>4. ParkedPortEmpty'
  BY <1>0 DEF ParkedPortEmpty
<1>5. QED
  BY SMTT(60), <1>1, <1>2, <1>3, <1>4 DEF IpcInv

LEMMA CapDropIpcInv ==
    ASSUME IpcInv, NEW t \in Task, NEW id \in CapId, CapDrop(t, id)
    PROVE  IpcInv'
<1>0. TypeOK /\ UniqueRecv /\ UniqueRegistrar
  BY DEF IpcInv
<1>1. /\ slots' = [slots EXCEPT ![t][id] = NoCap] /\ InUser(t)
      /\ UNCHANGED <<next, queue, nextPort, registry, receiving, parked>>
  BY DEF CapDrop
<1>2. /\ \A i \in CapId : slots'[t][i] = IF i = id THEN NoCap ELSE slots[t][i]
      /\ \A u \in Task : u # t => slots'[u] = slots[u]
      /\ slots' \in [Task -> [CapId -> Cap \cup {NoCap}]]
  BY SMTT(60), <1>0, <1>1 DEF TypeOK
<1>3. TablesOK'
  <2>1. ASSUME NEW u \in Task, NEW i \in CapId, i >= next[u] PROVE slots'[u][i] = NoCap
    BY ZenonT(60), <1>0, <1>2, <2>1 DEF TypeOK
  <2>2. QED
    BY <1>0, <1>1, <1>2, <2>1 DEF TypeOK, TablesOK
<1>4. ASSUME NEW L, NoCap \notin L, NEW u \in Task, NEW i \in CapId, slots'[u][i] \in L
      PROVE  slots[u][i] \in L
  BY <1>2, <1>4
<1>5. UniqueRecv'
  <2>1. SUFFICES ASSUME NEW p \in Port PROVE AtMostOne(RecvCaps(p))'
    BY DEF UniqueRecv
  <2>2. AtMostOne(RecvCaps(p)) /\ NoCap \notin RecvCaps(p)
    BY ZenonT(60), <1>0, CapFacts DEF UniqueRecv
  <2>3. \A u \in Task, i \in CapId : slots'[u][i] \in RecvCaps(p) => slots[u][i] \in RecvCaps(p)
    BY <1>4, <2>2
  <2>4. QED
    BY <1>1, <2>2, <2>3, FewerCaps
<1>6. UniqueRegistrar'
  <2>1. NoCap \notin {Registrar}
    BY CapFacts
  <2>2. \A u \in Task, i \in CapId : slots'[u][i] \in {Registrar} => slots[u][i] \in {Registrar}
    BY ZenonT(60), <1>4, <2>1
  <2>3. QED
    BY <1>0, <1>1, <2>2, FewerCaps DEF UniqueRegistrar
<1>7. QED
  BY <1>1, <1>2, <1>3, <1>5, <1>6, ReshuffleIpcInv

LEMMA SendRefusedIpcInv ==
    ASSUME IpcInv, NEW t \in Task, NEW id \in CapId, NEW ids \in CapLists,
           SendRefused(t, id, ids)
    PROVE  IpcInv'
<1> DEFINE n == next[t]
           cs == Taken(t, ids)
           tbl == Removed(slots[t], ids)
<1>0. TypeOK /\ UniqueRecv /\ UniqueRegistrar
  BY Zenon DEF IpcInv
<1>1. /\ MaySend(t, id, ids) /\ CanInstall(t, ids) /\ InUser(t)
      /\ UNCHANGED <<queue, nextPort, registry, receiving, parked>>
  BY ZenonT(60) DEF SendRefused, MaySend
<1>2. /\ cs \in Seq(Cap) /\ Len(cs) = Len(ids)
      /\ \A i \in DOMAIN ids : ids[i] \in CapId /\ cs[i] = slots[t][ids[i]]
      /\ Len(ids) \in Nat /\ DOMAIN ids = 1..Len(ids)
  BY SMTT(60), <1>0, <1>1, TakenProperties, CapListProperties
<1>3. /\ tbl \in [CapId -> Cap \cup {NoCap}]
      /\ \A i \in CapId : tbl[i] = NoCap \/ tbl[i] = slots[t][i]
      /\ \A i \in CapId : i >= next[t] => tbl[i] = NoCap
  BY SMTT(60), <1>0 DEF Removed, TypeOK
<1>4. /\ slots' = [slots EXCEPT ![t] = Installed(tbl, next[t], cs)]
      /\ next' = [next EXCEPT ![t] = next[t] + Len(cs)] /\ CanInstall(t, cs)
  <2>1. /\ slots' = [slots EXCEPT ![t] = Installed(tbl, next[t], cs)]
        /\ next' = [next EXCEPT ![t] = next[t] + Len(ids)]
    BY Zenon DEF SendRefused
  <2>2. CanInstall(t, cs)
    BY Zenon, <1>1, <1>2 DEF CanInstall
  <2>3. QED
    BY Zenon, <1>2, <2>1, <2>2
<1> HIDE DEF cs, tbl
<1>5. /\ TablesOK'
      /\ \A i \in CapId : slots'[t][i] =
            IF i \in next[t]..(next[t] + Len(cs) - 1) THEN cs[i - next[t] + 1] ELSE tbl[i]
      /\ \A u \in Task : u # t => slots'[u] = slots[u]
  <2>1. TablesOK
    BY <1>0 DEF TypeOK, TablesOK
  <2>2. t \in Task
    BY SMTT(60)
  <2>3. QED
    BY ONLY ZenonT(60), <1>2, <1>3, <1>4, <2>1, <2>2, InstalledTables
<1>6. ASSUME NEW i \in CapId
      PROVE  slots'[t][i] = NoCap \/ \E j \in CapId : slots'[t][i] = slots[t][j]
  <2>1. CASE i \in n..(n + Len(cs) - 1)
    <3>1. i \in Int /\ n \in Int
      BY SMTT(60), <1>0 DEF CapId, TypeOK
    <3>2. i - n + 1 \in DOMAIN ids
      BY SMTT(60), <1>2, <2>1, <3>1
    <3>3. slots'[t][i] = cs[i - n + 1]
      BY Zenon, <1>5, <2>1
    <3>4. cs[i - n + 1] = slots[t][ids[i - n + 1]] /\ ids[i - n + 1] \in CapId
      BY Zenon, <1>2, <3>2
    <3>5. QED
      BY Zenon, <3>3, <3>4
  <2>2. CASE i \notin n..(n + Len(cs) - 1)
    BY <1>3, <1>5, <2>2
  <2>3. QED
    BY SMTT(60), <2>1, <2>2
<1>7. UniqueRecv'
  BY <1>0, CapFacts, RefusedMoves DEF UniqueRecv
<1>8. UniqueRegistrar'
  <2>1. NoCap \notin {Registrar}
    BY CapFacts
  <2>2. QED
    BY <1>0, <2>1, RefusedMoves DEF UniqueRegistrar
<1>9. QED
  BY <1>1, <1>5, <1>6, <1>7, <1>8, ReshuffleIpcInv

LEMMA SendIpcInv ==
    ASSUME IpcInv, NEW t \in Task, NEW id \in CapId, NEW ids \in CapLists, Send(t, id, ids)
    PROVE  IpcInv'
<1> DEFINE p == slots[t][id].object
           msg == Taken(t, ids)
<1>0. TypeOK /\ OldPorts /\ UniqueRecv /\ UniqueRegistrar /\ SoleReceiver /\ ParkedPortEmpty
  BY Zenon DEF IpcInv
<1>1. /\ MaySend(t, id, ids) /\ InUser(t)
      /\ slots' = [slots EXCEPT ![t] = Removed(slots[t], ids)]
      /\ UNCHANGED <<next, nextPort, registry, receiving>>
  BY ZenonT(60) DEF Send, MaySend
<1>2. p \in Port
  <2>1. slots[t][id] \in Cap /\ "SEND" \in slots[t][id].rights
    BY <1>0, <1>1 DEF MaySend, Held, TypeOK
  <2>2. slots[t][id] \in [object : Port, rights : SUBSET Rights]
    BY ONLY <2>1, CapFacts
  <2>3. QED
    BY ONLY <2>2
<1>3. /\ slots' \in [Task -> [CapId -> Cap \cup {NoCap}]]
      /\ \A i \in CapId : slots'[t][i] = NoCap \/ slots'[t][i] = slots[t][i]
      /\ \A u \in Task : u # t => slots'[u] = slots[u]
  BY SMTT(60), <1>0, <1>1 DEF Removed, TypeOK
<1>4. TablesOK'
  <2>1. ASSUME NEW u \in Task, NEW i \in CapId, i >= next[u] PROVE slots'[u][i] = NoCap
    BY ZenonT(60), <1>0, <1>3, <2>1 DEF TypeOK
  <2>2. QED
    BY <1>0, <1>1, <1>3, <2>1 DEF TypeOK, TablesOK
<1>5. CASE Len(queue[p]) >= MAX_IN_FLIGHT
  <2>1. queue' = queue /\ parked' = parked
    BY Zenon, <1>5 DEF Send
  <2>2. ASSUME NEW L, NoCap \notin L, NEW u \in Task, NEW i \in CapId, slots'[u][i] \in L
        PROVE  slots[u][i] \in L
    BY ZenonT(60), <1>3, <2>2
  <2>3. UniqueRecv'
    <3>1. SUFFICES ASSUME NEW q \in Port PROVE AtMostOne(RecvCaps(q))'
      BY DEF UniqueRecv
    <3>2. AtMostOne(RecvCaps(q)) /\ NoCap \notin RecvCaps(q)
      BY ZenonT(60), <1>0, CapFacts DEF UniqueRecv
    <3>3. \A u \in Task, i \in CapId :
             slots'[u][i] \in RecvCaps(q) => slots[u][i] \in RecvCaps(q)
      BY SMTT(60), <2>2, <3>2
    <3>4. QED
      BY <2>1, <3>2, <3>3, FewerCaps
  <2>4. UniqueRegistrar'
    <3>1. NoCap \notin {Registrar}
      BY CapFacts
    <3>2. \A u \in Task, i \in CapId :
             slots'[u][i] \in {Registrar} => slots[u][i] \in {Registrar}
      BY ZenonT(30), <2>2, <3>1
    <3>3. QED
      BY <1>0, <2>1, <3>2, FewerCaps DEF UniqueRegistrar
  <2>5. QED
    BY <1>1, <1>3, <1>4, <2>1, <2>3, <2>4, ReshuffleIpcInv
<1>6. CASE ~(Len(queue[p]) >= MAX_IN_FLIGHT)
  <2>1. /\ queue' = [queue EXCEPT ![p] = Append(queue[p], msg)]
        /\ parked' = {r \in parked : receiving[r] # p}
    BY ZenonT(60), <1>6 DEF Send
  <2>2. /\ msg \in Seq(Cap) /\ DOMAIN msg = DOMAIN ids
        /\ \A i \in DOMAIN ids : ids[i] \in CapId /\ msg[i] = slots[t][ids[i]]
    BY <1>0, <1>1, TakenProperties
  <2>3. UniqueRecv'
    <3>1. SUFFICES ASSUME NEW q \in Port PROVE AtMostOne(RecvCaps(q))'
      BY DEF UniqueRecv
    <3>2. AtMostOne(RecvCaps(q)) /\ NoCap \notin RecvCaps(q)
      BY <1>0, CapFacts DEF UniqueRecv
    <3>3. QED
      BY ZenonT(60), <1>0, <1>1, <1>2, <2>1, <3>2, SendMoves
  <2>4. UniqueRegistrar'
    <3>1. AtMostOne({Registrar}) /\ NoCap \notin {Registrar}
      BY <1>0, CapFacts DEF UniqueRegistrar
    <3>2. AtMostOne({Registrar})'
      BY ZenonT(60), <1>0, <1>1, <1>2, <2>1, <3>1, SendMoves
    <3>3. QED
      BY <3>2 DEF UniqueRegistrar
  <2> HIDE DEF msg, p
  <2>5. /\ queue[p] \in Seq(Message) /\ Len(queue[p]) \in Nat
        /\ DOMAIN queue[p] = 1..Len(queue[p]) /\ queue'[p] \in Seq(Message)
        /\ Len(queue'[p]) = Len(queue[p]) + 1 /\ DOMAIN queue'[p] = 1..(Len(queue[p]) + 1)
        /\ \A m \in 1..Len(queue[p]) : queue'[p][m] = queue[p][m]
        /\ queue'[p][Len(queue[p]) + 1] = msg
        /\ \A q \in Port : q # p => queue'[q] = queue[q]
    <3>1. queue[p] \in Seq(Message) /\ msg \in Message
      BY <1>0, <1>2, <2>2 DEF TypeOK, Message
    <3>2. queue'[p] = Append(queue[p], msg) /\ \A q \in Port : q # p => queue'[q] = queue[q]
      BY Zenon, <1>0, <1>2, <2>1 DEF TypeOK
    <3> DEFINE s == queue[p]
               a == Append(s, msg)
    <3>3. /\ Len(s) \in Nat /\ DOMAIN s = 1..Len(s) /\ a \in Seq(Message)
          /\ Len(a) = Len(s) + 1 /\ DOMAIN a = 1..(Len(s) + 1)
          /\ \A m \in 1..Len(s) : a[m] = s[m]
          /\ a[Len(s) + 1] = msg
      BY ONLY <3>1, AppendFacts
    <3>4. queue'[p] = a
      BY Zenon, <3>2
    <3> HIDE DEF a
    <3>5. QED
      BY Zenon, <3>1, <3>2, <3>3, <3>4
  <2>6. TypeOK'
    <3>1. queue' \in [Port -> Seq(Message)]
      BY <1>0, <1>2, <2>1, <2>5 DEF TypeOK
    <3>2. ASSUME NEW q \in Port PROVE Len(queue'[q]) <= MAX_IN_FLIGHT
      <4>1. Len(queue[p]) + 1 <= MAX_IN_FLIGHT
        BY SMTT(60), <1>6, <2>5, IpcAssumption
      <4>2. CASE q = p
        BY ZenonT(60), <2>5, <4>1, <4>2
      <4>3. CASE q # p
        BY SMTT(60), <1>0, <2>5, <4>3 DEF TypeOK
      <4>4. QED
        BY SMTT(60), <4>2, <4>3
    <3>3. parked' \subseteq {u \in Task : receiving[u] # None}
      BY SMTT(60), <1>0, <2>1 DEF TypeOK
    <3>4. QED
      BY ZenonT(60), <1>0, <1>1, <1>4, <3>1, <3>2, <3>3 DEF TypeOK, TablesOK
  <2>7. OldPorts'
    <3>1. NoCap.object < nextPort
      BY SMTT(30), <1>0, NoCapObject DEF TypeOK
    <3>2. ASSUME NEW u \in Task, NEW i \in CapId PROVE slots'[u][i].object < nextPort
      BY Zenon, <1>0, <1>3, <3>1 DEF OldPorts
    <3>3. ASSUME NEW k \in DOMAIN msg PROVE msg[k].object < nextPort
      BY ZenonT(60), <1>0, <2>2 DEF OldPorts
    <3>4. ASSUME NEW q \in Port, NEW m \in DOMAIN queue'[q], NEW k \in DOMAIN queue'[q][m]
          PROVE  queue'[q][m][k].object < nextPort
      <4>1. CASE q = p /\ m = Len(queue[p]) + 1
        BY Zenon, <2>5, <3>3, <3>4, <4>1
      <4>2. CASE q = p /\ m # Len(queue[p]) + 1
        <5>2. /\ Len(queue[p]) \in Nat /\ m # Len(queue[p]) + 1 /\ DOMAIN queue[p] = 1..Len(queue[p])
              /\ m \in 1..(Len(queue[p]) + 1)
          BY ZenonT(60), <2>5, <3>4, <4>2
        <5>1. m \in 1..Len(queue[p]) /\ m \in DOMAIN queue[p]
          BY Zenon, BelowTop, <5>2
        <5>3. queue'[p][m] = queue[p][m]
          BY Zenon, <2>5, <5>1
        <5>4. QED
          BY Zenon, <1>0, <3>4, <4>2, <5>1, <5>3 DEF OldPorts
      <4>3. CASE q # p
        BY Zenon, <1>0, <2>5, <3>4, <4>3 DEF OldPorts
      <4>4. QED
        BY Zenon, <4>1, <4>2, <4>3
    <3>5. nextPort' = nextPort /\ registry' = registry
      BY Zenon, <1>1
    <3>6. QED
      BY Zenon, <1>0, <3>2, <3>4, <3>5 DEF OldPorts
  <2>8. SoleReceiver'
    BY ZenonT(60), <1>0, <1>1, <1>3 DEF SoleReceiver, InUser
  <2>9. ParkedPortEmpty'
    <3>1. ASSUME NEW u \in parked' PROVE queue'[receiving[u]] = <<>>
      <4>1. u \in parked /\ receiving[u] # p /\ receiving[u] \in Port
        BY <1>0, <2>1, <3>1 DEF TypeOK
      <4>2. queue'[receiving[u]] = queue[receiving[u]]
        BY Zenon, <2>5, <4>1
      <4>3. queue[receiving[u]] = <<>>
        BY Zenon, <1>0, <4>1 DEF ParkedPortEmpty
      <4>4. QED
        BY Zenon, <4>2, <4>3
    <3>2. QED
      BY Zenon, <1>1, <3>1 DEF ParkedPortEmpty
  <2>10. QED
    BY Zenon, <2>3, <2>4, <2>6, <2>7, <2>8, <2>9 DEF IpcInv
<1>7. QED
  BY <1>5, <1>6

\* Steps that leave tables and ports alone.
LEMMA SameCaps ==
    ASSUME UniqueRecv, UniqueRegistrar, slots' = slots, queue' = queue
    PROVE  UniqueRecv' /\ UniqueRegistrar'
<1>1. ASSUME NEW L, AtMostOne(L) PROVE AtMostOne(L)'
  BY Zenon, <1>1, FewerCaps
<1>2. QED
  BY <1>1 DEF UniqueRecv, UniqueRegistrar

\* The pop and what follows it.  The receiver may hold the RECV cap of the
\* port or have just parked and been woken; in both cases it returns.
LEMMA DeliverIpcInv ==
    ASSUME IpcInv, NEW t \in Task, NEW p \in Port, NEW room, queue[p] # <<>>,
           t \notin parked, Deliver(t, p, room), UNCHANGED <<nextPort, registry>>
    PROVE  IpcInv'
<1> DEFINE cs == Head(queue[p])
<1>0. TypeOK /\ OldPorts /\ UniqueRecv /\ UniqueRegistrar /\ SoleReceiver /\ ParkedPortEmpty
  BY DEF IpcInv
<1>1. /\ queue' = [queue EXCEPT ![p] = Tail(queue[p])]
      /\ receiving' = [receiving EXCEPT ![t] = None] /\ parked' = parked
      /\ (slots' = slots /\ next' = next) \/ Install(t, cs)
  BY DEF Deliver
<1>2. /\ 1 \in DOMAIN queue[p] /\ cs = queue[p][1] /\ cs \in Seq(Cap)
      /\ queue' \in [Port -> Seq(Message)] /\ Len(queue'[p]) <= MAX_IN_FLIGHT
      /\ \A m \in DOMAIN queue'[p] : /\ m \in Nat /\ m >= 1 /\ m + 1 \in DOMAIN queue[p]
                                     /\ queue'[p][m] = queue[p][m + 1]
      /\ \A q \in Port : q # p => queue'[q] = queue[q]
  BY ZenonT(60), <1>0, <1>1, PopProperties
<1>3. /\ receiving' \in [Task -> Port \cup {None}] /\ receiving'[t] = None
      /\ \A u \in Task : u # t => receiving'[u] = receiving[u]
  BY <1>0, <1>1 DEF TypeOK
<1>4. ASSUME NEW L, NoCap \notin L, AtMostOne(L) PROVE AtMostOne(L)'
  <2>1. CASE slots' = slots
    BY Zenon, <1>0, <1>1, <1>4, <2>1, DropsMessage
  <2>2. CASE Install(t, cs)
    BY Zenon, <1>0, <1>1, <1>4, <2>2, DeliveryMoves
  <2>3. QED
    BY <1>1, <2>1, <2>2
<1>5. UniqueRecv' /\ UniqueRegistrar'
  <2>1. NoCap \notin {Registrar}
    BY Zenon, CapFacts
  <2>2. QED
    BY Zenon, <1>0, <1>4, <2>1, CapFacts DEF UniqueRecv, UniqueRegistrar
<1> HIDE DEF cs
<1>6. /\ TablesOK'
      /\ \A i \in CapId : slots'[t][i] = slots[t][i] \/ \E k \in DOMAIN cs : slots'[t][i] = cs[k]
      /\ \A u \in Task : u # t => slots'[u] = slots[u]
  <2>1. CASE slots' = slots /\ next' = next
    BY Zenon, <1>0, <2>1 DEF TypeOK, TablesOK
  <2>2. CASE Install(t, cs)
    <3>1. /\ TablesOK'
          /\ \A id \in CapId : slots'[t][id] =
                IF id \in next[t]..(next[t] + Len(cs) - 1) THEN cs[id - next[t] + 1]
                ELSE slots[t][id]
          /\ \A u \in Task : u # t => slots'[u] = slots[u]
      BY ZenonT(60), <1>0, <1>2, <2>2, InstallProperties
    <3>2. ASSUME NEW i \in CapId, i \in next[t]..(next[t] + Len(cs) - 1)
          PROVE  i - next[t] + 1 \in DOMAIN cs
      <4>0. cs \in Seq(Cap) /\ next \in [Task -> 1..(MaxCapId + 1)]
        BY Zenon, <1>0, <1>2 DEF TypeOK
      <4>1. i \in Int /\ next[t] \in Int /\ Len(cs) \in Nat /\ DOMAIN cs = 1..Len(cs)
        BY <4>0, LenProperties DEF CapId
      <4>2. QED
        BY SMTT(60), <3>2, <4>1
    <3>3. QED
      BY Zenon, <3>1, <3>2
  <2>3. QED
    BY Zenon, <1>1, <2>1, <2>2
<1>7. TypeOK'
  <2>1. \A q \in Port : Len(queue'[q]) <= MAX_IN_FLIGHT
    BY Zenon, <1>0, <1>2 DEF TypeOK
  <2>2. parked' \subseteq {u \in Task : receiving'[u] # None}
    BY ZenonT(60), <1>0, <1>1, <1>3 DEF TypeOK
  <2>3. nextPort' = nextPort /\ registry' = registry
    OBVIOUS
  <2>4. QED
    BY <1>0, <1>2, <1>3, <1>6, <2>1, <2>2, <2>3 DEF TypeOK, TablesOK
<1>8. OldPorts'
  <2>1. \A k \in DOMAIN cs : cs[k].object < nextPort
    BY ZenonT(60), <1>0, <1>2 DEF OldPorts
  <2>2. ASSUME NEW u \in Task, NEW i \in CapId PROVE slots'[u][i].object < nextPort
    <3>1. slots[u][i].object < nextPort
      BY Zenon, <1>0 DEF OldPorts
    <3>2. slots'[u][i] = slots[u][i] \/ \E k \in DOMAIN cs : slots'[u][i] = cs[k]
      BY Zenon, <1>6
    <3>3. QED
      BY Zenon, <2>1, <3>1, <3>2
  <2>3. ASSUME NEW q \in Port, NEW m \in DOMAIN queue'[q], NEW k \in DOMAIN queue'[q][m]
        PROVE  queue'[q][m][k].object < nextPort
    <3>1. CASE q = p
      <4>1. m + 1 \in DOMAIN queue[p] /\ queue'[p][m] = queue[p][m + 1]
        BY Zenon, <1>2, <2>3, <3>1
      <4>2. QED
        BY Zenon, <1>0, <2>3, <3>1, <4>1 DEF OldPorts
    <3>2. CASE q # p
      BY ZenonT(60), <1>0, <1>2, <2>3, <3>2 DEF OldPorts
    <3>3. QED
      BY Zenon, <3>1, <3>2
  <2>4. QED
    BY Zenon, <1>0, <2>2, <2>3 DEF OldPorts
<1>9. SoleReceiver'
  <2>1. ASSUME NEW u \in Task, receiving'[u] # None
        PROVE  u # t /\ receiving'[u] = receiving[u] /\ slots'[u] = slots[u]
    BY Zenon, <1>3, <1>6, <2>1
  <2>2. ASSUME NEW u \in Task, receiving'[u] # None
        PROVE  \E id \in CapId : slots'[u][id] \in RecvCaps(receiving'[u])
    <3>1. receiving[u] # None
      BY Zenon, <2>1, <2>2
    <3>2. PICK id \in CapId : slots[u][id] \in RecvCaps(receiving[u])
      BY Zenon, <1>0, <3>1 DEF SoleReceiver
    <3>3. QED
      BY Zenon, <2>1, <2>2, <3>2
  <2>3. ASSUME NEW u \in Task, NEW v \in Task, receiving'[u] = receiving'[v],
               receiving'[u] # None
        PROVE  u = v
    <3>1. receiving[u] = receiving[v] /\ receiving[u] # None
      BY Zenon, <2>1, <2>3
    <3>2. QED
      BY Zenon, <1>0, <3>1 DEF SoleReceiver
  <2>4. QED
    BY Zenon, <2>2, <2>3 DEF SoleReceiver
<1>10. ParkedPortEmpty'
  <2>1. ASSUME NEW u \in parked PROVE queue'[receiving'[u]] = <<>>
    <3>1. u \in Task /\ u # t /\ receiving[u] \in Port /\ queue[receiving[u]] = <<>>
      BY Zenon, <1>0, <2>1 DEF TypeOK, ParkedPortEmpty
    <3>2. QED
      BY Zenon, <1>2, <1>3, <3>1
  <2>2. QED
    BY Zenon, <1>1, <2>1 DEF ParkedPortEmpty
<1>11. QED
  BY ZenonT(60), <1>5, <1>7, <1>8, <1>9, <1>10 DEF IpcInv

\* The task that parks holds the RECV cap of the port, and is the only one.
LEMMA ParkIpcInv ==
    ASSUME IpcInv, NEW t \in Task, NEW p \in Port, queue[p] = <<>>, receiving[t] \in {None, p},
           \E id \in CapId : slots[t][id] \in RecvCaps(p),
           receiving' = [receiving EXCEPT ![t] = p], parked' = parked \cup {t},
           UNCHANGED <<slots, next, queue, nextPort, registry>>
    PROVE  IpcInv'
<1>0. TypeOK /\ OldPorts /\ UniqueRecv /\ UniqueRegistrar /\ SoleReceiver /\ ParkedPortEmpty
  BY DEF IpcInv
<1>1. /\ receiving' \in [Task -> Port \cup {None}] /\ receiving'[t] = p
      /\ \A u \in Task : u # t => receiving'[u] = receiving[u]
  BY Zenon, <1>0 DEF TypeOK
<1>2. TypeOK'
  <2>1. parked' \subseteq {u \in Task : receiving'[u] # None}
    BY Zenon, <1>0, <1>1, NonePort DEF TypeOK
  <2>2. QED
    BY ZenonT(60), <1>0, <1>1, <2>1 DEF TypeOK
<1>3. OldPorts'
  BY Zenon, <1>0 DEF OldPorts
<1>4. UniqueRecv' /\ UniqueRegistrar'
  BY Zenon, <1>0, SameCaps
<1>5. SoleReceiver'
  <2>1. \A u \in Task : receiving'[u] # None =>
           \E id \in CapId : slots[u][id] \in RecvCaps(receiving'[u])
    BY Zenon, <1>0, <1>1 DEF SoleReceiver
  <2>2. ASSUME NEW u \in Task, NEW v \in Task, receiving'[u] = receiving'[v],
               receiving'[u] # None
        PROVE  u = v
    <3>1. receiving'[u] \in Port
      BY ZenonT(60), <1>1, <2>2
    <3>2. QED
      BY Zenon, <1>0, <2>1, <2>2, <3>1 DEF UniqueRecv, AtMostOne
  <2>3. QED
    BY Zenon, <2>1, <2>2 DEF SoleReceiver
<1>6. ParkedPortEmpty'
  BY <1>0, <1>1 DEF ParkedPortEmpty, TypeOK
<1>7. QED
  BY ZenonT(60), <1>2, <1>3, <1>4, <1>5, <1>6 DEF IpcInv

LEMMA PublishIpcInv ==
    ASSUME IpcInv, NEW t \in Task, NEW id \in CapId, NEW name \in Name, Publish(t, id, name)
    PROVE  IpcInv'
<1>0. TypeOK /\ OldPorts /\ UniqueRecv /\ UniqueRegistrar /\ SoleReceiver /\ ParkedPortEmpty
  BY ZenonT(60) DEF IpcInv
<1>1. /\ registry' = [registry EXCEPT ![name] = slots[t][id].object]
      /\ UNCHANGED <<slots, next, queue, nextPort, receiving, parked>>
      /\ slots[t][id] \in Cap
  BY SMTT(30), <1>0 DEF Publish, Held, TypeOK
<1>2. slots[t][id].object \in Port \cup {None} /\ slots[t][id].object < nextPort
  <2>1. slots[t][id].object \in Port \cup {None}
    <3>1. slots[t][id] \in Cap
      BY <1>1
    <3>2. QED
      BY Zenon, <3>1, CapFacts
  <2>2. slots[t][id].object < nextPort
    <3>1. OldPorts /\ t \in Task /\ id \in CapId
      BY Zenon, <1>0
    <3>2. QED
      BY ONLY Zenon, <3>1 DEF OldPorts
  <2>3. QED
    BY ZenonT(60), <2>1, <2>2
<1>3. TypeOK'
  BY Zenon, <1>0, <1>1, <1>2 DEF TypeOK
<1>4. OldPorts'
  <2>1. \A n \in Name : registry'[n] < nextPort
    BY <1>0, <1>1, <1>2 DEF OldPorts, TypeOK
  <2>2. QED
    BY ZenonT(60), <1>0, <1>1, <2>1 DEF OldPorts
<1>5. UniqueRecv' /\ UniqueRegistrar'
  BY Zenon, <1>0, <1>1, SameCaps
<1>6. SoleReceiver' /\ ParkedPortEmpty'
  BY Zenon, <1>0, <1>1 DEF SoleReceiver, ParkedPortEmpty
<1>7. QED
  BY <1>3, <1>4, <1>5, <1>6 DEF IpcInv

LEMMA NextIpcInv == IpcInv /\ [Next]_vars => IpcInv'
<1> SUFFICES ASSUME IpcInv, [Next]_vars PROVE IpcInv'
  OBVIOUS
<1>0. TypeOK /\ OldPorts /\ SoleReceiver
  BY DEF IpcInv
<1>1. nextPort \in 1..(MaxPort + 1) /\ nextPort \in Nat /\ MaxPort \in Nat
  BY <1>0, IpcAssumption DEF TypeOK
<1>2. ASSUME NEW t \in Task, PortCreate(t) PROVE IpcInv'
  <2> DEFINE c == [object |-> nextPort, rights |-> Rights]
  <2>1. /\ c \in [object : Port, rights : SUBSET Rights] /\ c.object = nextPort
        /\ nextPort' = nextPort + 1 /\ nextPort' \in 1..(MaxPort + 1)
    BY <1>1, <1>2 DEF PortCreate, Port
  <2>2. Install(t, <<c>>) /\ UNCHANGED <<queue, registry, receiving, parked>>
    BY <1>2 DEF PortCreate
  <2> HIDE DEF c
  <2>3. nextPort' >= nextPort /\ c.object < nextPort'
    BY SMTT(60), <1>1, <2>1
  <2>4. QED
    BY ZenonT(60), <2>1, <2>2, <2>3, MintIpcInv
<1>3. ASSUME NEW t \in Task, NEW id \in CapId, NEW mask \in SUBSET Rights, CapDup(t, id, mask)
      PROVE  IpcInv'
  <2> DEFINE c == [slots[t][id] EXCEPT !.rights = (@ \cap mask) \ {"RECV"}]
  <2>1. slots[t][id] \in [object : Port, rights : SUBSET Rights]
    BY <1>0, <1>3 DEF CapDup, Held, TypeOK, Cap, Registrar
  <2>2. /\ c \in [object : Port, rights : SUBSET Rights] /\ c.object = slots[t][id].object
        /\ "RECV" \notin c.rights
    BY <2>1
  <2>3. Install(t, <<c>>) /\ UNCHANGED <<queue, nextPort, registry, receiving, parked>>
    BY ZenonT(60), <1>3 DEF CapDup
  <2> HIDE DEF c
  <2>4. nextPort' \in 1..(MaxPort + 1) /\ nextPort' >= nextPort /\ c.object < nextPort'
    BY <1>0, <1>1, <2>2, <2>3 DEF OldPorts
  <2>5. QED
    BY <2>2, <2>3, <2>4, MintIpcInv
<1>4. ASSUME NEW t \in Task, NEW name \in Name, Lookup(t, name) PROVE IpcInv'
  <2> DEFINE c == [object |-> registry[name], rights |-> {"SEND"}]
  <2>1. registry[name] \in Port /\ registry[name] < nextPort
    BY <1>0, <1>4 DEF Lookup, TypeOK, OldPorts
  <2>2. /\ c \in [object : Port, rights : SUBSET Rights] /\ c.object = registry[name]
        /\ "RECV" \notin c.rights
    BY <2>1 DEF Rights
  <2>3. Install(t, <<c>>) /\ UNCHANGED <<queue, nextPort, registry, receiving, parked>>
    BY <1>4 DEF Lookup
  <2> HIDE DEF c
  <2>4. nextPort' \in 1..(MaxPort + 1) /\ nextPort' >= nextPort /\ c.object < nextPort'
    BY <1>1, <2>1, <2>2, <2>3
  <2>5. QED
    BY ZenonT(60), <2>2, <2>3, <2>4, MintIpcInv
<1>5. ASSUME NEW t \in Task, NEW id \in CapId, NEW room, Recv(t, id, room) PROVE IpcInv'
  <2> DEFINE p == slots[t][id].object
  <2>1. p \in Port /\ slots[t][id] \in RecvCaps(p)
    <3>0. slots[t][id] \in Cap \cup {NoCap} /\ id \in Held(t) /\ "RECV" \in slots[t][id].rights
      BY Zenon, <1>0, <1>5 DEF Recv, TypeOK
    <3>1. slots[t][id] \in Cap /\ "RECV" \in slots[t][id].rights
      BY Zenon, <3>0 DEF Held
    <3>2. slots[t][id] \in [object : Port, rights : SUBSET Rights]
      BY <3>1, CapFacts
    <3>3. p \in Port
      BY <3>2
    <3>4. QED
      BY Zenon, <3>1, <3>3 DEF RecvCaps
  <2>2. receiving[t] = None /\ PopOrPark(t, p, room) /\ UNCHANGED <<nextPort, registry>>
    BY <1>5 DEF Recv, InUser
  <2>3. t \notin parked
    BY Zenon, <1>0, <2>2 DEF TypeOK
  <2> HIDE DEF p
  <2>4. CASE queue[p] # <<>> /\ Deliver(t, p, room)
    BY ZenonT(60), <2>1, <2>2, <2>3, <2>4, DeliverIpcInv
  <2>5. CASE ~(queue[p] # <<>> /\ Deliver(t, p, room))
    BY <2>1, <2>2, <2>5, ParkIpcInv DEF PopOrPark
  <2>6. QED
    BY ZenonT(60), <2>4, <2>5
<1>6. ASSUME NEW t \in Task, NEW room, RecvResume(t, room) PROVE IpcInv'
  <2> DEFINE p == receiving[t]
  <2>1. p \in Port /\ t \notin parked /\ \E id \in CapId : slots[t][id] \in RecvCaps(p)
    BY <1>0, <1>6 DEF RecvResume, InUser, TypeOK, SoleReceiver
  <2>2. PopOrPark(t, p, room) /\ UNCHANGED <<nextPort, registry>> /\ receiving[t] = p
    BY Zenon, <1>6 DEF RecvResume
  <2> HIDE DEF p
  <2>3. CASE queue[p] # <<>> /\ Deliver(t, p, room)
    BY ZenonT(60), <2>1, <2>2, <2>3, DeliverIpcInv
  <2>4. CASE ~(queue[p] # <<>> /\ Deliver(t, p, room))
    BY <2>1, <2>2, <2>4, ParkIpcInv DEF PopOrPark
  <2>5. QED
    BY ZenonT(60), <2>3, <2>4
<1>7. CASE UNCHANGED vars
  <2>1. UniqueRecv' /\ UniqueRegistrar'
    BY Zenon, <1>7, SameCaps DEF vars, IpcInv
  <2>2. TypeOK' /\ OldPorts'
    BY ZenonT(60), <1>7 DEF vars, IpcInv, TypeOK, OldPorts
  <2>3. SoleReceiver' /\ ParkedPortEmpty'
    BY <1>7 DEF vars, IpcInv, SoleReceiver, ParkedPortEmpty
  <2>4. QED
    BY <2>1, <2>2, <2>3 DEF IpcInv
<1>8. QED
  BY ZenonT(60), <1>2, <1>3, <1>4, <1>5, <1>6, <1>7, CapDropIpcInv, SendIpcInv, SendRefusedIpcInv,
     PublishIpcInv DEF Next

----------------------------------------------------------------------------
(* The theorems *)

\* The inductive invariant holds in every state.
THEOREM IpcInvariant == Spec => []IpcInv
BY InitIpcInv, NextIpcInv, PTL DEF Spec

\* Cap tables hand out an id once, and no port queues more than MAX_IN_FLIGHT
\* messages (cap_table.rs install, port.rs push).
THEOREM IpcTypeCorrect == Spec => []TypeOK
<1>1. IpcInv => TypeOK
  BY DEF IpcInv
<1>2. QED
  BY <1>1, IpcInvariant, PTL

\* A port never has two RECV caps, in tables or in flight (cap.rs:18).
THEOREM UniqueRecvHolds == Spec => []UniqueRecv
<1>1. IpcInv => UniqueRecv
  BY DEF IpcInv
<1>2. QED
  BY <1>1, IpcInvariant, PTL

\* There are never two registrar caps (cap.rs:34).
THEOREM UniqueRegistrarHolds == Spec => []UniqueRegistrar
<1>1. IpcInv => UniqueRegistrar
  BY DEF IpcInv
<1>2. QED
  BY <1>1, IpcInvariant, PTL

\* Whoever is inside sys_recv still holds the RECV cap and is alone there.
THEOREM SoleReceiverHolds == Spec => []SoleReceiver
<1>1. IpcInv => SoleReceiver
  BY DEF IpcInv
<1>2. QED
  BY <1>1, IpcInvariant, PTL

\* No receiver sleeps beside a message: sys_recv loses no wake-up.
THEOREM ParkedPortEmptyHolds == Spec => []ParkedPortEmpty
<1>1. IpcInv => ParkedPortEmpty
  BY DEF IpcInv
<1>2. QED
  BY <1>1, IpcInvariant, PTL

=============================================================================
