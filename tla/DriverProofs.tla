---------------------------- MODULE DriverProofs ----------------------------
(***************************************************************************)
(* Proofs about the drivers of the disk and of the network card.           *)
(*                                                                         *)
(* Nvme, for rings of any length, any number of command ids and any disk:  *)
(* the answer that the driver takes is the one to its command              *)
(* (AnswerIsOwn), no frame is lost or freed too early (FramesBalanced), and*)
(* driver and controller together are a block device (IsBlockDevice).      *)
(*                                                                         *)
(* E1000, for rings of every size: the type invariant is inductive; each of*)
(* the three safety properties gets an invariant of its own (RxInv, TxInv, *)
(* InfoInv), inductive together with the types.                            *)
(***************************************************************************)
EXTENDS Nvme, E1000, TLAPS

----------------------------------------------------------------------------
(* The NVMe driver *)

Inc(q, i) == (i + 1) % Depth(q)

\* The controller's next entry is the one that the driver looks at.  The entries
\* before it are of this turn through the ring, the others of the turn before.
Fresh(q) ==
    /\ dTail[q] = cqHead[q] /\ dPhase[q] = phase[q]
    /\ \A i \in Slot(q) : cq[q][i].phase = IF i < cqHead[q] THEN phase[q] ELSE 1 - phase[q]

\* The controller is one entry ahead, and that entry answers the command.
Answered(q) ==
    /\ dTail[q] = Inc(q, cqHead[q])
    /\ dPhase[q] = IF dTail[q] = 0 THEN 1 - phase[q] ELSE phase[q]
    /\ cq[q][cqHead[q]].cid = cmd.cid
    /\ \A i \in Slot(q) : cq[q][i].phase = IF i <= cqHead[q] THEN phase[q] ELSE 1 - phase[q]

\* Where a command is on its way: there is none; it is in the submission ring;
\* it has been executed; or its answer is in the completion ring.
AtRest(q)    == waiting # q /\ dHead[q] = sqTail[q] /\ dDone[q] = NotDone /\ Fresh(q)
Submitted(q) == /\ waiting = q /\ sqTail[q] = Inc(q, dHead[q]) /\ sq[q][dHead[q]] = cmd
                /\ dDone[q] = NotDone /\ Fresh(q)
Executed(q)  == /\ waiting = q /\ dHead[q] = sqTail[q]
                /\ dDone[q] # NotDone /\ dDone[q].cid = cmd.cid /\ Fresh(q)
Completed(q) == waiting = q /\ dHead[q] = sqTail[q] /\ dDone[q] = NotDone /\ Answered(q)

Ring(q) == AtRest(q) \/ Submitted(q) \/ Executed(q) \/ Completed(q)

\* What the driver is doing, and which rings it has not used yet.
Control ==
    /\ waiting # "none" => cmd \in Command
    /\ waiting = "admin" => pc \in BringUp /\ cmd.op \in BringUp
    /\ waiting = "io" => /\ pc = "ready" /\ cmd.op \in {"read", "write"}
                         /\ cmd.n > 0 /\ cmd.lba + cmd.n <= BLOCK_COUNT
    /\ pc \notin BringUp \cup {"ready", "failed"} => cqHead["admin"] = 0 /\ phase["admin"] = 1
    /\ pc # "ready" => cqHead["io"] = 0 /\ phase["io"] = 1

\* The frames that the driver holds at each point.
Rings == {"asq", "acq", "cq", "sq"}
HeldExact ==
    /\ pc = "enabling" => held = {"asq", "acq"}
    /\ pc \in {"identify_controller", "nsid_list", "identify_namespace"} =>
          held = {"asq", "acq"} \cup (IF waiting = "admin" THEN {"buf"} ELSE {})
    /\ pc = "create_cq" => held = IF waiting = "admin" THEN Rings ELSE {"asq", "acq"}
    /\ pc = "create_sq" => held = Rings
    /\ pc = "ready" => held = Rings \cup (IF waiting = "io" THEN {"frame"} ELSE {})

IInv == TypeOK /\ Control /\ HeldExact /\ Ring("admin") /\ Ring("io")

----------------------------------------------------------------------------
(* Indices *)

LEMMA DepthNat == \A q \in Qid : Depth(q) \in Nat /\ Depth(q) > 1
BY NvmeAssumption DEF Depth, Qid

\* One step round a ring stays in it and leaves the slot.
LEMMA IncIs == \A q \in Qid : \A i \in Slot(q) :
                  /\ Inc(q, i) = IF i + 1 = Depth(q) THEN 0 ELSE i + 1
                  /\ Inc(q, i) \in Slot(q) /\ Inc(q, i) # i
<1> SUFFICES ASSUME NEW q \in Qid, NEW i \in Slot(q)
             PROVE  /\ Inc(q, i) = IF i + 1 = Depth(q) THEN 0 ELSE i + 1
                    /\ Inc(q, i) \in Slot(q) /\ Inc(q, i) # i
    OBVIOUS
<1> DEFINE D == Depth(q)
<1>1. D \in Nat /\ D > 1
    BY DepthNat
<1>2. i \in 0..(D - 1)
    BY DEF Slot
<1>3. ASSUME NEW d \in Nat, d > 1, NEW j \in 0..(d - 1)
      PROVE  (j + 1) % d = IF j + 1 = d THEN 0 ELSE j + 1
    BY <1>3
<1>4. Inc(q, i) = IF i + 1 = D THEN 0 ELSE i + 1
    BY <1>1, <1>2, <1>3 DEF Inc
<1> QED
    BY <1>1, <1>2, <1>4 DEF Slot

LEMMA IncInSlot ==
    ASSUME NEW q \in Qid, NEW i \in Slot(q) PROVE Inc(q, i) \in Slot(q) /\ Inc(q, i) \in Nat
BY IncIs, DepthNat DEF Slot

\* What the type invariant says of the places in the rings.
LEMMA InSlot ==
    ASSUME TypeOK
    PROVE  /\ sqTail \in [Qid -> Nat] /\ cqHead \in [Qid -> Nat]
           /\ dHead \in [Qid -> Nat] /\ dTail \in [Qid -> Nat]
           /\ \A q \in Qid : /\ sqTail[q] \in Slot(q) /\ cqHead[q] \in Slot(q)
                            /\ dHead[q] \in Slot(q) /\ dTail[q] \in Slot(q)
BY DEF TypeOK

\* The blocks of an accepted call: at least one, and they fit in a frame.
LEMMA BlocksFit ==
    ASSUME NEW lba \in 0..BLOCK_COUNT, NEW len \in 0..MaxLen, Accepted(lba, len)
    PROVE  /\ Blocks(len) \in 1..PageBlocks /\ Blocks(len) \in 1..BLOCK_COUNT
           /\ lba \in Lba /\ lba + Blocks(len) <= BLOCK_COUNT
<1>1. ASSUME NEW a \in Nat, NEW b \in Nat \ {0}, NEW p \in Nat, a > 0, a % b = 0, a <= p
      PROVE  a \div b \in Nat /\ a \div b > 0 /\ a \div b <= p \div b /\ p \div b \in Nat
    BY <1>1
<1>2. /\ len \in Nat /\ len > 0 /\ len % LBA_BYTES = 0 /\ len <= PAGE_SIZE
      /\ LBA_BYTES \in Nat \ {0} /\ PAGE_SIZE \in Nat /\ BLOCK_COUNT \in Nat
    BY NvmeAssumption DEF Accepted
<1>3. Blocks(len) \in Nat /\ Blocks(len) > 0 /\ Blocks(len) <= PageBlocks /\ PageBlocks \in Nat
    BY <1>1, <1>2 DEF Blocks, PageBlocks
<1>4. lba + Blocks(len) <= BLOCK_COUNT
    BY DEF Accepted
<1> QED
    BY <1>2, <1>3, <1>4 DEF Lba

----------------------------------------------------------------------------
(* The initial states *)

LEMMA InitInv == Init => IInv
<1> SUFFICES ASSUME Init PROVE IInv
    OBVIOUS
<1>1. \A q \in Qid : Depth(q) \in Nat /\ Depth(q) > 1 /\ 0 \in Slot(q)
    BY DepthNat DEF Slot
<1>2. TypeOK
  <2>1. /\ \A q \in Qid : {sqTail[q], cqHead[q], dHead[q], dTail[q]} \subseteq Slot(q)
        /\ \A q \in Qid : sq[q] \in [Slot(q) -> Command \cup {NoCommand}]
      BY <1>1 DEF Init
  <2>2. ZeroEntry \in Completion /\ 0 \in 0..(CID_MOD - 1)
      BY NvmeAssumption DEF ZeroEntry, Completion, Bit
  <2>3. \A q \in Qid : cq[q] \in [Slot(q) -> Completion]
      BY <2>2 DEF Init
  <2> QED
      BY <2>1, <2>2, <2>3 DEF Init, TypeOK, Bit
<1>3. Control /\ HeldExact
    BY DEF Init, Control, HeldExact, BringUp, Qid
<1>4. ASSUME NEW q \in Qid PROVE AtRest(q)
  <2>1. \A i \in Slot(q) : cq[q][i].phase = 0 /\ ~(i < 0)
      BY <1>1 DEF Init, ZeroEntry, Slot
  <2> QED
      BY <2>1 DEF AtRest, Fresh, Init, Qid
<1> QED
    BY <1>2, <1>3, <1>4 DEF IInv, Ring, Qid

----------------------------------------------------------------------------
(* submit_sync and the controller keep the rings in order *)

\* A new command goes from rest to the submission ring.
LEMMA SubmitRing ==
    ASSUME TypeOK, NEW q \in Qid, NEW op, NEW lba, NEW n, Submit(q, op, lba, n),
           cqHead' = cqHead, phase' = phase, UNCHANGED devVars, cq'[q] = cq[q], Ring(q)
    PROVE  Ring(q)'
<1>1. AtRest(q)
    BY DEF Ring, AtRest, Submitted, Executed, Completed, Submit, Qid
<1>2. sqTail'[q] = Inc(q, dHead'[q])
    BY <1>1 DEF Submit, AtRest, TypeOK, Inc, devVars
<1>3. sq'[q][dHead'[q]] = cmd'
    BY <1>1 DEF Submit, AtRest, TypeOK, devVars
<1>4. Fresh(q)'
    BY <1>1 DEF AtRest, Fresh, devVars, Slot, Depth
<1> QED
    BY <1>1, <1>2, <1>3, <1>4 DEF Ring, Submitted, AtRest, Submit, devVars

\* Taking the answer leads back to rest, also when the ring wraps.
LEMMA PollRing ==
    ASSUME TypeOK, NEW q \in Qid, Poll(q), UNCHANGED <<cq, devVars>>, Ring(q)
    PROVE  Completed(q) /\ Ring(q)'
<1>0. cqHead[q] \in Slot(q) /\ Depth(q) \in Nat /\ Depth(q) > 1 /\ phase[q] \in Bit
    BY DepthNat DEF TypeOK
<1>1. Completed(q)
  <2>1. ~Fresh(q)
      BY <1>0 DEF Poll, Fresh, Slot, Bit
  <2> QED
      BY <2>1 DEF Ring, AtRest, Submitted, Executed, Poll
<1>2. /\ cqHead'[q] = Inc(q, cqHead[q])
      /\ phase'[q] = IF cqHead'[q] = 0 THEN 1 - phase[q] ELSE phase[q]
    BY DEF Poll, Inc, TypeOK
<1>3. Inc(q, cqHead[q]) = IF cqHead[q] + 1 = Depth(q) THEN 0 ELSE cqHead[q] + 1
    BY <1>0, IncIs
<1>4. Fresh(q)'
  <2>1. dTail'[q] = cqHead'[q] /\ dPhase'[q] = phase'[q]
      BY <1>1, <1>2 DEF Completed, Answered, devVars
  <2>2. ASSUME NEW i \in Slot(q)
        PROVE  cq'[q][i].phase = IF i < cqHead'[q] THEN phase'[q] ELSE 1 - phase'[q]
    <3>1. cq'[q][i].phase = IF i <= cqHead[q] THEN phase[q] ELSE 1 - phase[q]
        BY <1>1 DEF Completed, Answered
    <3> QED
        BY <1>0, <1>2, <1>3, <3>1 DEF Slot, Bit
  <2> QED
      BY <2>1, <2>2 DEF Fresh, Slot, Depth
<1> QED
    BY <1>1, <1>4 DEF Ring, AtRest, Completed, Poll, devVars, Qid

\* The controller executes the command that the driver has submitted.
LEMMA ExecuteRing ==
    ASSUME IInv, NEW q \in Qid, Execute(q)
    PROVE  Submitted(q) /\ sq[q][dHead[q]] = cmd /\ Executed(q)'
<1>1. Ring(q)
    BY DEF IInv, Qid
<1>2. Submitted(q)
    BY <1>1 DEF Ring, AtRest, Executed, Completed, Execute
<1>3. dHead'[q] = sqTail[q]
    BY <1>2 DEF Submitted, Execute, Inc, IInv, TypeOK
<1>4. cmd \in Command /\ cmd.cid \in Int /\ cmd.cid # -1
  <2>1. cmd \in Command
      BY <1>2 DEF Submitted, IInv, Control, Qid
  <2> QED
      BY <2>1, NvmeAssumption DEF Command
<1>5. dDone'[q].cid = cmd.cid /\ dDone'[q] # NotDone
  <2>1. dDone'[q].cid = cmd.cid
      BY <1>2 DEF Submitted, Execute, IInv, TypeOK
  <2> QED
      BY <2>1, <1>4 DEF NotDone
<1>6. Fresh(q)'
    BY <1>2 DEF Submitted, Fresh, Execute, drvVars, Slot, Depth
<1> QED
    BY <1>2, <1>3, <1>5, <1>6 DEF Submitted, Executed, Execute, drvVars

\* The controller answers it in the entry that the driver looks at.
LEMMA AnswerRing ==
    ASSUME IInv, NEW q \in Qid, Answer(q)
    PROVE  Executed(q) /\ Completed(q)'
<1>1. Ring(q)
    BY DEF IInv, Qid
<1>2. Executed(q)
    BY <1>1 DEF Ring, AtRest, Submitted, Completed, Answer
<1>3. /\ cqHead[q] \in Slot(q) /\ Depth(q) \in Nat /\ Depth(q) > 1
      /\ DOMAIN cq[q] = Slot(q) /\ DOMAIN cq = Qid
    BY DepthNat DEF IInv, TypeOK
<1>4. dTail[q] = cqHead[q] /\ dPhase[q] = phase[q]
    BY <1>2 DEF Executed, Fresh
<1>5. cq'[q][cqHead[q]] = [cid |-> cmd.cid, status |-> dDone[q].status, phase |-> phase[q]]
    BY <1>2, <1>3, <1>4 DEF Answer, Executed
<1>6. /\ dTail'[q] = Inc(q, cqHead[q])
      /\ dPhase'[q] = IF dTail'[q] = 0 THEN 1 - phase[q] ELSE phase[q]
    BY <1>4 DEF Answer, Inc, IInv, TypeOK
<1>7. ASSUME NEW i \in Slot(q)
      PROVE  cq'[q][i].phase = IF i <= cqHead[q] THEN phase[q] ELSE 1 - phase[q]
  <2>1. CASE i = cqHead[q]
      BY <2>1, <1>3, <1>5 DEF Slot
  <2>2. CASE i # cqHead[q]
    <3>1. cq'[q][i] = cq[q][i]
        BY <2>2, <1>3, <1>4 DEF Answer
    <3>2. cq[q][i].phase = IF i < cqHead[q] THEN phase[q] ELSE 1 - phase[q]
        BY <1>2 DEF Executed, Fresh
    <3> QED
        BY <3>1, <3>2, <2>2, <1>3 DEF Slot
  <2> QED
      BY <2>1, <2>2
<1>8. Answered(q)'
    BY <1>5, <1>6, <1>7 DEF Answered, Answer, drvVars, Inc, Slot, Depth
<1>9. dDone'[q] = NotDone
    BY DEF Answer, IInv, TypeOK
<1> QED
    BY <1>2, <1>8, <1>9 DEF Completed, Executed, Answer, drvVars

\* A step that leaves a queue alone leaves its ring as it is.
LEMMA OtherRing ==
    ASSUME NEW q \in Qid, Ring(q),
           sqTail'[q] = sqTail[q], cqHead'[q] = cqHead[q], phase'[q] = phase[q], sq'[q] = sq[q],
           cq'[q] = cq[q], dHead'[q] = dHead[q], dTail'[q] = dTail[q], dPhase'[q] = dPhase[q],
           dDone'[q] = dDone[q],
           waiting' = q <=> waiting = q, waiting = q => cmd' = cmd
    PROVE  Ring(q)'
<1>1. Fresh(q) => Fresh(q)'
    BY DEF Fresh, Slot, Depth
<1>2. Answered(q) /\ waiting = q => Answered(q)'
    BY DEF Answered, Slot, Depth, Inc
<1>3. Submitted(q) => Submitted(q)'
    BY <1>1 DEF Submitted, Inc, Depth
<1> QED
    BY <1>1, <1>2, <1>3 DEF Ring, AtRest, Executed, Completed

----------------------------------------------------------------------------
(* Every step keeps the invariant *)

\* The steps of the driver that submit nothing and take no answer.
LEMMA QuietInv ==
    ASSUME IInv, Probe \/ Disable \/ Disabled \/ Enabled \/ SetReady \/ \E len \in 0..MaxLen : Refuse(len)
    PROVE  IInv'
<1> USE DEF Probe, Disable, Disabled, Enabled, SetReady, Refuse, ctrlVars, drvVars, devVars
<1>1. UNCHANGED <<drvVars, cq, devVars, waiting, cmd, held, dma, disk, ioMade>>
    OBVIOUS
<1>2. TypeOK'
  <2>1. /\ pc' \in {"start", "probed", "disabling", "disabled", "enabling", "ready", "failed"}
                   \cup BringUp
        /\ enabled' \in BOOLEAN /\ ready' \in BOOLEAN
      BY Zenon DEF IInv, TypeOK, BringUp
  <2> QED
      BY <1>1, <2>1 DEF IInv, TypeOK, Slot, Depth, Command, Completion, Page, Lba, PageBlocks
<1>3. Control'
    BY <1>1 DEF IInv, Control, BringUp, Command, Lba, PageBlocks
<1>4. HeldExact'
    BY <1>1 DEF IInv, HeldExact, Control, BringUp
<1>5. Ring("admin")' /\ Ring("io")'
    BY <1>1, OtherRing DEF IInv, Qid
<1> QED
    BY <1>2, <1>3, <1>4, <1>5 DEF IInv

LEMMA AdminQueuesInv == ASSUME IInv, AdminQueues PROVE IInv'
<1> USE DEF AdminQueues, drvVars, devVars
<1>0. cq'["io"] = cq["io"] /\ DOMAIN cq' = Qid
    BY DEF IInv, TypeOK, Qid
<1>1. /\ waiting = "none"
      /\ cqHead["admin"] = 0 /\ phase["admin"] = 1
    BY DEF IInv, Control, TypeOK, BringUp, Qid
<1>2. cq'["admin"] = cq["admin"] \/ cq'["admin"] = [i \in Slot("admin") |-> ZeroEntry]
    BY DEF IInv, TypeOK, Qid
<1>3. cq'["admin"] \in [Slot("admin") -> Completion]
  <2>1. ZeroEntry \in Completion
      BY NvmeAssumption DEF ZeroEntry, Completion, Bit
  <2> QED
      BY <1>2, <2>1 DEF IInv, TypeOK, Qid
<1>4. TypeOK'
  <2>1. /\ pc' \in {"enabling", "failed"} /\ enabled' \in BOOLEAN
        /\ held' \subseteq {"asq", "acq", "buf", "cq", "sq", "frame"}
      BY Zenon DEF IInv, TypeOK
  <2>2. \A q \in Qid : cq'[q] \in [Slot(q) -> Completion]
      BY <1>0, <1>3 DEF IInv, TypeOK, Qid
  <2> QED
      BY <1>0, <2>1, <2>2, Zenon DEF IInv, TypeOK, Slot, Depth, Command, Completion, Page, Lba, PageBlocks
<1>5. Control' /\ HeldExact'
    BY <1>1 DEF IInv, Control, HeldExact, BringUp
<1>6. Ring("io")'
    BY <1>0, OtherRing DEF IInv, Qid
<1>7. Ring("admin")'
  <2>1. AtRest("admin")
      BY <1>1 DEF IInv, Ring, AtRest, Submitted, Executed, Completed
  <2>2. \A i \in Slot("admin") : ~(i < 0) /\ cq'["admin"][i].phase = 0
    <3>1. \A i \in Slot("admin") : ~(i < 0)
        BY DepthNat DEF Slot, Qid
    <3> QED
        BY <3>1, <1>1, <1>2, <2>1 DEF AtRest, Fresh, ZeroEntry
  <2> QED
      BY <1>1, <2>1, <2>2 DEF Ring, AtRest, Fresh, Slot, Depth
<1> QED
    BY <1>4, <1>5, <1>6, <1>7 DEF IInv

\* What a new command does to the types of the driver's side of a queue.
LEMMA SubmitType ==
    ASSUME TypeOK, NEW q \in Qid, NEW op \in BringUp \cup {"read", "write"},
           NEW lba \in Lba \cup {0}, NEW n \in 0..PageBlocks, Submit(q, op, lba, n)
    PROVE  /\ cmd' \in Command /\ cmd'.op = op /\ cmd'.lba = lba /\ cmd'.n = n
           /\ sqTail' \in [Qid -> Nat] /\ \A r \in Qid : sqTail'[r] \in Slot(r)
           /\ nextCid' \in [Qid -> 0..(CID_MOD - 1)]
           /\ DOMAIN sq' = Qid
           /\ \A r \in Qid : sq'[r] \in [Slot(r) -> Command \cup {NoCommand}]
           /\ waiting' = q
<1>1. cmd' \in Command /\ cmd'.op = op /\ cmd'.lba = lba /\ cmd'.n = n
    BY DEF Submit, Command, TypeOK
<1>2. Inc(q, sqTail[q]) \in Slot(q) /\ Inc(q, sqTail[q]) \in Nat
    BY InSlot, IncInSlot
<1>3. sqTail' = [sqTail EXCEPT ![q] = Inc(q, sqTail[q])]
    BY DEF Submit, Inc, TypeOK
<1>4. \A r \in Qid : sqTail'[r] \in Slot(r)
    BY <1>2, <1>3, InSlot
<1>5. nextCid' \in [Qid -> 0..(CID_MOD - 1)]
  <2>1. ASSUME NEW m \in Nat \ {0}, NEW c \in 0..(m - 1) PROVE (c + 1) % m \in 0..(m - 1)
      BY <2>1
  <2>2. (nextCid[q] + 1) % CID_MOD \in 0..(CID_MOD - 1)
      BY <2>1, NvmeAssumption DEF TypeOK
  <2> QED
      BY <2>2 DEF Submit, TypeOK
<1>6. \A r \in Qid : sq'[r] \in [Slot(r) -> Command \cup {NoCommand}]
  <2>1. sq' = [sq EXCEPT ![q] = [sq[q] EXCEPT ![sqTail[q]] = cmd']]
      BY DEF Submit
  <2> QED
      BY <2>1, <1>1 DEF TypeOK
<1> QED
    BY <1>1, <1>2, <1>3, <1>4, <1>5, <1>6 DEF Submit, TypeOK

LEMMA AdminSubmitInv == ASSUME IInv, AdminSubmit PROVE IInv'
<1> USE DEF AdminSubmit, ctrlVars, devVars
<1>0. waiting = "none" /\ pc \in BringUp /\ PageBlocks \in Nat
    BY SMTT(30), NvmeAssumption DEF PageBlocks
<1>1. CASE UNCHANGED <<drvVars, cq, waiting, cmd>> /\ pc' = "failed"
  <2> USE <1>1 DEF drvVars
  <2>1. held' \subseteq {"asq", "acq", "buf", "cq", "sq", "frame"}
      BY <1>0 DEF IInv, TypeOK, Submit
  <2>2. TypeOK'
      BY <2>1 DEF IInv, TypeOK, Slot, Depth, Command, Completion, Page, Lba, PageBlocks
  <2>3. Control' /\ HeldExact'
      BY <1>0 DEF IInv, Control, HeldExact, BringUp
  <2>4. Ring("admin")' /\ Ring("io")'
      BY OtherRing DEF IInv, Qid
  <2> QED
      BY <2>2, <2>3, <2>4 DEF IInv
<1>2. CASE /\ Submit("admin", pc, 0, 0) /\ held' = held \cup Wanted(pc)
           /\ cq' = IF pc = "create_cq"
                    THEN [cq EXCEPT !["io"] = [i \in Slot("io") |-> ZeroEntry]] ELSE cq
           /\ UNCHANGED <<pc, cqHead, phase>>
  <2> USE <1>2
  <2>1. cq'["admin"] = cq["admin"] /\ DOMAIN cq' = Qid
      BY DEF IInv, TypeOK, Qid
  <2>2. cq'["io"] = cq["io"] \/ cq'["io"] = [i \in Slot("io") |-> ZeroEntry]
      BY DEF IInv, TypeOK, Qid
  <2>3. /\ cmd' \in Command /\ cmd'.op = pc
        /\ sqTail' \in [Qid -> Nat] /\ \A r \in Qid : sqTail'[r] \in Slot(r)
        /\ nextCid' \in [Qid -> 0..(CID_MOD - 1)]
        /\ DOMAIN sq' = Qid
        /\ \A r \in Qid : sq'[r] \in [Slot(r) -> Command \cup {NoCommand}]
        /\ waiting' = "admin"
      BY <1>0, SubmitType DEF IInv, Qid
  <2>4. TypeOK'
    <3>1. \A r \in Qid : cq'[r] \in [Slot(r) -> Completion]
      <4>1. ZeroEntry \in Completion
          BY NvmeAssumption DEF ZeroEntry, Completion, Bit
      <4> QED
          BY <2>1, <2>2, <4>1 DEF IInv, TypeOK, Qid
    <3>2. held' \subseteq {"asq", "acq", "buf", "cq", "sq", "frame"}
        BY DEF IInv, TypeOK, Wanted
    <3>3. \A r \in Qid : {sqTail'[r], cqHead'[r], dHead'[r], dTail'[r]} \subseteq Slot(r)
        BY SMTT(30), <2>3, InSlot DEF IInv
    <3>4. /\ pc' = pc /\ pc \in BringUp /\ enabled' \in BOOLEAN /\ ready' \in BOOLEAN
          /\ cqHead' \in [Qid -> Nat] /\ dHead' \in [Qid -> Nat] /\ dTail' \in [Qid -> Nat]
          /\ phase' \in [Qid -> Bit] /\ dPhase' \in [Qid -> Bit]
          /\ dDone' \in [Qid -> [cid : 0..(CID_MOD - 1), status : Bit] \cup {NotDone}]
          /\ ioMade' \subseteq {"cq", "sq"} /\ dma' \in Page /\ disk' \in [Lba -> Data]
        BY DEF IInv, TypeOK
    <3> QED
        BY <2>1, <2>3, <3>1, <3>2, <3>3, <3>4, Zenon
        DEF TypeOK, Slot, Depth, Command, Completion, Page, Lba, PageBlocks, Qid
  <2>5. Control'
      BY <1>0, <2>3 DEF IInv, Control, BringUp, Command, Lba, PageBlocks
  <2>6. HeldExact'
      BY <1>0, <2>3 DEF IInv, HeldExact, Wanted, BringUp, Rings
  <2>7. Ring("admin")'
      BY <2>1, SubmitRing DEF IInv, Qid
  <2>8. Ring("io")'
    <3>1. AtRest("io")
        BY <1>0, Zenon DEF IInv, Ring, AtRest, Submitted, Executed, Completed
    <3>2. cqHead["io"] = 0 /\ phase["io"] = 1
        BY <1>0 DEF IInv, Control, BringUp
    <3>3. \A i \in Slot("io") : ~(i < 0) /\ cq'["io"][i].phase = 0
      <4>1. \A i \in Slot("io") : ~(i < 0)
          BY DepthNat DEF Slot, Qid
      <4> QED
          BY <4>1, <2>2, <3>1, <3>2 DEF AtRest, Fresh, ZeroEntry
    <3>4. sqTail'["io"] = sqTail["io"]
        BY DEF Submit, IInv, TypeOK, Qid
    <3> QED
        BY SMTT(30), <2>3, <3>1, <3>2, <3>3, <3>4 DEF Ring, AtRest, Fresh, Slot, Depth
  <2> QED
      BY <2>4, <2>5, <2>6, <2>7, <2>8 DEF IInv
<1> QED
    BY <1>1, <1>2, Zenon

\* What taking an answer does to the types of the driver's side of a queue.
LEMMA PollType ==
    ASSUME TypeOK, NEW q \in Qid, Poll(q)
    PROVE  /\ cqHead' \in [Qid -> Nat] /\ \A r \in Qid : cqHead'[r] \in Slot(r)
           /\ phase' \in [Qid -> Bit]
           /\ waiting' = "none" /\ cmd' = NoCommand /\ waiting = q
<1>1. Inc(q, cqHead[q]) \in Slot(q) /\ Inc(q, cqHead[q]) \in Nat
    BY InSlot, IncInSlot
<1>2. cqHead' = [cqHead EXCEPT ![q] = Inc(q, cqHead[q])]
    BY Zenon DEF Poll, Inc, TypeOK
<1>3. phase' \in [Qid -> Bit]
  <2>1. phase \in [Qid -> Bit]
      BY DEF TypeOK
  <2>2. phase' \in {phase, [phase EXCEPT ![q] = 1 - phase[q]]}
      BY <2>1, Zenon DEF Poll
  <2>3. phase[q] \in Bit /\ 1 - phase[q] \in Bit
      BY <2>1 DEF Bit
  <2> QED
      BY <2>1, <2>2, <2>3, Zenon
<1> QED
    BY <1>1, <1>2, <1>3, InSlot DEF Poll

LEMMA AdminDoneInv == ASSUME IInv, AdminDone PROVE IInv'
<1> USE DEF AdminDone, ctrlVars, devVars
<1>1. /\ cqHead' \in [Qid -> Nat] /\ \A r \in Qid : cqHead'[r] \in Slot(r)
      /\ phase' \in [Qid -> Bit]
      /\ waiting' = "none" /\ cmd' = NoCommand /\ waiting = "admin"
    BY PollType DEF IInv, Qid
<1>2. sqTail' = sqTail /\ nextCid' = nextCid /\ sq' = sq
    BY DEF Poll
<1>3. pc' \in BringUp \cup {"ready", "failed"}
    BY DEF After, BringUp
<1>4. TypeOK'
  <2>1. held' \subseteq {"asq", "acq", "buf", "cq", "sq", "frame"}
      BY DEF IInv, TypeOK
  <2>2. \A r \in Qid : {sqTail'[r], cqHead'[r], dHead'[r], dTail'[r]} \subseteq Slot(r)
      BY SMTT(30), <1>1, <1>2, InSlot DEF IInv
  <2>3. /\ enabled' \in BOOLEAN /\ ready' \in BOOLEAN
        /\ sqTail' \in [Qid -> Nat] /\ dHead' \in [Qid -> Nat] /\ dTail' \in [Qid -> Nat]
        /\ dPhase' \in [Qid -> Bit] /\ nextCid' \in [Qid -> 0..(CID_MOD - 1)]
        /\ DOMAIN sq' = Qid /\ DOMAIN cq' = Qid
        /\ \A r \in Qid : sq'[r] \in [Slot(r) -> Command \cup {NoCommand}]
        /\ \A r \in Qid : cq'[r] \in [Slot(r) -> Completion]
        /\ dDone' \in [Qid -> [cid : 0..(CID_MOD - 1), status : Bit] \cup {NotDone}]
        /\ ioMade' \subseteq {"cq", "sq"} /\ dma' \in Page /\ disk' \in [Lba -> Data]
      BY <1>2 DEF IInv, TypeOK
  <2> QED
      BY <1>1, <1>3, <2>1, <2>2, <2>3, Zenon
      DEF TypeOK, Slot, Depth, Command, Completion, Page, Lba, PageBlocks, Qid
<1>5. cqHead'["io"] = cqHead["io"] /\ phase'["io"] = phase["io"]
    BY DEF Poll, IInv, TypeOK, Qid
<1>6. Control'
    BY <1>1, <1>3, <1>5 DEF IInv, Control, BringUp
<1>7. HeldExact'
    BY <1>1 DEF IInv, HeldExact, BringUp, Rings, After
<1>8. Ring("admin")'
    BY PollRing DEF IInv, Qid
<1>9. Ring("io")'
    BY <1>1, <1>2, <1>5, OtherRing DEF IInv, Qid
<1> QED
    BY <1>4, <1>6, <1>7, <1>8, <1>9 DEF IInv

LEMMA BeginInv ==
    ASSUME IInv, NEW op \in {"read", "write"}, NEW lba \in 0..BLOCK_COUNT, NEW len \in 0..MaxLen,
           Begin(op, lba, len)
    PROVE  IInv'
<1> USE DEF Begin, ctrlVars, devVars
<1>1. /\ Blocks(len) \in 1..PageBlocks /\ lba \in Lba /\ lba + Blocks(len) <= BLOCK_COUNT
      /\ PageBlocks \in Nat
    BY BlocksFit, NvmeAssumption DEF PageBlocks
<1>2. /\ cmd' \in Command /\ cmd'.op = op /\ cmd'.lba = lba /\ cmd'.n = Blocks(len)
      /\ sqTail' \in [Qid -> Nat] /\ \A r \in Qid : sqTail'[r] \in Slot(r)
      /\ nextCid' \in [Qid -> 0..(CID_MOD - 1)]
      /\ DOMAIN sq' = Qid
      /\ \A r \in Qid : sq'[r] \in [Slot(r) -> Command \cup {NoCommand}]
      /\ waiting' = "io" /\ waiting = "none"
  <2>1. "io" \in Qid /\ Blocks(len) \in 0..PageBlocks
      BY <1>1 DEF Qid
  <2> QED
      BY <1>1, <2>1, SubmitType, Zenon DEF IInv, Submit
<1>3. TypeOK'
  <2>1. held' \subseteq {"asq", "acq", "buf", "cq", "sq", "frame"}
      BY Zenon DEF IInv, TypeOK
  <2>2. \A r \in Qid : {sqTail'[r], cqHead'[r], dHead'[r], dTail'[r]} \subseteq Slot(r)
    <3>1. TypeOK /\ cqHead' = cqHead /\ dHead' = dHead /\ dTail' = dTail
        BY Zenon DEF IInv
    <3>2. \A r \in Qid : cqHead[r] \in Slot(r) /\ dHead[r] \in Slot(r) /\ dTail[r] \in Slot(r)
        BY <3>1, InSlot, Zenon
    <3> SUFFICES ASSUME NEW r \in Qid, NEW v \in {sqTail'[r], cqHead'[r], dHead'[r], dTail'[r]}
                 PROVE  v \in Slot(r)
        BY Zenon
    <3>3. v = sqTail'[r] \/ v = cqHead[r] \/ v = dHead[r] \/ v = dTail[r]
        BY <3>1, Zenon
    <3> QED
        BY <1>2, <3>2, <3>3, Zenon
  <2>3. /\ pc' = "ready" /\ enabled' \in BOOLEAN /\ ready' \in BOOLEAN
        /\ cqHead' \in [Qid -> Nat] /\ dHead' \in [Qid -> Nat] /\ dTail' \in [Qid -> Nat]
        /\ phase' \in [Qid -> Bit] /\ dPhase' \in [Qid -> Bit]
        /\ DOMAIN cq' = Qid /\ \A r \in Qid : cq'[r] \in [Slot(r) -> Completion]
        /\ dDone' \in [Qid -> [cid : 0..(CID_MOD - 1), status : Bit] \cup {NotDone}]
        /\ ioMade' \subseteq {"cq", "sq"} /\ dma' \in Page /\ disk' \in [Lba -> Data]
      BY DEF IInv, TypeOK
  <2> QED
      BY <1>2, <2>1, <2>2, <2>3, Zenon
      DEF TypeOK, Slot, Depth, Command, Completion, Page, Lba, PageBlocks, Qid
<1>4. Control'
    BY <1>1, <1>2 DEF Control, BringUp, Command, Lba, PageBlocks
<1>5. HeldExact'
    BY <1>2 DEF IInv, HeldExact, Rings
<1>6. Ring("io")'
    BY SubmitRing DEF IInv, Qid
<1>7. Ring("admin")'
  <2>1. sqTail'["admin"] = sqTail["admin"] /\ sq'["admin"] = sq["admin"]
      BY DEF Submit, IInv, TypeOK, Qid
  <2> QED
      BY <1>2, <2>1, OtherRing, Zenon DEF IInv, Qid
<1> QED
    BY <1>3, <1>4, <1>5, <1>6, <1>7 DEF IInv

LEMMA ReturnInv == ASSUME IInv, Return PROVE IInv'
<1> USE DEF Return, ctrlVars, devVars
<1>1. /\ cqHead' \in [Qid -> Nat] /\ \A r \in Qid : cqHead'[r] \in Slot(r)
      /\ phase' \in [Qid -> Bit]
      /\ waiting' = "none" /\ cmd' = NoCommand /\ waiting = "io"
    BY PollType DEF IInv, Qid
<1>2. sqTail' = sqTail /\ nextCid' = nextCid /\ sq' = sq
    BY DEF Poll
<1>3. TypeOK'
  <2>1. held' \subseteq {"asq", "acq", "buf", "cq", "sq", "frame"}
      BY DEF IInv, TypeOK
  <2>2. \A r \in Qid : {sqTail'[r], cqHead'[r], dHead'[r], dTail'[r]} \subseteq Slot(r)
      BY <1>1, <1>2, Zenon DEF IInv, TypeOK
  <2>3. /\ pc' = "ready" /\ enabled' \in BOOLEAN /\ ready' \in BOOLEAN
        /\ sqTail' \in [Qid -> Nat] /\ dHead' \in [Qid -> Nat] /\ dTail' \in [Qid -> Nat]
        /\ dPhase' \in [Qid -> Bit] /\ nextCid' \in [Qid -> 0..(CID_MOD - 1)]
        /\ DOMAIN sq' = Qid /\ DOMAIN cq' = Qid
        /\ \A r \in Qid : sq'[r] \in [Slot(r) -> Command \cup {NoCommand}]
        /\ \A r \in Qid : cq'[r] \in [Slot(r) -> Completion]
        /\ dDone' \in [Qid -> [cid : 0..(CID_MOD - 1), status : Bit] \cup {NotDone}]
        /\ ioMade' \subseteq {"cq", "sq"} /\ dma' \in Page /\ disk' \in [Lba -> Data]
      BY <1>2, Zenon DEF IInv, TypeOK
  <2> QED
      BY <1>1, <2>1, <2>2, <2>3, Zenon
      DEF TypeOK, Slot, Depth, Command, Completion, Page, Lba, PageBlocks, Qid
<1>4. cqHead'["admin"] = cqHead["admin"] /\ phase'["admin"] = phase["admin"]
    BY DEF Poll, IInv, TypeOK, Qid
<1>5. Control' /\ HeldExact'
    BY <1>1 DEF IInv, Control, HeldExact, Rings, BringUp
<1>6. Ring("io")'
    BY PollRing DEF IInv, Qid
<1>7. Ring("admin")'
    BY <1>1, <1>2, <1>4, OtherRing DEF IInv, Qid
<1> QED
    BY <1>3, <1>5, <1>6, <1>7 DEF IInv

LEMMA ExecuteInv == ASSUME IInv, NEW q \in Qid, Execute(q) PROVE IInv'
<1> USE DEF drvVars
<1>1. Submitted(q) /\ sq[q][dHead[q]] = cmd /\ Executed(q)'
    BY ExecuteRing
<1>2. cmd \in Command /\ waiting = q
    BY <1>1, Zenon DEF Submitted, IInv, Control, Qid
<1>3. cmd.op \in {"read", "write"} => cmd.lba + cmd.n <= BLOCK_COUNT
    BY <1>2 DEF IInv, Control, Qid, BringUp
<1>4. TypeOK'
  <2>1. Inc(q, dHead[q]) \in Slot(q) /\ Inc(q, dHead[q]) \in Nat
      BY InSlot, IncInSlot DEF IInv
  <2>2. dHead' = [dHead EXCEPT ![q] = Inc(q, dHead[q])]
      BY Zenon DEF Execute, Inc, IInv, TypeOK
  <2>3. \A r \in Qid : {sqTail'[r], cqHead'[r], dHead'[r], dTail'[r]} \subseteq Slot(r)
    <3> SUFFICES ASSUME NEW r \in Qid
                 PROVE  /\ sqTail'[r] \in Slot(r) /\ cqHead'[r] \in Slot(r)
                        /\ dHead'[r] \in Slot(r) /\ dTail'[r] \in Slot(r)
        BY Zenon
    <3>1. sqTail' = sqTail /\ cqHead' = cqHead /\ dTail' = dTail
        BY Zenon DEF Execute
    <3>2. dHead'[r] \in Slot(r)
        BY <2>1, <2>2, InSlot DEF IInv
    <3> QED
        BY <3>1, <3>2, InSlot DEF IInv
  <2>4. dHead' \in [Qid -> Nat]
      BY <2>1, <2>2, InSlot DEF IInv
  <2>5. dDone' \in [Qid -> [cid : 0..(CID_MOD - 1), status : Bit] \cup {NotDone}]
    <3>1. cmd.cid \in 0..(CID_MOD - 1)
        BY <1>2 DEF Command
    <3>2. dDone' \in {[dDone EXCEPT ![q] = [cid |-> cmd.cid, status |-> b]] : b \in Bit}
        BY <1>1 DEF Execute, Bit
    <3>3. dDone \in [Qid -> [cid : 0..(CID_MOD - 1), status : Bit] \cup {NotDone}]
        BY Zenon DEF IInv, TypeOK
    <3>4. PICK b \in Bit : dDone' = [dDone EXCEPT ![q] = [cid |-> cmd.cid, status |-> b]]
        BY <3>2
    <3>5. [cid |-> cmd.cid, status |-> b] \in [cid : 0..(CID_MOD - 1), status : Bit]
        BY <3>1
    <3> QED
        BY <3>3, <3>4, <3>5, Zenon
  <2>6. ioMade' \subseteq {"cq", "sq"}
      BY DEF Execute, IInv, TypeOK
  <2>7. dma' \in Page
    <3>1. CASE dma' = dma
        BY <3>1, Zenon DEF IInv, TypeOK
    <3>2. CASE /\ cmd.op = "read"
               /\ dma' = [i \in DOMAIN dma |-> IF i < cmd.n THEN disk[cmd.lba + i] ELSE dma[i]]
      <4>0. DOMAIN dma = 0..(PageBlocks - 1)
          BY Zenon DEF IInv, TypeOK, Page
      <4>1. PageBlocks \in Nat /\ BLOCK_COUNT \in Nat
          BY SMTT(30), NvmeAssumption DEF PageBlocks
      <4>2. cmd.n \in Nat /\ cmd.lba \in Nat /\ cmd.lba + cmd.n <= BLOCK_COUNT
        <5>1. cmd.n \in 0..PageBlocks /\ cmd.lba \in Lba \cup {0}
            BY <1>2 DEF Command
        <5>2. cmd.lba + cmd.n <= BLOCK_COUNT
            BY <1>3, <3>2
        <5> QED
            BY <4>1, <5>1, <5>2 DEF Lba
      <4>3. ASSUME NEW i \in 0..(PageBlocks - 1), i < cmd.n PROVE disk[cmd.lba + i] \in Data
        <5>1. cmd.lba + i \in Lba
            BY <4>1, <4>2, <4>3 DEF Lba
        <5> QED
            BY <5>1 DEF IInv, TypeOK
      <4>4. ASSUME NEW i \in 0..(PageBlocks - 1)
            PROVE  (IF i < cmd.n THEN disk[cmd.lba + i] ELSE dma[i]) \in Data
          BY <4>3, Zenon DEF IInv, TypeOK, Page
      <4>5. dma' = [i \in 0..(PageBlocks - 1) |->
                      IF i < cmd.n THEN disk[cmd.lba + i] ELSE dma[i]]
          BY <3>2, <4>0
      <4> QED
          BY <4>4, <4>5, Zenon DEF Page
    <3> QED
        BY <1>1, <3>1, <3>2 DEF Execute
  <2>8. disk' \in [Lba -> Data]
    <3>1. CASE disk' = disk
        BY <3>1, Zenon DEF IInv, TypeOK
    <3>2. CASE /\ cmd.op = "write"
               /\ disk' = [l \in Lba |-> IF l \in cmd.lba..(cmd.lba + cmd.n - 1)
                                         THEN dma[l - cmd.lba] ELSE disk[l]]
      <4>1. /\ cmd.n \in 0..PageBlocks /\ cmd.lba \in Nat
            /\ PageBlocks \in Nat /\ BLOCK_COUNT \in Nat
          BY <1>2, NvmeAssumption DEF Command, Lba, PageBlocks
      <4>2. ASSUME NEW l \in Lba, l \in cmd.lba..(cmd.lba + cmd.n - 1)
            PROVE  dma[l - cmd.lba] \in Data
        <5>1. l - cmd.lba \in 0..(PageBlocks - 1)
            BY <4>1, <4>2 DEF Lba
        <5> QED
            BY <5>1, Zenon DEF IInv, TypeOK, Page
      <4> QED
          BY <3>2, <4>2, Zenon DEF IInv, TypeOK
    <3> QED
        BY <1>1, <3>1, <3>2 DEF Execute
  <2>9. /\ pc' = pc /\ enabled' = enabled /\ ready' = ready /\ waiting' = waiting /\ cmd' = cmd
        /\ held' = held /\ sqTail' = sqTail /\ cqHead' = cqHead /\ phase' = phase
        /\ nextCid' = nextCid /\ sq' = sq /\ cq' = cq /\ dTail' = dTail /\ dPhase' = dPhase
      BY Zenon DEF Execute
  <2> QED
      BY <2>3, <2>4, <2>5, <2>6, <2>7, <2>8, <2>9, Zenon
      DEF IInv, TypeOK, Slot, Depth, Command, Completion, Page, Lba, PageBlocks
<1>5. Control' /\ HeldExact'
    BY Zenon DEF IInv, Control, HeldExact, Execute, Command, Lba, PageBlocks
<1>6. ASSUME NEW r \in Qid, r # q PROVE Ring(r)'
    BY <1>6, OtherRing, Zenon DEF IInv, TypeOK, Execute, Qid
<1>7. Ring(q)'
    BY <1>1, Zenon DEF Ring
<1> QED
    BY <1>4, <1>5, <1>6, <1>7 DEF IInv, Qid

LEMMA AnswerInv == ASSUME IInv, NEW q \in Qid, Answer(q) PROVE IInv'
<1> USE DEF drvVars, ctrlVars
<1>1. Executed(q) /\ Completed(q)'
    BY AnswerRing
<1>2. TypeOK'
  <2>1. dTail[q] \in Slot(q) /\ Inc(q, dTail[q]) \in Slot(q) /\ Inc(q, dTail[q]) \in Nat
      BY InSlot, IncInSlot DEF IInv
  <2>2. dTail' = [dTail EXCEPT ![q] = Inc(q, dTail[q])]
      BY DEF Answer, Inc, IInv, TypeOK
  <2>3. \A r \in Qid : {sqTail'[r], cqHead'[r], dHead'[r], dTail'[r]} \subseteq Slot(r)
      BY <2>1, <2>2, InSlot DEF IInv, Answer
  <2>4. dTail' \in [Qid -> Nat]
      BY <2>1, <2>2, InSlot DEF IInv
  <2>5. dPhase' \in [Qid -> Bit]
    <3>1. dPhase \in [Qid -> Bit]
        BY DEF IInv, TypeOK
    <3>2. dPhase' \in {dPhase, [dPhase EXCEPT ![q] = 1 - dPhase[q]]}
        BY <3>1, Zenon DEF Answer
    <3>3. dPhase[q] \in Bit /\ 1 - dPhase[q] \in Bit
        BY <3>1 DEF Bit
    <3> QED
        BY <3>1, <3>2, <3>3, Zenon
  <2>6. DOMAIN cq' = Qid /\ \A r \in Qid : cq'[r] \in [Slot(r) -> Completion]
    <3>1. dDone[q] \in [cid : 0..(CID_MOD - 1), status : Bit]
        BY DEF Answer, IInv, TypeOK
    <3>2. [cid |-> dDone[q].cid, status |-> dDone[q].status, phase |-> dPhase[q]] \in Completion
        BY <3>1 DEF Completion, IInv, TypeOK
    <3> QED
        BY <2>1, <3>2 DEF Answer, IInv, TypeOK
  <2>7. dDone' \in [Qid -> [cid : 0..(CID_MOD - 1), status : Bit] \cup {NotDone}]
      BY DEF Answer, IInv, TypeOK
  <2>8. /\ pc' = pc /\ enabled' = enabled /\ ready' = ready /\ ioMade' = ioMade
        /\ waiting' = waiting /\ cmd' = cmd /\ held' = held /\ dma' = dma /\ disk' = disk
        /\ sqTail' = sqTail /\ cqHead' = cqHead /\ phase' = phase
        /\ nextCid' = nextCid /\ sq' = sq /\ dHead' = dHead
      BY DEF Answer
  <2> QED
      BY <2>3, <2>4, <2>5, <2>6, <2>7, <2>8, Zenon
      DEF IInv, TypeOK, Slot, Depth, Command, Completion, Page, Lba, PageBlocks
<1>3. Control' /\ HeldExact'
    BY DEF IInv, Control, HeldExact, Answer, Command, Lba, PageBlocks
<1>4. ASSUME NEW r \in Qid, r # q PROVE Ring(r)'
    BY <1>4, OtherRing DEF IInv, TypeOK, Answer, Qid
<1>5. Ring(q)'
    BY <1>1 DEF Ring
<1> QED
    BY <1>2, <1>3, <1>4, <1>5 DEF IInv, Qid

LEMMA StepInv == IInv /\ [Next]_vars => IInv'
<1> SUFFICES ASSUME IInv, [Next]_vars PROVE IInv'
    OBVIOUS
<1>1. CASE Controller
    BY <1>1, QuietInv, ExecuteInv, AnswerInv DEF Controller
<1>2. CASE Driver
    BY <1>2, QuietInv, AdminQueuesInv, AdminSubmitInv, AdminDoneInv, ReturnInv DEF Driver
<1>3. CASE Calls
    BY <1>3, QuietInv, BeginInv DEF Calls
<1>4. CASE UNCHANGED vars
  <2> USE <1>4 DEF vars, ctrlVars, devVars, drvVars
  <2>1. TypeOK'
      BY Zenon DEF IInv, TypeOK, Slot, Depth, Command, Completion, Page, Lba, PageBlocks
  <2>2. Control' /\ HeldExact'
      BY DEF IInv, Control, HeldExact, Command, Lba, PageBlocks
  <2>3. Ring("admin")' /\ Ring("io")'
      BY OtherRing DEF IInv, Qid
  <2> QED
      BY <2>1, <2>2, <2>3 DEF IInv
<1> QED
    BY <1>1, <1>2, <1>3, <1>4 DEF Next

LEMMA Invariance == Spec => []IInv
BY InitInv, StepInv, PTL DEF Spec

----------------------------------------------------------------------------
(* The theorems *)

\* Rings, queues, buffers and the call under way keep their shape (TypeOK): for
\* every depth, whatever the controller answers, no index leaves its ring.
THEOREM NvmeTypes == Spec => []TypeOK
<1>1. IInv => TypeOK
    BY DEF IInv
<1> QED
    BY <1>1, Invariance, PTL

\* The driver never takes an old entry, or the answer to another command, for
\* the answer to its own, although it looks at the phase bit only: for rings of
\* any length and however often they wrap.
THEOREM AnswersAreOwn == Spec => []AnswerIsOwn
<1>1. IInv => AnswerIsOwn
  <2> SUFFICES ASSUME IInv, NEW q \in Qid, waiting = q, cq[q][cqHead[q]].phase = phase[q]
               PROVE  cq[q][cqHead[q]].cid = cmd.cid /\ dHead[q] = sqTail[q]
      BY DEF AnswerIsOwn
  <2>1. cqHead[q] \in Slot(q) /\ Depth(q) \in Nat /\ phase[q] \in Bit /\ Ring(q)
      BY DepthNat DEF IInv, TypeOK, Qid
  <2>2. ~Fresh(q)
      BY <2>1 DEF Fresh, Slot, Bit
  <2> QED
      BY <2>1, <2>2 DEF Ring, AtRest, Submitted, Executed, Completed, Answered
<1> QED
    BY <1>1, Invariance, PTL

\* The driver holds exactly the frames of its rings between two calls, and the
\* frame of a call as long as the controller may use it.
THEOREM FramesAreBalanced == Spec => []FramesBalanced
<1>1. IInv => FramesBalanced
  <2> SUFFICES ASSUME IInv PROVE FramesBalanced
      OBVIOUS
  <2>1. pc = "ready" /\ waiting = "none" => held = {"asq", "acq", "cq", "sq"}
      BY DEF IInv, HeldExact, Rings
  <2>2. ASSUME dHead["io"] # sqTail["io"] PROVE "frame" \in held
    <3>1. waiting = "io" /\ pc = "ready"
        BY <2>2 DEF IInv, Ring, AtRest, Submitted, Executed, Completed, Control
    <3> QED
        BY <3>1 DEF IInv, HeldExact
  <2> QED
      BY <2>1, <2>2 DEF FramesBalanced
<1> QED
    BY <1>1, Invariance, PTL

----------------------------------------------------------------------------
(* The driver implements the block device *)

\* A call is under way for the file system exactly while the driver waits on the
\* I/O queue.
LEMMA IdleAbs == waiting # "io" => AbsCall = Abs!Idle
BY DEF AbsCall, Abs!Idle

LEMMA BusyAbs ==
    waiting = "io" => /\ AbsCall # Abs!Idle
                      /\ AbsCall.op = cmd.op /\ AbsCall.lba = cmd.lba /\ AbsCall.n = cmd.n
                      /\ AbsCall.buf = [i \in 0..(cmd.n - 1) |-> dma[i]]
                      /\ AbsCall.done = (dHead["io"] = sqTail["io"])
BY Zenon DEF AbsCall, Abs!Idle

\* A call that the driver accepts begins.
LEMMA BeginAbs ==
    ASSUME IInv, NEW op \in {"read", "write"}, NEW lba \in 0..BLOCK_COUNT, NEW len \in 0..MaxLen,
           Begin(op, lba, len)
    PROVE  Abs!Next
<1> DEFINE n   == Blocks(len)
           buf == [i \in 0..(n - 1) |-> dma'[i]]
<1>1. /\ n \in 1..PageBlocks /\ n \in 1..BLOCK_COUNT /\ lba \in Lba
      /\ lba + n <= BLOCK_COUNT /\ PageBlocks \in Nat
    BY BlocksFit, NvmeAssumption DEF Begin, PageBlocks
<1>2. AbsCall = Abs!Idle
    BY IdleAbs DEF Begin, Submit
<1>3. dHead'["io"] # sqTail'["io"]
  <2>1. AtRest("io") /\ dHead["io"] \in Slot("io")
      BY DEF Begin, Submit, IInv, Ring, AtRest, Submitted, Executed, Completed, TypeOK, Qid
  <2>2. sqTail'["io"] = Inc("io", dHead["io"]) /\ dHead' = dHead
      BY <2>1 DEF Begin, Submit, AtRest, Inc, devVars, IInv, TypeOK, Qid
  <2> QED
      BY <2>1, <2>2, IncIs DEF Qid
<1>4. buf \in Abs!Buffer(n)
  <2>1. \A i \in 0..(n - 1) : i \in 0..(PageBlocks - 1)
      BY <1>1
  <2> QED
      BY <2>1 DEF Abs!Buffer, Begin, Page
<1>5. AbsCall' = [op |-> op, lba |-> lba, n |-> n, buf |-> buf, done |-> FALSE, ok |-> FALSE]
    BY <1>3, Zenon DEF AbsCall, Begin, Submit
<1>6. Abs!Begin(op, lba, n, buf)
    BY <1>1, <1>2, <1>5 DEF Abs!Begin, Abs!Lba, Lba, Begin
<1> QED
    BY <1>1, <1>4, <1>6 DEF Abs!Next, Abs!Lba, Lba

\* The controller's execution of the command is the moment of its effect.
LEMMA ExecuteAbs ==
    ASSUME IInv, Execute("io")
    PROVE  Abs!Next
<1>1. Submitted("io") /\ sq["io"][dHead["io"]] = cmd /\ Executed("io")'
    BY ExecuteRing DEF Qid
<1>2. /\ waiting = "io" /\ waiting' = "io" /\ cmd' = cmd /\ result' = result
      /\ cmd \in Command /\ cmd.op \in {"read", "write"}
      /\ cmd.n > 0 /\ cmd.lba + cmd.n <= BLOCK_COUNT
    BY <1>1 DEF Submitted, Execute, IInv, Control
<1>3. AbsCall # Abs!Idle /\ AbsCall.done = FALSE
  <2>1. dHead["io"] # sqTail["io"]
      BY Zenon DEF Execute
  <2> QED
      BY <1>2, <2>1, BusyAbs, Zenon
<1>4. dHead'["io"] = sqTail'["io"] /\ dDone'["io"] # NotDone
    BY <1>1 DEF Executed
<1>5. /\ AbsCall.op = cmd.op /\ AbsCall.lba = cmd.lba /\ AbsCall.n = cmd.n
      /\ AbsCall.buf = [i \in 0..(cmd.n - 1) |-> dma[i]]
    BY <1>2, BusyAbs, Zenon
<1>6. AbsCall' = [op |-> cmd.op, lba |-> cmd.lba, n |-> cmd.n,
                  buf |-> [i \in 0..(cmd.n - 1) |-> dma'[i]], done |-> TRUE,
                  ok |-> dDone'["io"].status = 0]
    BY <1>2, <1>4, Zenon DEF AbsCall
<1>7. CASE dDone'["io"].status = 1 /\ UNCHANGED <<dma, disk>>
  <2>1. (dDone'["io"].status = 0) = FALSE
      BY <1>7
  <2>2. AbsCall' = Abs!Done(FALSE, AbsCall.buf)
      BY <1>5, <1>6, <1>7, <2>1, Zenon DEF Abs!Done
  <2>3. Abs!Fail
      BY <1>2, <1>3, <1>7, <2>2 DEF Abs!Fail
  <2> QED
      BY <2>3 DEF Abs!Next
<1>8. CASE /\ dDone'["io"].status = 0 /\ cmd.op = "read" /\ disk' = disk
           /\ dma' = [i \in DOMAIN dma |-> IF i < cmd.n THEN disk[cmd.lba + i] ELSE dma[i]]
  <2>1. [i \in 0..(cmd.n - 1) |-> dma'[i]] = [i \in 0..(AbsCall.n - 1) |-> disk[AbsCall.lba + i]]
    <3>1. cmd.n \in 0..PageBlocks /\ PageBlocks \in Nat
        BY <1>2, NvmeAssumption DEF Command, PageBlocks
    <3>2. DOMAIN dma = 0..(PageBlocks - 1)
        BY Zenon DEF IInv, TypeOK, Page
    <3>3. \A i \in 0..(cmd.n - 1) : i \in 0..(PageBlocks - 1) /\ i < cmd.n
        BY <3>1
    <3>4. \A i \in 0..(cmd.n - 1) : dma'[i] = disk[cmd.lba + i]
        BY <1>8, <3>2, <3>3, Zenon
    <3> QED
        BY <1>5, <3>4, Zenon
  <2>2. (dDone'["io"].status = 0) = TRUE
      BY <1>8
  <2>3. AbsCall' = Abs!Done(TRUE, [i \in 0..(AbsCall.n - 1) |-> disk[AbsCall.lba + i]])
      BY <1>5, <1>6, <2>1, <2>2, Zenon DEF Abs!Done
  <2>4. Abs!Perform
      BY <1>2, <1>3, <1>5, <1>8, <2>3 DEF Abs!Perform
  <2> QED
      BY <2>4 DEF Abs!Next
<1>9. CASE /\ dDone'["io"].status = 0 /\ cmd.op = "write" /\ dma' = dma
           /\ disk' = [l \in Lba |-> IF l \in cmd.lba..(cmd.lba + cmd.n - 1)
                                     THEN dma[l - cmd.lba] ELSE disk[l]]
  <2>1. (dDone'["io"].status = 0) = TRUE
      BY <1>9
  <2>2. AbsCall' = Abs!Done(TRUE, AbsCall.buf)
      BY <1>5, <1>6, <1>9, <2>1, Zenon DEF Abs!Done
  <2>3. disk' = [l \in Lba |-> IF l \in AbsCall.lba..(AbsCall.lba + AbsCall.n - 1)
                               THEN AbsCall.buf[l - AbsCall.lba] ELSE disk[l]]
    <3>1. cmd.lba \in Nat /\ cmd.n \in Nat /\ BLOCK_COUNT \in Nat
        BY <1>2, NvmeAssumption DEF Command, Lba, PageBlocks
    <3>2. ASSUME NEW l \in Lba, l \in cmd.lba..(cmd.lba + cmd.n - 1)
          PROVE  AbsCall.buf[l - AbsCall.lba] = dma[l - cmd.lba]
      <4>1. l - cmd.lba \in 0..(cmd.n - 1)
          BY <3>1, <3>2 DEF Lba
      <4> QED
          BY <1>5, <4>1
    <3> QED
        BY <1>5, <1>9, <3>2
  <2>4. Abs!Perform
      BY <1>2, <1>3, <1>5, <1>9, <2>2, <2>3, Zenon DEF Abs!Perform, Abs!Lba, Lba
  <2> QED
      BY <2>4 DEF Abs!Next
<1>10. \/ /\ dDone' = [dDone EXCEPT !["io"] = [cid |-> cmd.cid, status |-> 0]]
          /\ dma' = IF cmd.op = "read"
                    THEN [i \in DOMAIN dma |-> IF i < cmd.n THEN disk[cmd.lba + i] ELSE dma[i]]
                    ELSE dma
          /\ disk' = IF cmd.op = "write"
                     THEN [l \in Lba |-> IF l \in cmd.lba..(cmd.lba + cmd.n - 1)
                                         THEN dma[l - cmd.lba] ELSE disk[l]]
                     ELSE disk
       \/ /\ dDone' = [dDone EXCEPT !["io"] = [cid |-> cmd.cid, status |-> 1]]
          /\ UNCHANGED <<dma, disk>>
    BY <1>1 DEF Execute
<1>11. DOMAIN dDone = Qid /\ "io" \in Qid
    BY Zenon DEF IInv, TypeOK, Qid
<1> QED
    BY <1>2, <1>7, <1>8, <1>9, <1>10, <1>11

\* The call returns what the answer says.
LEMMA ReturnAbs == ASSUME IInv, Return PROVE Abs!Next
<1>1. Completed("io")
    BY PollRing DEF Return, IInv, Qid
<1>2. /\ waiting = "io" /\ waiting' = "none" /\ disk' = disk
      /\ dHead["io"] = sqTail["io"] /\ dDone["io"] = NotDone
    BY <1>1, Zenon DEF Completed, Return, Poll
<1>3. AbsCall # Abs!Idle /\ AbsCall.done = TRUE /\ AbsCall.ok = (Status("io") = 0)
    BY <1>2, BusyAbs, Zenon DEF AbsCall
<1>4. AbsCall' = Abs!Idle
    BY <1>2, Zenon DEF AbsCall, Abs!Idle
<1>5. result' = IF AbsCall.ok THEN [ok |-> TRUE, buf |-> AbsCall.buf] ELSE Abs!Failed
    BY <1>2, <1>3, BusyAbs, Zenon DEF Return, Abs!Failed, Failed
<1>6. Abs!Return
    BY <1>2, <1>3, <1>4, <1>5 DEF Abs!Return
<1> QED
    BY <1>6 DEF Abs!Next

\* The answer on its way changes nothing that the file system sees.
LEMMA AnswerAbs == ASSUME IInv, Answer("io") PROVE AbsCall' = AbsCall
<1>1. Executed("io") /\ Completed("io")'
    BY AnswerRing DEF Qid
<1>2. /\ dDone["io"] # NotDone /\ dDone'["io"] = NotDone
      /\ dHead["io"] = sqTail["io"] /\ dHead'["io"] = sqTail'["io"]
      /\ waiting = "io" /\ waiting' = "io"
      /\ cmd' = cmd /\ dma' = dma
    BY <1>1 DEF Executed, Completed, Answer
<1>3. Status("io")' = dDone["io"].status
  <2>1. dTail["io"] = cqHead["io"] /\ cqHead'["io"] = cqHead["io"]
      BY <1>1 DEF Executed, Fresh, Answer, drvVars
  <2>2. cq'["io"][cqHead["io"]].status = dDone["io"].status
      BY <2>1 DEF Answer, IInv, TypeOK, Qid
  <2> QED
      BY <2>1, <2>2 DEF Status
<1> QED
    BY <1>2, <1>3, Zenon DEF AbsCall

LEMMA StepAbs == IInv /\ [Next]_vars => [Abs!Next]_(Abs!vars)
<1> SUFFICES ASSUME IInv, [Next]_vars PROVE Abs!Next \/ UNCHANGED Abs!vars
    OBVIOUS
<1> USE DEF Abs!vars
<1>1. CASE Probe \/ Disable \/ Disabled \/ Enabled \/ SetReady
  <2>1. UNCHANGED <<drvVars, cq, devVars, waiting, cmd, dma, disk, result>>
      BY <1>1 DEF Probe, Disable, Disabled, Enabled, SetReady
  <2> QED
      BY <2>1, Zenon DEF AbsCall, Status, drvVars, devVars
<1>2. CASE AdminQueues \/ AdminSubmit \/ AdminDone
  <2>1. waiting # "io" /\ waiting' # "io" /\ disk' = disk /\ result' = result
      BY <1>2 DEF AdminQueues, AdminSubmit, AdminDone, Submit, Poll, IInv, Control, BringUp
  <2> QED
      BY <2>1, Zenon DEF AbsCall
<1>3. CASE Return
    BY <1>3, ReturnAbs
<1>4. CASE Execute("io")
    BY <1>4, ExecuteAbs
<1>5. CASE Execute("admin")
  <2>1. Submitted("admin") /\ sq["admin"][dHead["admin"]] = cmd
      BY <1>5, ExecuteRing DEF Qid
  <2>2. waiting = "admin" /\ cmd.op \in BringUp
      BY <2>1, Zenon DEF Submitted, IInv, Control
  <2>3. waiting' = waiting /\ disk' = disk /\ result' = result
      BY <1>5, <2>1, <2>2 DEF Execute, BringUp
  <2> QED
      BY <2>2, <2>3, Zenon DEF AbsCall
<1>6. CASE Answer("io")
    BY <1>6, AnswerAbs DEF Answer
<1>7. CASE Answer("admin")
  <2>1. waiting = "admin"
      BY <1>7, AnswerRing DEF Executed, Qid
  <2> QED
      BY <1>7, <2>1 DEF AbsCall, Answer
<1>8. CASE \E len \in 0..MaxLen : Refuse(len)
  <2>1. /\ AbsCall = Abs!Idle /\ AbsCall' = Abs!Idle /\ disk' = disk
        /\ result' \in {Abs!Failed, [ok |-> TRUE, buf |-> <<>>]}
      BY <1>8, Zenon DEF Refuse, AbsCall, Abs!Idle, Failed, Abs!Failed
  <2> QED
      BY <2>1 DEF Abs!Next, Abs!Refuse
<1>9. CASE \E len \in 0..MaxLen, lba \in 0..BLOCK_COUNT, op \in {"read", "write"} :
              Begin(op, lba, len)
    BY <1>9, BeginAbs
<1>10. CASE UNCHANGED vars
    BY <1>10, Zenon DEF vars, AbsCall, Status, drvVars, devVars
<1> QED
    BY <1>1, <1>2, <1>3, <1>4, <1>5, <1>6, <1>7, <1>8, <1>9, <1>10
    DEF Next, Controller, Driver, Calls, Qid

\* Driver and controller together are a block device: every call takes effect
\* whole at one moment, or fails and changes nothing, and a read returns what the
\* disk held at its moment.
THEOREM ImplementsBlockDevice == Spec => IsBlockDevice
<1>1. Init => Abs!Init
    BY Zenon DEF Init, Abs!Init, AbsCall, Abs!Idle, Abs!Lba, Lba, Failed, Abs!Failed
<1> QED
    BY <1>1, StepAbs, Invariance, PTL DEF Spec, IsBlockDevice, Abs!Spec

----------------------------------------------------------------------------
(* Arithmetic of rings *)

\* Steps round a ring of N slots, forwards and backwards.
LEMMA RingAdd ==
    ASSUME NEW N \in Nat \ {0}, NEW i \in 0..(N - 1), NEW d \in 0..(N - 1)
    PROVE  (i + d) % N = IF i + d < N THEN i + d ELSE i + d - N
  OBVIOUS

LEMMA RingSub ==
    ASSUME NEW N \in Nat \ {0}, NEW i \in 0..(N - 1), NEW j \in 0..(N - 1)
    PROVE  (j - i + N) % N = IF i <= j THEN j - i ELSE j - i + N
  OBVIOUS

LEMMA NextSlot ==
    ASSUME NEW N \in Nat \ {0}, NEW i \in 0..(N - 1)
    PROVE  /\ (i + 1) % N = IF i = N - 1 THEN 0 ELSE i + 1
           /\ (i + 1) % N \in 0..(N - 1)
<1>1. (i + 1) % N = IF i = N - 1 THEN 0 ELSE i + 1
    OBVIOUS
<1> QED
    BY <1>1

\* A slot is between two others when it is reached from the first before the
\* second.
LEMMA BetweenIs ==
    ASSUME NetSizes, NEW i \in RxSlot, NEW j \in RxSlot, NEW k \in RxSlot
    PROVE  k \in Between(i, j) <=> IF i <= j THEN i <= k /\ k < j ELSE i <= k \/ k < j
<1> DEFINE N == RX_COUNT
           n == (j - i + N) % N
<1>1. N \in Nat \ {0} /\ i \in Nat /\ j \in Nat /\ k \in Nat /\ i < N /\ j < N /\ k < N
    BY DEF NetSizes, RxSlot
<1>2. n = IF i <= j THEN j - i ELSE j - i + N
  <2>1. i \in 0..(N - 1) /\ j \in 0..(N - 1)
      BY DEF RxSlot
  <2> QED
      BY Zenon, <1>1, <2>1, RingSub
<1> HIDE DEF n
<1>3. n \in 0..(N - 1)
    BY <1>1, <1>2
<1>4. ASSUME NEW d \in 0..(n - 1) PROVE (i + d) % N = IF i + d < N THEN i + d ELSE i + d - N
  <2>1. i \in 0..(N - 1) /\ d \in 0..(N - 1)
      BY <1>1, <1>3
  <2> QED
      BY Zenon, <1>1, <2>1, RingAdd
<1>5. k \in Between(i, j) <=> \E d \in 0..(n - 1) : k = (i + d) % N
    BY DEF Between, n
<1>6. CASE i <= k
  <2>1. k - i \in 0..(n - 1) => k = (i + (k - i)) % N
      BY <1>1, <1>4, <1>6
  <2>2. k \in Between(i, j) <=> k - i \in 0..(n - 1)
      BY <1>1, <1>3, <1>4, <1>5, <1>6, <2>1
  <2> QED
      BY <1>1, <1>2, <1>6, <2>2
<1>7. CASE k < i
  <2>1. k - i + N \in 0..(n - 1) => k = (i + (k - i + N)) % N
      BY <1>1, <1>4, <1>7
  <2>2. k \in Between(i, j) <=> k - i + N \in 0..(n - 1)
      BY <1>1, <1>3, <1>4, <1>5, <1>7, <2>1
  <2> QED
      BY <1>1, <1>2, <1>7, <2>2
<1> QED
    BY <1>1, <1>6, <1>7

\* The frame that waits longest is taken ...
LEMMA BetweenTake ==
    ASSUME NetSizes, NEW i \in RxSlot, NEW j \in RxSlot, i \in Between(i, j)
    PROVE  /\ i # j
           /\ \A k \in RxSlot :
                 k \in Between((i + 1) % RX_COUNT, j) <=> k \in Between(i, j) /\ k # i
<1>1. RX_COUNT \in Nat \ {0} /\ RxSlot = 0..(RX_COUNT - 1)
    BY DEF NetSizes, RxSlot
<1>2. i # j
    BY <1>1, BetweenIs
<1>3. /\ (i + 1) % RX_COUNT \in RxSlot
      /\ (i + 1) % RX_COUNT = IF i = RX_COUNT - 1 THEN 0 ELSE i + 1
    BY <1>1, NextSlot, Zenon
<1>4. ASSUME NEW k \in RxSlot
      PROVE  k \in Between((i + 1) % RX_COUNT, j) <=> k \in Between(i, j) /\ k # i
    <2>1. k \in Between(i, j) <=> IF i <= j THEN i <= k /\ k < j ELSE i <= k \/ k < j
        BY BetweenIs
    <2>2. k \in Between((i + 1) % RX_COUNT, j)
             <=> IF (i + 1) % RX_COUNT <= j THEN (i + 1) % RX_COUNT <= k /\ k < j
                 ELSE (i + 1) % RX_COUNT <= k \/ k < j
        BY <1>3, BetweenIs
    <2> QED
        BY <1>1, <1>2, <1>3, <2>1, <2>2
<1> QED
    BY <1>2, <1>4

\* ... and another one comes in behind.
LEMMA BetweenFill ==
    ASSUME NetSizes, NEW i \in RxSlot, NEW j \in RxSlot, (j + 1) % RX_COUNT # i
    PROVE  \A k \in RxSlot :
              k \in Between(i, (j + 1) % RX_COUNT) <=> k \in Between(i, j) \/ k = j
<1>1. RX_COUNT \in Nat \ {0} /\ RxSlot = 0..(RX_COUNT - 1)
    BY DEF NetSizes, RxSlot
<1>3. /\ (j + 1) % RX_COUNT \in RxSlot
      /\ (j + 1) % RX_COUNT = IF j = RX_COUNT - 1 THEN 0 ELSE j + 1
    BY <1>1, NextSlot, Zenon
<1>4. ASSUME NEW k \in RxSlot
      PROVE  k \in Between(i, (j + 1) % RX_COUNT) <=> k \in Between(i, j) \/ k = j
    <2>1. k \in Between(i, j) <=> IF i <= j THEN i <= k /\ k < j ELSE i <= k \/ k < j
        BY BetweenIs
    <2>2. k \in Between(i, (j + 1) % RX_COUNT)
             <=> IF i <= (j + 1) % RX_COUNT THEN i <= k /\ k < (j + 1) % RX_COUNT
                 ELSE i <= k \/ k < (j + 1) % RX_COUNT
        BY <1>3, BetweenIs
    <2> QED
        BY <1>1, <1>3, <2>1, <2>2
<1> QED
    BY <1>4

----------------------------------------------------------------------------
(* Types *)

NetInfo == [present : BOOLEAN, configured : BOOLEAN, ipv4 : Address \cup {NoAddress},
            tx : 0..COUNT_MAX, rx : 0..COUNT_MAX]

LEMMA Counters ==
    ASSUME NetSizes
    PROVE  /\ \A n \in 0..COUNT_MAX : Plus1(n) \in 0..COUNT_MAX
           /\ \A i \in RxSlot : (i + 1) % RX_COUNT \in RxSlot
           /\ \A i \in TxSlot : (i + 1) % TX_COUNT \in TxSlot
           /\ 0 \in RxSlot /\ RX_COUNT - 1 \in RxSlot /\ 0 \in TxSlot
<1>1. /\ RX_COUNT \in Nat \ {0} /\ TX_COUNT \in Nat \ {0} /\ COUNT_MAX \in Nat
      /\ RxSlot = 0..(RX_COUNT - 1) /\ TxSlot = 0..(TX_COUNT - 1)
    BY DEF NetSizes, RxSlot, TxSlot
<1>2. \A n \in 0..COUNT_MAX : Plus1(n) \in 0..COUNT_MAX
    BY <1>1 DEF Plus1
<1>3. \A i \in RxSlot : (i + 1) % RX_COUNT \in RxSlot
    BY <1>1, NextSlot
<1>4. \A i \in TxSlot : (i + 1) % TX_COUNT \in TxSlot
    BY <1>1, NextSlot
<1> QED
    BY <1>1, <1>2, <1>3, <1>4

RxType ==
    /\ DOMAIN rxRing = RxSlot
    /\ \A i \in RxSlot : rxRing[i].dd \in BOOLEAN /\ (rxRing[i].dd => rxRing[i].frame \in Frame)
    /\ rxHead \in RxSlot /\ rdh \in RxSlot /\ rdt \in RxSlot
TxType ==
    /\ txTail \in TxSlot /\ tdh \in TxSlot /\ tdt \in TxSlot
    /\ txDone \in [TxSlot -> BOOLEAN]
CallType ==
    /\ state \in {"probe", "absent", "idle", "doorbell", "sending", "polling", "taken", "offered"}
    /\ turns \in 0..(TX_POLLS + RX_POLLS) /\ inner \in 0..RX_COUNT
    /\ asked \in BOOLEAN /\ gaveUp \in BOOLEAN
InfoType ==
    /\ txPackets \in 0..COUNT_MAX /\ rxPackets \in 0..COUNT_MAX
    /\ info \in NetInfo /\ lastInfo \in NetInfo

LEMMA TypeParts == NetTypeOK <=> RxType /\ TxType /\ CallType /\ InfoType
BY DEF NetTypeOK, RxType, TxType, CallType, InfoType, NetInfo

LEMMA TypePartsNext == RxType' /\ TxType' /\ CallType' /\ InfoType' => NetTypeOK'
BY DEF NetTypeOK, RxType, TxType, CallType, InfoType, NetInfo

LEMMA InitType == NetSizes /\ NetInit => NetTypeOK
<1> SUFFICES ASSUME NetSizes, NetInit PROVE NetTypeOK
    OBVIOUS
<1>1. RxType
    BY Counters, Zenon DEF NetInit, RxType
<1>2. TxType
    BY Counters DEF NetInit, TxType
<1>3. CallType
  <2>1. turns \in 0..(TX_POLLS + RX_POLLS) /\ inner \in 0..RX_COUNT
      BY DEF NetInit, NetSizes
  <2> QED
      BY Zenon, <2>1 DEF NetInit, CallType
<1>4. InfoType
    BY DEF NetInit, InfoType, NetInfo, Empty, NetSizes
<1> QED
    BY <1>1, <1>2, <1>3, <1>4, TypeParts

LEMMA NextType == NetSizes /\ NetTypeOK /\ [NetNext]_netVars => NetTypeOK'
<1> SUFFICES ASSUME NetSizes, RxType, TxType, CallType, InfoType, [NetNext]_netVars PROVE NetTypeOK'
    BY TypeParts
<1>1. \A b \in BOOLEAN : Snapshot(b) \in NetInfo
    BY DEF Snapshot, NetInfo, InfoType
<1>2. CASE NetProbe
  <2>1. RxType'
    <3>1. CASE UNCHANGED rxVars
        BY <3>1 DEF RxType, rxVars
    <3>2. CASE New /\ InitRings
        BY <3>2, Counters, Zenon DEF New, InitRings, RxType
    <3> QED
        BY <1>2, <3>1, <3>2, Zenon DEF NetProbe
  <2>2. TxType'
      BY <1>2, Counters, Zenon DEF NetProbe, New, InitRings, TxType, txVars
  <2>3. CallType'
      BY <1>2, Zenon DEF NetProbe, CallType
  <2>4. InfoType'
    <3>1. CASE UNCHANGED <<txPackets, rxPackets, lastInfo>>
        BY <1>2, <3>1 DEF NetProbe, InfoType
    <3>2. CASE New /\ lastInfo' = Snapshot(FALSE)
      <4>1. 0 \in 0..COUNT_MAX
          BY DEF NetSizes
      <4> QED
          BY Zenon, <1>1, <1>2, <3>2, <4>1 DEF NetProbe, New, InfoType
    <3> QED
        BY <1>2, <3>1, <3>2, Zenon DEF NetProbe
  <2> QED
      BY <2>1, <2>2, <2>3, <2>4, TypePartsNext
<1>3. CASE Configure
  <2>1. RxType'
      BY <1>3 DEF Configure, RxType, rxVars
  <2>2. TxType'
      BY <1>3 DEF Configure, TxType
  <2>3. CallType'
      BY <1>3 DEF Configure, CallType
  <2>4. InfoType'
      BY <1>1, <1>3, Zenon DEF Configure, InfoType
  <2> QED
      BY <2>1, <2>2, <2>3, <2>4, TypePartsNext
<1>4. CASE RingTdt
  <2>1. RxType' /\ InfoType'
      BY <1>4 DEF RingTdt, RxType, rxVars, InfoType
  <2>2. TxType'
      BY <1>4, Counters DEF RingTdt, TxType
  <2>3. CallType'
      BY <1>4 DEF RingTdt, CallType, NetSizes
  <2> QED
      BY <2>1, <2>2, <2>3, TypePartsNext
<1>5. CASE PollSend
  <2>1. RxType'
      BY <1>5 DEF PollSend, RxType, rxVars
  <2>2. TxType'
      BY <1>5, Counters DEF PollSend, TxType
  <2>3. CallType'
    <3>1. turns' \in 0..(TX_POLLS + RX_POLLS) /\ inner' \in 0..RX_COUNT
        BY <1>5 DEF PollSend, CallType, NetSizes
    <3>2. state' \in {"idle", "sending", "polling"} /\ asked' = asked /\ gaveUp' \in {gaveUp, TRUE}
        BY <1>5, Zenon DEF PollSend
    <3> QED
        BY Zenon, <3>1, <3>2 DEF CallType
  <2>4. InfoType'
    <3>1. Plus1(txPackets) \in 0..COUNT_MAX
        BY Counters DEF InfoType
    <3> QED
        BY <1>5, <3>1 DEF PollSend, InfoType, NetInfo
  <2> QED
      BY <2>1, <2>2, <2>3, <2>4, TypePartsNext
<1>6. CASE TakeFrame
  <2>1. RxType'
      BY <1>6, Zenon DEF TakeFrame, RxType
  <2>2. TxType'
      BY <1>6 DEF TakeFrame, TxType, txVars
  <2>3. CallType'
      BY <1>6 DEF TakeFrame, CallType, NetSizes
  <2>4. InfoType'
    <3>1. rxRing[rxHead].frame.yiaddr \in Address
        BY <1>6 DEF TakeFrame, RxType, Frame
    <3>2. [info EXCEPT !.ipv4 = rxRing[rxHead].frame.yiaddr] \in NetInfo
        BY <3>1 DEF InfoType, NetInfo
    <3> QED
        BY <1>6, <3>2 DEF TakeFrame, InfoType
  <2> QED
      BY <2>1, <2>2, <2>3, <2>4, TypePartsNext
<1>7. CASE GiveBack
  <2>1. RxType'
      BY <1>7, Counters DEF GiveBack, RxType
  <2>2. TxType'
      BY <1>7 DEF GiveBack, TxType, txVars
  <2>3. CallType'
      BY <1>7 DEF GiveBack, CallType, NetSizes
  <2>4. InfoType'
    <3>1. Plus1(rxPackets) \in 0..COUNT_MAX
        BY Counters DEF InfoType
    <3>2. [Snapshot(TRUE) EXCEPT !.ipv4 = info.ipv4, !.rx = Plus1(rxPackets)] \in NetInfo
        BY <3>1, Zenon DEF InfoType, NetInfo, Snapshot
    <3> QED
        BY <1>7, <3>1, <3>2 DEF GiveBack, InfoType
  <2> QED
      BY <2>1, <2>2, <2>3, <2>4, TypePartsNext
<1>8. CASE NextTurn
  <2>1. RxType' /\ TxType'
      BY <1>8 DEF NextTurn, RxType, rxVars, TxType, txVars
  <2>2. CallType'
      BY <1>8 DEF NextTurn, CallType, NetSizes
  <2>3. InfoType'
    <3>1. [info EXCEPT !.rx = rxPackets] \in NetInfo
        BY DEF InfoType, NetInfo
    <3> QED
        BY <1>8, <3>1 DEF NextTurn, InfoType
  <2> QED
      BY <2>1, <2>2, <2>3, TypePartsNext
<1>9. CASE Transmit
  <2>1. RxType' /\ CallType' /\ InfoType'
      BY <1>9 DEF Transmit, RxType, rxVars, CallType, InfoType
  <2>2. TxType'
      BY <1>9, Counters DEF Transmit, TxType
  <2> QED
      BY <2>1, <2>2, TypePartsNext
<1>10. ASSUME NEW f \in Frame, Receive(f) PROVE NetTypeOK'
  <2>1. TxType' /\ CallType' /\ InfoType'
      BY <1>10 DEF Receive, TxType, txVars, CallType, InfoType
  <2>2. RxType'
      BY <1>10, Counters, Zenon DEF Receive, RxType
  <2> QED
      BY <2>1, <2>2, TypePartsNext
<1>11. CASE UNCHANGED netVars
  <2>1. RxType' /\ TxType' /\ CallType' /\ InfoType'
      BY <1>11 DEF netVars, rxVars, txVars, RxType, TxType, CallType, InfoType
  <2> QED
      BY <2>1, TypePartsNext
<1> QED
    BY <1>2, <1>3, <1>4, <1>5, <1>6, <1>7, <1>8, <1>9, <1>10, <1>11 DEF NetNext, NetDriver, Card

\* Both rings, the registers of the card, the loop under way and LAST_INFO keep
\* their shape (NetTypeOK): whatever the card does, no index leaves its ring.
THEOREM NetTypes == NetSizes => (NetSpec => []NetTypeOK)
<1> SUFFICES ASSUME NetSizes PROVE NetSpec => []NetTypeOK
    OBVIOUS
<1>1. NetInit => NetTypeOK
    BY InitType
<1>2. NetTypeOK /\ [NetNext]_netVars => NetTypeOK'
    BY NextType
<1> QED
    BY <1>1, <1>2, PTL DEF NetSpec

----------------------------------------------------------------------------
(* The receive ring.  RxRing alone is not inductive: while poll_offer holds a
   descriptor (states taken, offered) the card must not have come all the way
   round to it. *)

RxInv == RxRing /\ (state \in {"taken", "offered"} => rdh # rxHead)

\* RxRing for a given first slot that waits.
Waiting(head) == \A i \in RxSlot : rxRing[i].dd <=> i \in Between(head, rdh)

LEMMA BetweenEmpty == ASSUME NetSizes, NEW i \in RxSlot, NEW k \in RxSlot PROVE k \notin Between(i, i)
<1>1. k \in Between(i, i) <=> IF i <= i THEN i <= k /\ k < i ELSE i <= k \/ k < i
    BY BetweenIs
<1> QED
    BY <1>1 DEF RxSlot, NetSizes

LEMMA NextRxInv == NetSizes /\ NetTypeOK /\ RxInv /\ [NetNext]_netVars => RxInv'
<1> SUFFICES ASSUME NetSizes, NetTypeOK, RxInv, [NetNext]_netVars PROVE RxInv'
    OBVIOUS
<1> DEFINE Up(i) == (i + 1) % RX_COUNT
<1>0. /\ RxType /\ RX_COUNT \in Nat \ {0} /\ RxSlot = 0..(RX_COUNT - 1)
      /\ \A i \in RxSlot : Up(i) \in RxSlot
      /\ \A i, j \in RxSlot : Up(i) = Up(j) => i = j
  <2>1. RX_COUNT \in Nat \ {0} /\ RxSlot = 0..(RX_COUNT - 1)
      BY DEF NetSizes, RxSlot
  <2>2. \A i \in RxSlot : Up(i) \in RxSlot /\ Up(i) = IF i = RX_COUNT - 1 THEN 0 ELSE i + 1
      BY <2>1, NextSlot, Zenon
  <2> QED
      BY <2>1, <2>2, TypeParts
<1> HIDE DEF Up
<1>1. CASE NetProbe
  <2>1. CASE state' = "absent"
      BY <2>1 DEF RxInv, RxRing
  <2>2. CASE state' = "idle" /\ New /\ InitRings
    <3>1. rxHead' = 0 /\ rdh' = 0 /\ rdt' = RX_COUNT - 1 /\ \A i \in RxSlot : rxRing'[i].dd = FALSE
        BY <2>2 DEF New, InitRings
    <3>2. 0 \in RxSlot /\ (RX_COUNT - 1 + 1) % RX_COUNT = 0
        BY <1>0
    <3>3. \A i \in RxSlot : i \notin Between(0, 0)
        BY <3>2, BetweenEmpty
    <3> QED
        BY <2>2, <3>1, <3>2, <3>3 DEF RxInv, RxRing, Between
  <2> QED
      BY <1>1, <2>1, <2>2, Zenon DEF NetProbe
<1>2. CASE TakeFrame
  <2>1. /\ state = "polling" /\ rxRing[rxHead].dd /\ state' \in {"taken", "offered"}
        /\ rxRing' = [rxRing EXCEPT ![rxHead] = [dd |-> FALSE]]
        /\ UNCHANGED <<rxHead, rdh, rdt>>
      BY <1>2 DEF TakeFrame
  <2>2. Waiting(rxHead) /\ (rdt + 1) % RX_COUNT = rxHead
      BY <2>1 DEF RxInv, RxRing, Waiting
  <2>3. rxHead \in Between(rxHead, rdh)
      BY <1>0, <2>1, <2>2 DEF Waiting, RxType
  <2>4. /\ rxHead # rdh
        /\ \A k \in RxSlot : k \in Between(Up(rxHead), rdh) <=> k \in Between(rxHead, rdh) /\ k # rxHead
      BY <1>0, <2>3, BetweenTake DEF RxType, Up
  <2>5. \A k \in RxSlot : rxRing'[k].dd <=> rxRing[k].dd /\ k # rxHead
      BY <1>0, <2>1 DEF RxType
  <2>6. \A k \in RxSlot : rxRing'[k].dd <=> k \in Between((rxHead' + 1) % RX_COUNT, rdh')
      BY <2>1, <2>2, <2>4, <2>5 DEF Waiting, Up
  <2>7. rxHead' = rxHead /\ rdh' = rdh /\ rdt' = rdt
      BY <2>1, Zenon
  <2>8. RxRing'
      BY <2>1, <2>2, <2>6, <2>7, Zenon DEF RxRing, Between
  <2> QED
      BY <2>4, <2>7, <2>8, Zenon DEF RxInv
<1>3. CASE GiveBack
  <2>1. /\ state \in {"taken", "offered"} /\ state' \in {"idle", "polling"}
        /\ rdt' = rxHead /\ rxHead' = Up(rxHead) /\ UNCHANGED <<rxRing, rdh>>
      BY <1>3 DEF GiveBack, Up
  <2>2. Waiting(Up(rxHead))
      BY <2>1 DEF RxInv, RxRing, Waiting, Up
  <2>3. (rdt' + 1) % RX_COUNT = rxHead'
      BY <2>1 DEF Up
  <2> QED
      BY <2>1, <2>2, <2>3 DEF RxInv, RxRing, Waiting, Between
<1>4. ASSUME NEW f \in Frame, Receive(f), state \notin {"probe", "absent"} PROVE RxInv'
  <2> DEFINE head == IF state \in {"taken", "offered"} THEN (rxHead + 1) % RX_COUNT ELSE rxHead
  <2>1. /\ rdh # rdt /\ rxRing' = [rxRing EXCEPT ![rdh] = [dd |-> TRUE, frame |-> f]]
        /\ rdh' = Up(rdh) /\ UNCHANGED <<state, rxHead, rdt>>
      BY <1>4 DEF Receive, Up
  <2>2. /\ Waiting(head) /\ Up(rdt) = rxHead
        /\ state \in {"taken", "offered"} => rdh # rxHead
      BY <1>4 DEF RxInv, RxRing, Waiting, Up
  <2>3. head \in RxSlot /\ rdh \in RxSlot /\ rdt \in RxSlot /\ rxHead \in RxSlot
      BY <1>0 DEF RxType, Up
  <2>4. Up(rdh) # rxHead
      BY <1>0, <2>1, <2>2, <2>3
  <2>5. Up(rdh) # head
      BY <1>0, <2>2, <2>3, <2>4 DEF Up
  <2> HIDE DEF head
  <2>6. \A k \in RxSlot : k \in Between(head, Up(rdh)) <=> k \in Between(head, rdh) \/ k = rdh
      BY <2>3, <2>5, BetweenFill DEF Up
  <2>7. \A k \in RxSlot : rxRing'[k].dd <=> rxRing[k].dd \/ k = rdh
      BY <1>0, <2>1 DEF RxType
  <2>8. \A k \in RxSlot : rxRing'[k].dd <=> k \in Between(head, rdh')
      BY <2>1, <2>2, <2>6, <2>7 DEF Waiting
  <2> QED
      BY <2>1, <2>2, <2>4, <2>8, Zenon DEF RxInv, RxRing, Between, head, Up
<1>5. CASE UNCHANGED rxVars /\ state' \notin {"taken", "offered"} /\ state \notin {"taken", "offered"}
           /\ (state' \in {"probe", "absent"} <=> state \in {"probe", "absent"})
    BY <1>5 DEF RxInv, RxRing, Between, rxVars
<1>6. CASE UNCHANGED <<rxVars, state>>
    BY <1>6 DEF RxInv, RxRing, Between, rxVars
<1>7. CASE Configure \/ RingTdt \/ PollSend \/ NextTurn
    BY <1>5, <1>7, Zenon DEF Configure, RingTdt, PollSend, NextTurn
<1>8. CASE Transmit \/ UNCHANGED netVars
    BY <1>6, <1>8 DEF Transmit, netVars
<1>9. ASSUME NEW f \in Frame, Receive(f), state \in {"probe", "absent"} PROVE RxInv'
    BY <1>9 DEF Receive, RxInv, RxRing
<1> QED
    BY <1>1, <1>2, <1>3, <1>4, <1>7, <1>8, <1>9 DEF NetNext, NetDriver, Card

\* Driver and card agree on the receive ring, for a ring of every size and
\* whatever comes in: no frame that waits is overwritten or read twice.
THEOREM RxRingHolds == NetSizes => (NetSpec => []RxRing)
<1> SUFFICES ASSUME NetSizes PROVE NetSpec => []RxRing
    OBVIOUS
<1>1. NetInit => NetTypeOK /\ RxInv
    BY InitType DEF NetInit, RxInv, RxRing
<1>2. NetTypeOK /\ RxInv /\ [NetNext]_netVars => (NetTypeOK /\ RxInv)'
    BY NextType, NextRxInv
<1>3. RxInv => RxRing
    BY DEF RxInv
<1> QED
    BY <1>1, <1>2, <1>3, PTL DEF NetSpec

----------------------------------------------------------------------------
(* The transmit ring.  As long as no wait was given up, driver and card move
   in step: the card is behind by the packet that send_packet waits for, or
   has caught up. *)

TxInv ==
    gaveUp \/ IF state = "sending"
              THEN /\ tdt = (txTail + 1) % TX_COUNT
                   /\ \/ tdh = txTail /\ ~txDone[txTail]
                      \/ tdh = tdt /\ txDone[txTail]
              ELSE tdh = tdt /\ tdt = txTail /\ (state = "doorbell" => ~txDone[txTail])

LEMMA NextTxInv == NetSizes /\ NetTypeOK /\ TxInv /\ [NetNext]_netVars => TxInv'
<1> SUFFICES ASSUME NetSizes, NetTypeOK, TxInv, [NetNext]_netVars PROVE TxInv'
    OBVIOUS
<1>0. /\ TxType /\ TX_COUNT \in Nat \ {0} /\ 0 \in TxSlot
      /\ \A i \in TxSlot : (i + 1) % TX_COUNT \in TxSlot
    BY Counters, TypeParts DEF NetSizes
<1>1. CASE NetProbe
    BY <1>0, <1>1, Zenon DEF NetProbe, New, InitRings, TxInv, txVars
<1>2. CASE Configure
    BY <1>0, <1>2 DEF Configure, TxInv, TxType
<1>3. CASE RingTdt
    BY <1>0, <1>3 DEF RingTdt, TxInv
<1>4. CASE PollSend
    BY <1>0, <1>4 DEF PollSend, TxInv
<1>5. CASE TakeFrame \/ GiveBack \/ NextTurn
    BY <1>5 DEF TakeFrame, GiveBack, NextTurn, TxInv, txVars
<1>6. CASE Transmit
    BY <1>0, <1>6 DEF Transmit, TxInv, TxType
<1>7. ASSUME NEW f \in Frame, Receive(f) PROVE TxInv'
    BY <1>7 DEF Receive, TxInv, txVars
<1>8. CASE UNCHANGED netVars
    BY <1>8 DEF netVars, txVars, TxInv
<1> QED
    BY <1>1, <1>2, <1>3, <1>4, <1>5, <1>6, <1>7, <1>8 DEF NetNext, NetDriver, Card

LEMMA TxInvSending == NetSizes /\ NetTypeOK /\ TxInv => SendingOrStuck
<1> SUFFICES ASSUME NetSizes, NetTypeOK, TxInv, state = "sending", tdh = tdt, ~txDone[txTail], ~gaveUp
             PROVE  FALSE
    BY DEF SendingOrStuck
<1>1. tdt = (txTail + 1) % TX_COUNT /\ tdt = txTail
    BY DEF TxInv
<1>2. TX_COUNT \in Nat \ {0, 1} /\ txTail \in 0..(TX_COUNT - 1)
    BY TypeParts DEF NetSizes, TxType, TxSlot
<1>3. (txTail + 1) % TX_COUNT = IF txTail = TX_COUNT - 1 THEN 0 ELSE txTail + 1
    BY <1>2, NextSlot, Zenon
<1> QED
    BY <1>1, <1>2, <1>3

\* While send_packet waits the card has its packet or has sent it, unless an
\* earlier wait was given up: for a ring of every size, however long the waits.
THEOREM SendingOrStuckHolds == NetSizes => (NetSpec => []SendingOrStuck)
<1> SUFFICES ASSUME NetSizes PROVE NetSpec => []SendingOrStuck
    OBVIOUS
<1>1. NetInit => NetTypeOK /\ TxInv
    BY InitType DEF NetInit, TxInv
<1>2. NetTypeOK /\ TxInv /\ [NetNext]_netVars => (NetTypeOK /\ TxInv)'
    BY NextType, NextTxInv
<1>3. NetTypeOK /\ TxInv => SendingOrStuck
    BY TxInvSending
<1> QED
    BY <1>1, <1>2, <1>3, PTL DEF NetSpec

----------------------------------------------------------------------------
(* What configure reports.  The invariant follows the NetInfo that it prepares
   through the call, and knows that a frame for this machine is in the ring
   only after a DHCPDISCOVER. *)

NoOffer(n) == ~n.configured /\ n.ipv4 = NoAddress

InfoInv ==
    /\ InfoCurrent
    /\ \A i \in RxSlot : rxRing[i].dd /\ rxRing[i].frame.ours => asked
    /\ state \in {"doorbell", "sending"} => info.rx = rxPackets
    /\ state \in {"doorbell", "sending", "polling", "taken", "offered"} => info.tx = txPackets
    /\ state \in {"doorbell", "sending", "polling", "taken"} => NoOffer(info)
    /\ state = "offered" => asked
    /\ state \in {"probe", "absent"} => txPackets = 0 /\ rxPackets = 0

LEMMA NextInfoInv == NetSizes /\ NetTypeOK /\ InfoInv /\ [NetNext]_netVars => InfoInv'
<1> SUFFICES ASSUME NetSizes, NetTypeOK, InfoInv, [NetNext]_netVars PROVE InfoInv'
    OBVIOUS
<1>0. RxType /\ InfoType
    BY TypeParts
<1>1. CASE NetProbe
  <2>0. state = "probe" /\ txPackets = 0 /\ rxPackets = 0 /\ asked' = asked /\ info' = info
      BY <1>1, Zenon DEF NetProbe, InfoInv
  <2>1. CASE state' = "absent" /\ UNCHANGED <<rxRing, txPackets, rxPackets, lastInfo>>
      BY <2>0, <2>1 DEF InfoInv, InfoCurrent
  <2>2. CASE state' = "idle" /\ New /\ InitRings /\ lastInfo' = Snapshot(FALSE)
    <3>1. \A i \in RxSlot : rxRing'[i].dd = FALSE
        BY <2>2, Zenon DEF InitRings
    <3>2. /\ lastInfo'.configured = FALSE /\ lastInfo'.ipv4 = NoAddress
          /\ lastInfo'.tx = 0 /\ lastInfo'.rx = 0 /\ txPackets' = 0 /\ rxPackets' = 0
        BY <2>0, <2>2 DEF Snapshot, New
    <3>3. InfoCurrent'
        BY <3>2 DEF InfoCurrent
    <3> QED
        BY <2>2, <3>1, <3>3 DEF InfoInv
  <2> QED
      BY <1>1, <2>1, <2>2, Zenon DEF NetProbe, rxVars
<1>2. CASE Configure
    BY <1>0, <1>2, Zenon DEF Configure, Snapshot, NoOffer, InfoInv, InfoCurrent, rxVars
<1>3. CASE RingTdt
    BY <1>3, Zenon DEF RingTdt, NoOffer, InfoInv, InfoCurrent, rxVars
<1>4. CASE PollSend
    BY <1>0, <1>4 DEF PollSend, NoOffer, InfoInv, InfoCurrent, InfoType, NetInfo, rxVars
<1>5. CASE TakeFrame
    BY <1>0, <1>5 DEF TakeFrame, IsOffer, NoOffer, InfoInv, InfoCurrent, RxType, Frame, InfoType, NetInfo
<1>6. CASE GiveBack
  <2>1. CASE state = "taken"
      BY <1>6, <2>1 DEF GiveBack, NoOffer, InfoInv, InfoCurrent
  <2>2. CASE state = "offered"
    <3>1. /\ lastInfo'.configured = TRUE /\ lastInfo'.ipv4 = info.ipv4
          /\ lastInfo'.tx = txPackets /\ lastInfo'.rx = rxPackets'
          /\ state' = "idle" /\ UNCHANGED <<rxRing, txPackets, asked>>
        BY <1>6, <2>2, Zenon DEF GiveBack, Snapshot
    <3> QED
        BY <1>0, <2>2, <3>1, Zenon DEF InfoInv, InfoCurrent
  <2> QED
      BY <1>6, <2>1, <2>2 DEF GiveBack
<1>7. CASE NextTurn
    BY <1>0, <1>7 DEF NextTurn, NoOffer, InfoInv, InfoCurrent, InfoType, NetInfo, rxVars
<1>8. CASE Transmit
    BY <1>8, Zenon DEF Transmit, NoOffer, InfoInv, InfoCurrent, rxVars
<1>9. ASSUME NEW f \in Frame, Receive(f) PROVE InfoInv'
    BY <1>0, <1>9, Zenon DEF Receive, NoOffer, InfoInv, InfoCurrent, RxType
<1>10. CASE UNCHANGED netVars
    BY <1>10, Zenon DEF netVars, rxVars, NoOffer, InfoInv, InfoCurrent
<1> QED
    BY <1>1, <1>2, <1>3, <1>4, <1>5, <1>6, <1>7, <1>8, <1>9, <1>10 DEF NetNext, NetDriver, Card

\* Whichever way configure returns, net_info shows the packets there have been,
\* and an address only when an offer was found.
THEOREM InfoCurrentHolds == NetSizes => (NetSpec => []InfoCurrent)
<1> SUFFICES ASSUME NetSizes PROVE NetSpec => []InfoCurrent
    OBVIOUS
<1>1. NetInit => NetTypeOK /\ InfoInv
  <2> SUFFICES ASSUME NetInit PROVE NetTypeOK /\ InfoInv
      OBVIOUS
  <2>1. state = "probe" /\ txPackets = 0 /\ rxPackets = 0 /\ lastInfo = Empty
      BY Zenon DEF NetInit
  <2>2. \A i \in RxSlot : rxRing[i].dd = FALSE
      BY Zenon DEF NetInit
  <2>3. InfoCurrent
      BY <2>1 DEF InfoCurrent, Empty
  <2>4. InfoInv
      BY <2>1, <2>2, <2>3 DEF InfoInv
  <2> QED
      BY <2>4, InitType
<1>2. NetTypeOK /\ InfoInv /\ [NetNext]_netVars => (NetTypeOK /\ InfoInv)'
    BY NextType, NextInfoInv
<1>3. InfoInv => InfoCurrent
    BY DEF InfoInv
<1> QED
    BY <1>1, <1>2, <1>3, PTL DEF NetSpec

=============================================================================
