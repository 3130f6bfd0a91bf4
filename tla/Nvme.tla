-------------------------------- MODULE Nvme --------------------------------
(***************************************************************************)
(* The NVMe driver and its controller: kernel/src/drivers/nvme/mod.rs.     *)
(*                                                                         *)
(* The driver puts a command in a slot of a submission ring, rings the     *)
(* doorbell and polls the completion ring, where an entry is new when its  *)
(* phase bit is the one the driver expects.  It compares no command id.    *)
(* The driver runs with interrupts off and one call at a time; the         *)
(* controller (external) runs beside it.                                   *)
(*                                                                         *)
(* A doorbell is written in the step that moves the index it publishes, so *)
(* the controller reads sqTail and cqHead themselves.  A buffer is measured*)
(* in bytes, and a block has LBA_BYTES of them; of its contents the model  *)
(* keeps one Data for each block.                                          *)
(***************************************************************************)
EXTENDS Integers, FiniteSets

CONSTANTS ADMIN_Q_DEPTH, IO_Q_DEPTH,  \* entries of the rings
          MQES,         \* entries that the controller supports at most
          CID_MOD,      \* number of command ids, 2^16 in the code
          BLOCK_COUNT,  \* blocks of the namespace
          LBA_BYTES,    \* bytes of a block
          PAGE_SIZE,    \* bytes of a frame
          MaxLen,       \* bound: bytes of a caller's buffer
          Data          \* contents of a block

ASSUME NvmeAssumption ==
    /\ ADMIN_Q_DEPTH \in Nat /\ ADMIN_Q_DEPTH > 1
    /\ IO_Q_DEPTH \in Nat /\ IO_Q_DEPTH > 1
    /\ MQES \in Nat /\ MQES > 1
    /\ CID_MOD \in Nat \ {0}
    /\ BLOCK_COUNT \in Nat /\ MaxLen \in Nat
    /\ LBA_BYTES \in Nat \ {0} /\ PAGE_SIZE \in Nat \ {0}
    /\ Data # {}

Qid == {"admin", "io"}
Lba == 0..(BLOCK_COUNT - 1)
PageBlocks == PAGE_SIZE \div LBA_BYTES
Page == [0..(PageBlocks - 1) -> Data]
Bit == {0, 1}

Depth(q) == IF q = "io" THEN IO_Q_DEPTH
            ELSE IF MQES < ADMIN_Q_DEPTH THEN MQES ELSE ADMIN_Q_DEPTH
Slot(q) == 0..(Depth(q) - 1)

BringUp == {"identify_controller", "nsid_list", "identify_namespace", "create_cq", "create_sq"}
Command == [cid : 0..(CID_MOD - 1), op : BringUp \cup {"read", "write"}, lba : Lba \cup {0},
            n : 0..PageBlocks]
NoCommand == [op |-> "none"]
Completion == [cid : 0..(CID_MOD - 1), status : Bit, phase : Bit]
ZeroEntry == [cid |-> 0, status |-> 0, phase |-> 0]
NotDone == [cid |-> -1, status |-> 0]
Failed == [ok |-> FALSE]

VARIABLES pc,       \* how far bring-up is: a command of it, "ready", "failed", ...
          enabled,  \* the EN bit of CC
          ready,    \* the RDY bit of CSTS
          sqTail, cqHead, phase, nextCid,  \* Queue
          sq, cq,   \* the two rings in memory
          dHead, dTail, dPhase,  \* the controller's place in them
          dDone,    \* the command that the controller has executed and not answered
          ioMade,   \* the controller has the completion and the submission ring
          waiting,  \* the queue on which submit_sync polls
          cmd,      \* the command that it has submitted
          held,     \* the frames that the driver has allocated
          dma,      \* the blocks in the frame of a call
          disk,     \* the contents of the namespace
          result    \* what the last call has returned

ctrlVars == <<enabled, ready, ioMade>>
devVars  == <<dHead, dTail, dPhase, dDone>>
drvVars  == <<sqTail, cqHead, phase, nextCid, sq>>
vars == <<pc, ctrlVars, drvVars, cq, devVars, waiting, cmd, held, dma, disk, result>>

Init ==
    /\ pc = "start"
    /\ enabled \in BOOLEAN /\ ready = enabled     \* as the firmware has left it
    /\ sqTail = [q \in Qid |-> 0] /\ cqHead = [q \in Qid |-> 0]
    /\ phase = [q \in Qid |-> 1] /\ nextCid = [q \in Qid |-> 0]
    /\ sq = [q \in Qid |-> [i \in Slot(q) |-> NoCommand]]
    /\ cq = [q \in Qid |-> [i \in Slot(q) |-> ZeroEntry]]
    /\ dHead = [q \in Qid |-> 0] /\ dTail = [q \in Qid |-> 0]
    /\ dPhase = [q \in Qid |-> 1] /\ dDone = [q \in Qid |-> NotDone]
    /\ ioMade = {}
    /\ waiting = "none" /\ cmd = NoCommand
    /\ held = {}
    /\ dma \in Page
    /\ disk \in [Lba -> Data]
    /\ result = Failed

----------------------------------------------------------------------------
(* submit_sync *)

\* Faulty variant of Submit: the tail runs past the end of the ring.
Submit_NoWrap(q, op, lba, n) ==
    LET c == [cid |-> nextCid[q], op |-> op, lba |-> lba, n |-> n]
    IN  /\ waiting = "none"
        /\ cmd' = c
        /\ nextCid' = [nextCid EXCEPT ![q] = (@ + 1) % CID_MOD]
        /\ sq' = [sq EXCEPT ![q][sqTail[q]] = c]
        /\ sqTail' = [sqTail EXCEPT ![q] = @ + 1]
        /\ waiting' = q

Submit(q, op, lba, n) ==
    LET c == [cid |-> nextCid[q], op |-> op, lba |-> lba, n |-> n]
    IN  /\ waiting = "none"
        /\ cmd' = c
        /\ nextCid' = [nextCid EXCEPT ![q] = (@ + 1) % CID_MOD]
        /\ sq' = [sq EXCEPT ![q][sqTail[q]] = c]
        /\ sqTail' = [sqTail EXCEPT ![q] = (@ + 1) % Depth(q)]
        /\ waiting' = q

\* Faulty variant of Poll: the phase does not change when the ring wraps.
Poll_NoFlip(q) ==
    /\ waiting = q
    /\ cq[q][cqHead[q]].phase = phase[q]
    /\ cqHead' = [cqHead EXCEPT ![q] = (@ + 1) % Depth(q)]
    /\ waiting' = "none" /\ cmd' = NoCommand
    /\ UNCHANGED <<phase, sqTail, nextCid, sq>>

\* Faulty variant of Poll: the phase changes at the last slot.
Poll_FlipsEarly(q) ==
    /\ waiting = q
    /\ cq[q][cqHead[q]].phase = phase[q]
    /\ cqHead' = [cqHead EXCEPT ![q] = (@ + 1) % Depth(q)]
    /\ phase' = [phase EXCEPT ![q] = IF cqHead'[q] = Depth(q) - 1 THEN 1 - @ ELSE @]
    /\ waiting' = "none" /\ cmd' = NoCommand
    /\ UNCHANGED <<sqTail, nextCid, sq>>

\* The entry at the head has the phase that is expected next.
Poll(q) ==
    /\ waiting = q
    /\ cq[q][cqHead[q]].phase = phase[q]
    /\ cqHead' = [cqHead EXCEPT ![q] = (@ + 1) % Depth(q)]
    /\ phase' = [phase EXCEPT ![q] = IF cqHead'[q] = 0 THEN 1 - @ ELSE @]
    /\ waiting' = "none" /\ cmd' = NoCommand
    /\ UNCHANGED <<sqTail, nextCid, sq>>

Status(q) == cq[q][cqHead[q]].status

----------------------------------------------------------------------------
(* init_from_pci *)

\* The controller is found on the bus and its registers are mapped, or not.
Probe ==
    /\ pc = "start"
    /\ pc' \in {"probed", "failed"}
    /\ UNCHANGED <<ctrlVars, drvVars, cq, devVars, waiting, cmd, held, dma, disk, result>>

Disable ==
    /\ pc = "probed"
    /\ enabled' = FALSE
    /\ pc' = IF enabled THEN "disabling" ELSE "disabled"
    /\ UNCHANGED <<ready, ioMade, drvVars, cq, devVars, waiting, cmd, held, dma, disk, result>>

Disabled ==
    /\ pc = "disabling" /\ ~ready
    /\ pc' = "disabled"
    /\ UNCHANGED <<ctrlVars, drvVars, cq, devVars, waiting, cmd, held, dma, disk, result>>

\* The admin rings: two frames, filled with zeros; or no frame is left.
AdminQueues ==
    /\ pc = "disabled"
    /\ \/ /\ held' = {"asq", "acq"}
          /\ cq' = [cq EXCEPT !["admin"] = [i \in Slot("admin") |-> ZeroEntry]]
          /\ enabled' = TRUE
          /\ pc' = "enabling"
       \/ /\ held' \in {{}, {"asq"}}
          /\ pc' = "failed"
          /\ UNCHANGED <<enabled, cq>>
    /\ UNCHANGED <<ready, ioMade, drvVars, devVars, waiting, cmd, dma, disk, result>>

\* The wait for RDY ends with it, or after 100 000 000 turns.
Enabled ==
    /\ pc = "enabling"
    /\ \/ ready /\ pc' = "identify_controller"
       \/ pc' = "failed"
    /\ UNCHANGED <<ctrlVars, drvVars, cq, devVars, waiting, cmd, held, dma, disk, result>>

After(p) ==
    CASE p = "identify_controller" -> "nsid_list"
      [] p = "nsid_list" -> "identify_namespace"
      [] p = "identify_namespace" -> "create_cq"
      [] p = "create_cq" -> "create_sq"
      [] p = "create_sq" -> "ready"

\* The frames that a command of bring-up needs: a buffer for the answer, or
\* the rings of the I/O queue, both allocated before the first of its commands.
Wanted(p) == CASE p = "create_cq" -> {"cq", "sq"}
               [] p = "create_sq" -> {}
               [] OTHER -> {"buf"}

AdminSubmit ==
    /\ pc \in BringUp /\ waiting = "none"
    /\ \/ /\ Submit("admin", pc, 0, 0)
          /\ held' = held \cup Wanted(pc)
          /\ cq' = IF pc = "create_cq" THEN [cq EXCEPT !["io"] = [i \in Slot("io") |-> ZeroEntry]]
                   ELSE cq
          /\ UNCHANGED <<pc, cqHead, phase>>
       \/ /\ Wanted(pc) # {}
          /\ held' \in {held} \cup (IF pc = "create_cq" THEN {held \cup {"cq"}} ELSE {})
          /\ pc' = "failed"
          /\ UNCHANGED <<drvVars, cq, waiting, cmd>>
    /\ UNCHANGED <<ctrlVars, devVars, dma, disk, result>>

\* A status other than 0, or a list of namespaces that is empty, ends bring-up.
AdminDone ==
    /\ pc \in BringUp
    /\ Poll("admin")
    /\ held' = held \ {"buf"}
    /\ \/ Status("admin") = 0 /\ pc' = After(pc)
       \/ (Status("admin") # 0 \/ pc = "nsid_list") /\ pc' = "failed"
    /\ UNCHANGED <<ctrlVars, cq, devVars, dma, disk, result>>

----------------------------------------------------------------------------
(* read_blocks and write_blocks *)

Blocks(len) == len \div LBA_BYTES

Accepted(lba, len) ==
    /\ len % LBA_BYTES = 0 /\ len > 0
    /\ lba + Blocks(len) <= BLOCK_COUNT
    /\ len <= PAGE_SIZE

\* The calls that end without a command: BadLength, OutOfRange, Unsupported; Ok
\* for an empty buffer; and Io, when there is no frame for an accepted one.  Only
\* the length tells them apart.
Refuse(len) ==
    /\ pc = "ready" /\ waiting = "none"
    /\ result' = IF len = 0 THEN [ok |-> TRUE, buf |-> <<>>] ELSE Failed
    /\ UNCHANGED <<pc, ctrlVars, drvVars, cq, devVars, waiting, cmd, held, dma, disk>>

\* Of the frame the allocator hands out only what the call needs is written:
\* before a read it holds anything.
Begin(op, lba, len) ==
    /\ pc = "ready"
    /\ Accepted(lba, len)
    /\ held' = held \cup {"frame"}
    /\ dma' \in Page
    /\ Submit("io", op, lba, Blocks(len))
    /\ UNCHANGED <<pc, ctrlVars, cqHead, phase, cq, devVars, disk, result>>

\* Faulty variant of Return: an error leaves the frame allocated.
Return_Leaks ==
    /\ pc = "ready"
    /\ Poll("io")
    /\ held' = IF Status("io") = 0 THEN held \ {"frame"} ELSE held
    /\ result' = IF Status("io") = 0
                 THEN [ok |-> TRUE, buf |-> [i \in 0..(cmd.n - 1) |-> dma[i]]] ELSE Failed
    /\ UNCHANGED <<pc, ctrlVars, cq, devVars, dma, disk>>

\* Faulty variant of Return: the status is not looked at.
Return_NoStatus ==
    /\ pc = "ready"
    /\ Poll("io")
    /\ held' = held \ {"frame"}
    /\ result' = [ok |-> TRUE, buf |-> [i \in 0..(cmd.n - 1) |-> dma[i]]]
    /\ UNCHANGED <<pc, ctrlVars, cq, devVars, dma, disk>>

Return ==
    /\ pc = "ready"
    /\ Poll("io")
    /\ held' = held \ {"frame"}
    /\ result' = IF Status("io") = 0
                 THEN [ok |-> TRUE, buf |-> [i \in 0..(cmd.n - 1) |-> dma[i]]] ELSE Failed
    /\ UNCHANGED <<pc, ctrlVars, cq, devVars, dma, disk>>

----------------------------------------------------------------------------
(* The controller *)

\* RDY follows EN; a controller that is switched off forgets its queues.
SetReady ==
    /\ ready # enabled
    /\ ready' = enabled
    /\ UNCHANGED <<pc, enabled, ioMade, drvVars, cq, devVars, waiting, cmd, held, dma, disk,
                   result>>

\* A command is executed, or fails and changes nothing.  A ring that is longer
\* than the controller supports is refused.
Execute(q) ==
    LET c == sq[q][dHead[q]]
    IN  /\ ready
        /\ q = "io" => ioMade = {"cq", "sq"}
        /\ dDone[q] = NotDone /\ dHead[q] # sqTail[q]
        /\ dHead' = [dHead EXCEPT ![q] = (@ + 1) % Depth(q)]
        /\ \/ /\ c.op \in {"create_cq", "create_sq"} => IO_Q_DEPTH <= MQES
              /\ dDone' = [dDone EXCEPT ![q] = [cid |-> c.cid, status |-> 0]]
              /\ ioMade' = ioMade \cup {r \in {"cq", "sq"} :
                              \/ c.op = "create_cq" /\ r = "cq"
                              \/ c.op = "create_sq" /\ r = "sq"}
              /\ dma' = IF c.op = "read"
                        THEN [i \in DOMAIN dma |-> IF i < c.n THEN disk[c.lba + i] ELSE dma[i]]
                        ELSE dma
              /\ disk' = IF c.op = "write"
                         THEN [l \in Lba |-> IF l \in c.lba..(c.lba + c.n - 1)
                                             THEN dma[l - c.lba] ELSE disk[l]]
                         ELSE disk
           \/ /\ dDone' = [dDone EXCEPT ![q] = [cid |-> c.cid, status |-> 1]]
              /\ UNCHANGED <<ioMade, dma, disk>>
        /\ UNCHANGED <<pc, enabled, ready, drvVars, cq, dTail, dPhase, waiting, cmd, held, result>>

\* The answer goes to the completion ring, if there is room in it.
Answer(q) ==
    /\ dDone[q] # NotDone
    /\ (dTail[q] + 1) % Depth(q) # cqHead[q]
    /\ cq' = [cq EXCEPT ![q][dTail[q]] =
                 [cid |-> dDone[q].cid, status |-> dDone[q].status, phase |-> dPhase[q]]]
    /\ dTail' = [dTail EXCEPT ![q] = (@ + 1) % Depth(q)]
    /\ dPhase' = [dPhase EXCEPT ![q] = IF dTail'[q] = 0 THEN 1 - @ ELSE @]
    /\ dDone' = [dDone EXCEPT ![q] = NotDone]
    /\ UNCHANGED <<pc, ctrlVars, drvVars, dHead, waiting, cmd, held, dma, disk, result>>

----------------------------------------------------------------------------
Controller == SetReady \/ \E q \in Qid : Execute(q) \/ Answer(q)

\* The steps that the driver takes on its own, once called.
Driver == \/ Probe \/ Disable \/ Disabled \/ AdminQueues \/ Enabled
          \/ AdminSubmit \/ AdminDone \/ Return

Calls == \E len \in 0..MaxLen :
            \/ Refuse(len)
            \/ \E lba \in 0..BLOCK_COUNT, op \in {"read", "write"} : Begin(op, lba, len)

Next == Controller \/ Driver \/ Calls

Spec == Init /\ [][Next]_vars

\* The driver polls without end; the controller gets on with its work.
FairSpec == Spec /\ WF_vars(Controller) /\ WF_vars(Driver)

----------------------------------------------------------------------------
(* Properties *)

TypeOK ==
    /\ pc \in {"start", "probed", "disabling", "disabled", "enabling", "ready", "failed"}
               \cup BringUp
    /\ enabled \in BOOLEAN /\ ready \in BOOLEAN
    /\ sqTail \in [Qid -> Nat] /\ cqHead \in [Qid -> Nat]
    /\ dHead \in [Qid -> Nat] /\ dTail \in [Qid -> Nat]
    /\ \A q \in Qid : {sqTail[q], cqHead[q], dHead[q], dTail[q]} \subseteq Slot(q)
    /\ phase \in [Qid -> Bit] /\ dPhase \in [Qid -> Bit]
    /\ nextCid \in [Qid -> 0..(CID_MOD - 1)]
    /\ DOMAIN sq = Qid /\ \A q \in Qid : sq[q] \in [Slot(q) -> Command \cup {NoCommand}]
    /\ DOMAIN cq = Qid /\ \A q \in Qid : cq[q] \in [Slot(q) -> Completion]
    /\ dDone \in [Qid -> [cid : 0..(CID_MOD - 1), status : Bit] \cup {NotDone}]
    /\ ioMade \subseteq {"cq", "sq"}
    /\ waiting \in Qid \cup {"none"}
    /\ cmd \in Command \cup {NoCommand}
    /\ held \subseteq {"asq", "acq", "buf", "cq", "sq", "frame"}
    /\ dma \in Page /\ disk \in [Lba -> Data]

\* The driver takes the entry at the head of the completion ring for the answer
\* to its command, by the phase bit alone (mod.rs:134): it is, on every turn
\* through the ring.
AnswerIsOwn ==
    \A q \in Qid : waiting = q /\ cq[q][cqHead[q]].phase = phase[q] =>
        cq[q][cqHead[q]].cid = cmd.cid /\ dHead[q] = sqTail[q]

\* Between two calls the driver holds the frames of its four rings and no other,
\* however the calls before have ended; and while the controller may still read
\* or write the frame of a call, the frame is not given back.
FramesBalanced ==
    /\ pc = "ready" /\ waiting = "none" => held = {"asq", "acq", "cq", "sq"}
    /\ dHead["io"] # sqTail["io"] => "frame" \in held

\* What the file system sees of the driver: the call is performed when the
\* controller has executed its command.
AbsCall ==
    IF waiting # "io" THEN [op |-> "idle"]
    ELSE [op   |-> cmd.op, lba |-> cmd.lba, n |-> cmd.n,
          buf  |-> [i \in 0..(cmd.n - 1) |-> dma[i]],
          done |-> dHead["io"] = sqTail["io"],
          ok   |-> /\ dHead["io"] = sqTail["io"]
                   /\ IF dDone["io"] # NotDone THEN dDone["io"].status = 0 ELSE Status("io") = 0]

Abs == INSTANCE BlockDevice WITH call <- AbsCall

\* The driver is a block device (block.rs:19): a call takes effect whole, at one
\* moment before it returns, or fails and changes nothing, and what a read
\* returns is what the disk held at that moment.
IsBlockDevice == Abs!Spec

\* A call that has been made returns: the phase bit never makes the driver miss
\* its answer.  (The poll has no limit, so this rests on a controller that does
\* answer.)
CallReturns == waiting # "none" ~> waiting = "none"

=============================================================================
