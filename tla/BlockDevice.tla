----------------------------- MODULE BlockDevice -----------------------------
(***************************************************************************)
(* What a block driver promises to the file system: the trait BlockDevice  *)
(* of kernel/src/drivers/block.rs.                                         *)
(*                                                                         *)
(* One call runs at a time.  It takes effect as a whole, at one moment     *)
(* before it returns, or fails and changes nothing on the disk.            *)
(***************************************************************************)
EXTENDS Integers

CONSTANTS BLOCK_COUNT,  \* blocks of the device
          Data          \* contents of a block

Lba == 0..(BLOCK_COUNT - 1)
Idle == [op |-> "idle"]

VARIABLES disk,    \* the contents of the device
          call,    \* the call under way
          result   \* what the last call that returned has returned

vars == <<disk, call, result>>

\* A buffer of n blocks.
Buffer(n) == [0..(n - 1) -> Data]
Failed == [ok |-> FALSE]

Init ==
    /\ disk \in [Lba -> Data]
    /\ call = Idle
    /\ result = Failed

\* read_blocks, write_blocks: a range of blocks that the device has.
Begin(op, lba, n, buf) ==
    /\ call = Idle
    /\ lba \in Lba /\ n > 0 /\ lba + n <= BLOCK_COUNT
    /\ call' = [op |-> op, lba |-> lba, n |-> n, buf |-> buf, done |-> FALSE, ok |-> FALSE]
    /\ UNCHANGED <<disk, result>>

\* The call when it is done.
Done(ok, buf) == [op |-> call.op, lba |-> call.lba, n |-> call.n, buf |-> buf,
                  done |-> TRUE, ok |-> ok]

\* The moment at which the call takes effect.
Perform ==
    /\ call # Idle /\ ~call.done
    /\ \/ /\ call.op = "read"
          /\ call' = Done(TRUE, [i \in 0..(call.n - 1) |-> disk[call.lba + i]])
          /\ UNCHANGED disk
       \/ /\ call.op = "write"
          /\ call' = Done(TRUE, call.buf)
          /\ disk' = [l \in Lba |-> IF l \in call.lba..(call.lba + call.n - 1)
                                    THEN call.buf[l - call.lba] ELSE disk[l]]
    /\ UNCHANGED result

Fail ==
    /\ call # Idle /\ ~call.done
    /\ call' = Done(FALSE, call.buf)
    /\ UNCHANGED <<disk, result>>

Return ==
    /\ call # Idle /\ call.done
    /\ result' = IF call.ok THEN [ok |-> TRUE, buf |-> call.buf] ELSE Failed
    /\ call' = Idle
    /\ UNCHANGED disk

\* The call returns at once: nothing to do, or bad arguments, or no memory.
Refuse(r) ==
    /\ call = Idle
    /\ r \in {Failed, [ok |-> TRUE, buf |-> <<>>]}
    /\ result' = r
    /\ UNCHANGED <<disk, call>>

Next ==
    \/ \E op \in {"read", "write"}, lba \in Lba, n \in 1..BLOCK_COUNT :
          \E buf \in Buffer(n) : Begin(op, lba, n, buf)
    \/ Perform \/ Fail \/ Return
    \/ \E r \in {Failed, [ok |-> TRUE, buf |-> <<>>]} : Refuse(r)

Spec == Init /\ [][Next]_vars

=============================================================================
