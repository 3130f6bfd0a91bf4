------------------------------- MODULE PondFs -------------------------------
(***************************************************************************)
(* The PondFS file system: kernel/src/fs/pondfs/.                          *)
(*                                                                         *)
(* A file system call holds the lock of FsInner from beginning to end and  *)
(* polls the disk, so no two of them overlap; but the machine can stop     *)
(* between any two of the blocks that a call writes, and the disk can      *)
(* refuse any of them.  A call is therefore a sequence of steps, each with *)
(* one block written, and `op' is the call under way.                      *)
(*                                                                         *)
(* Sizes and offsets count units: a unit is one directory entry or one     *)
(* piece of file data, and a block holds BLOCK_SIZE of them; so an entry   *)
(* does not cross blocks here, as it may on a real disk.  The only         *)
(* directory is the root: the calls that user programs can make create     *)
(* files, in whatever directory there is.                                  *)
(* No system call leads to unlink yet; it is a call of the file system all *)
(* the same.                                                               *)
(***************************************************************************)
EXTENDS Integers, Sequences, FiniteSets

CONSTANTS NBlocks,        \* data blocks on the disk
          NInodes,        \* slots of the inode table, slot 0 aside
          BITS,           \* blocks in a byte of the bitmap, 8 in the code
          BLOCK_SIZE,     \* units in a block
          DIRECT_BLOCKS,  \* block pointers of an inode
          Name,           \* file names
          Datum,          \* pieces of file data
          Zero,           \* a unit of a zeroed block
          MaxWrite        \* bound: units in one write

ASSUME PondAssumption ==
    /\ NBlocks \in Nat /\ NInodes \in Nat \ {0} /\ BITS \in Nat \ {0}
    /\ BLOCK_SIZE \in Nat \ {0} /\ DIRECT_BLOCKS \in Nat \ {0} /\ MaxWrite \in Nat
    /\ Zero \notin Datum

Blk    == 1..NBlocks
NoBlk  == 0
Ino    == 1..NInodes
Root   == 1                                   \* ROOT_INO
Index  == 0..(DIRECT_BLOCKS - 1)
Offset == 0..(DIRECT_BLOCKS * BLOCK_SIZE - 1)
Entry  == [name : Name, ino : Ino]
Unit   == Datum \cup {Zero} \cup Entry

\* The inode number in a zeroed entry is 0, which no entry has.
ASSUME EmptyAssumption == Zero \notin Entry

RawInode == [kind : {"unused", "file", "dir"},
             size : 0..(DIRECT_BLOCKS * BLOCK_SIZE),
             direct : [Index -> Blk \cup {NoBlk}]]
NewInode(kind) == [kind |-> kind, size |-> 0, direct |-> [i \in Index |-> NoBlk]]
NotCached == [kind |-> "none"]
Idle == [step |-> "idle"]

VARIABLES dBitmap,   \* the bitmap on the disk: the blocks whose bit is set
          dInode,    \* the inode table on the disk
          dData,     \* the data blocks on the disk
          bitmap,    \* FsInner::bitmap
          cache,     \* FsInner::inode_cache
          op,        \* the call under way
          made,      \* the entries whose create has returned
          allowed,   \* what each unit of a file may hold, see DataDurable
          torn       \* a create has failed after it began to write the directory

vars == <<dBitmap, dInode, dData, bitmap, cache, op, made, allowed, torn>>

Least(S) == CHOOSE x \in S : \A y \in S : x <= y

----------------------------------------------------------------------------
(* Reading *)

\* read_file_at of the whole file.
Content(raw) ==
    [o \in 0..(raw.size - 1) |-> dData[raw.direct[o \div BLOCK_SIZE]][o % BLOCK_SIZE]]

\* dir_read_entries: up to the end, or to the first empty entry.
Entries(raw) ==
    LET end == Least({raw.size} \cup {o \in DOMAIN Content(raw) : Content(raw)[o] = Zero})
    IN  [i \in 1..end |-> Content(raw)[i - 1]]

Listed(raw) == {Entries(raw)[i] : i \in DOMAIN Entries(raw)}

----------------------------------------------------------------------------
(* An empty image made by mkpondfs, mounted. *)
Init ==
    /\ dBitmap = {}
    /\ dInode = [i \in Ino |-> NewInode(IF i = Root THEN "dir" ELSE "unused")]
    /\ dData = [b \in Blk |-> [j \in 0..(BLOCK_SIZE - 1) |-> Zero]]
    /\ bitmap = {}
    /\ cache = [i \in Ino |-> IF i = Root THEN dInode[Root] ELSE NotCached]
    /\ op = Idle
    /\ made = {}
    /\ allowed = [i \in Ino |-> [o \in Offset |-> {Zero}]]
    /\ torn = FALSE

\* lookup and get_or_load.
Lookup(name) ==
    /\ op = Idle
    /\ LET es == Entries(cache[Root])
       IN  \E i \in DOMAIN es :
             /\ es[i].name = name /\ \A j \in 1..(i - 1) : es[j].name # name
             /\ cache[es[i].ino] = NotCached
             /\ cache' = [cache EXCEPT ![es[i].ino] = dInode[es[i].ino]]
    /\ UNCHANGED <<dBitmap, dInode, dData, bitmap, op, made, allowed, torn>>

----------------------------------------------------------------------------
(* write_file_at, which write_at and create share.  It writes op.buf at     *)
(* offset op.off of inode op.ino.                                           *)

End == op.off + Len(op.buf)

\* Faulty variant of Needed: the last block is not counted when it is partly used.
Needed_Floor(end) == end \div BLOCK_SIZE

Needed(end) == (end + BLOCK_SIZE - 1) \div BLOCK_SIZE
Missing(raw) == {i \in 0..(Needed(End) - 1) : raw.direct[i] = NoBlk}
Touched == {k \in Index : \E o \in op.off..(End - 1) : o \div BLOCK_SIZE = k}
ToData == IF Touched = {} THEN [op EXCEPT !.step = "inode"]
          ELSE [op EXCEPT !.step = "data", !.at = Least(Touched)]

\* What the blocks of an inode hold, past its size too.
OnDisk(raw) ==
    [o \in Offset |-> LET b == raw.direct[o \div BLOCK_SIZE]
                      IN  IF b = NoBlk THEN Zero ELSE dData[b][o % BLOCK_SIZE]]

\* The call returns an error.  A directory whose rewriting fails has been
\* given size 0 in memory, and keeps it.
Fail ==
    /\ op' = Idle
    /\ torn' = (torn \/ (op.what = "create" /\ op.step \in {"alloc", "zero", "data"}))
    /\ allowed' = IF op.what = "create" THEN allowed
                  ELSE [allowed EXCEPT ![op.ino] = [o \in Offset |->
                           {OnDisk(dInode[op.ino])[o], OnDisk(cache[op.ino])[o]}]]
    /\ UNCHANGED made

\* The blocks whose bits are in a byte with that of b.
ByteOf(b) == {c \in Blk : (c - 1) \div BITS = (b - 1) \div BITS}

\* Faulty variant of AllocBlock: the bitmap block is not written.
AllocBlock_NoFlush ==
    /\ op.step = "alloc"
    /\ LET free == Blk \ bitmap
           b    == Least(free)
       IN  \/ /\ Missing(cache[op.ino]) = {}
              /\ op' = ToData
              /\ UNCHANGED <<bitmap, made, allowed, torn>>
           \/ /\ Missing(cache[op.ino]) # {} /\ free = {}
              /\ Fail
              /\ UNCHANGED bitmap
           \/ /\ Missing(cache[op.ino]) # {} /\ free # {}
              /\ bitmap' = bitmap \cup {b}
              /\ op' = [op EXCEPT !.step = "zero", !.at = b]
              /\ UNCHANGED <<made, allowed, torn>>
    /\ UNCHANGED <<dBitmap, dInode, dData, cache>>

\* alloc_data_block.  One byte of the bitmap goes to the disk; the others of its
\* block are written as they were read.
AllocBlock ==
    /\ op.step = "alloc"
    /\ LET free == Blk \ bitmap
           b    == Least(free)
       IN  \/ /\ Missing(cache[op.ino]) = {}
              /\ op' = ToData
              /\ UNCHANGED <<dBitmap, bitmap, made, allowed, torn>>
           \/ /\ Missing(cache[op.ino]) # {} /\ free = {}
              /\ Fail
              /\ UNCHANGED <<dBitmap, bitmap>>
           \/ /\ Missing(cache[op.ino]) # {} /\ free # {}
              /\ bitmap' = bitmap \cup {b}
              /\ dBitmap' = (dBitmap \ ByteOf(b)) \cup (bitmap' \cap ByteOf(b))
              /\ op' = [op EXCEPT !.step = "zero", !.at = b]
              /\ UNCHANGED <<made, allowed, torn>>
    /\ UNCHANGED <<dInode, dData, cache>>

ZeroBlock ==
    /\ op.step = "zero"
    /\ dData' = [dData EXCEPT ![op.at] = [j \in 0..(BLOCK_SIZE - 1) |-> Zero]]
    /\ cache' = [cache EXCEPT ![op.ino].direct[Least(Missing(cache[op.ino]))] = op.at]
    /\ op' = [op EXCEPT !.step = "alloc"]
    /\ UNCHANGED <<dBitmap, dInode, bitmap, made, allowed, torn>>

\* Faulty variant of WriteBlock: the block is not read before it is written.
WriteBlock_NoRead ==
    /\ op.step = "data"
    /\ dData' = [dData EXCEPT ![cache[op.ino].direct[op.at]] =
                    [j \in 0..(BLOCK_SIZE - 1) |->
                        LET o == op.at * BLOCK_SIZE + j
                        IN  IF o \in op.off..(End - 1) THEN op.buf[o - op.off + 1] ELSE Zero]]
    /\ op' = IF op.at + 1 \in Touched THEN [op EXCEPT !.at = @ + 1]
             ELSE [op EXCEPT !.step = "inode"]
    /\ UNCHANGED <<dBitmap, dInode, bitmap, cache, made, allowed, torn>>

WriteBlock ==
    /\ op.step = "data"
    /\ dData' = [dData EXCEPT ![cache[op.ino].direct[op.at]] =
                    [j \in 0..(BLOCK_SIZE - 1) |->
                        LET o == op.at * BLOCK_SIZE + j
                        IN  IF o \in op.off..(End - 1) THEN op.buf[o - op.off + 1] ELSE @[j]]]
    /\ op' = IF op.at + 1 \in Touched THEN [op EXCEPT !.at = @ + 1]
             ELSE [op EXCEPT !.step = "inode"]
    /\ UNCHANGED <<dBitmap, dInode, bitmap, cache, made, allowed, torn>>

\* Faulty variant of Grown: the bytes written are added to the size.
Grown_Adds == [cache[op.ino] EXCEPT !.size = @ + Len(op.buf)]

\* The size is set in memory, then the inode goes to the disk (write_inode).
Grown == [cache[op.ino] EXCEPT !.size = IF End > @ THEN End ELSE @]

\* Faulty variant of Commit: create does not write the inode of the directory.
Commit_SkipsParent ==
    /\ op.step = "inode"
    /\ \/ /\ op.what = "write"
          /\ dInode' = [dInode EXCEPT ![op.ino] = Grown]
          /\ cache' = [cache EXCEPT ![op.ino] = Grown]
          /\ allowed' = [allowed EXCEPT ![op.ino] =
                [o \in Offset |-> IF o \in op.off..(End - 1) THEN {op.buf[o - op.off + 1]} ELSE @[o]]]
          /\ UNCHANGED made
       \/ /\ op.what = "create"
          /\ cache' = [cache EXCEPT ![op.ino] = Grown, ![op.new] = NewInode("file")]
          /\ made' = made \cup {op.buf[Len(op.buf)]}
          /\ UNCHANGED <<dInode, allowed>>
    /\ op' = Idle
    /\ UNCHANGED <<dBitmap, dData, bitmap, torn>>

Commit ==
    /\ op.step = "inode"
    /\ dInode' = [dInode EXCEPT ![op.ino] = Grown]
    /\ \/ /\ op.what = "write"
          /\ cache' = [cache EXCEPT ![op.ino] = Grown]
          /\ allowed' = [allowed EXCEPT ![op.ino] =
                [o \in Offset |-> IF o \in op.off..(End - 1) THEN {op.buf[o - op.off + 1]} ELSE @[o]]]
          /\ UNCHANGED made
       \/ /\ op.what = "create"
          /\ cache' = [cache EXCEPT ![op.ino] = Grown, ![op.new] = NewInode("file")]
          /\ made' = made \cup {op.buf[Len(op.buf)]}
          /\ UNCHANGED allowed
    /\ op' = Idle
    /\ UNCHANGED <<dBitmap, dData, bitmap, torn>>

----------------------------------------------------------------------------
\* write_at; a file that would need more than DIRECT_BLOCKS is refused.
WriteAt(ino, off, buf) ==
    /\ op = Idle
    /\ cache[ino].kind = "file"
    /\ Needed(off + Len(buf)) <= DIRECT_BLOCKS
    /\ op' = [step |-> "alloc", what |-> "write", ino |-> ino, off |-> off, buf |-> buf,
              new |-> ino, at |-> 0]
    /\ allowed' = [allowed EXCEPT ![ino] =
          [o \in Offset |-> @[o] \cup {buf[i] : i \in {o - off + 1} \cap DOMAIN buf}]]
    /\ UNCHANGED <<dBitmap, dInode, dData, bitmap, cache, made, torn>>

\* create: the name is new, and alloc_inode finds a slot.
Create(name) ==
    LET unused == {i \in Ino : dInode[i].kind = "unused"}
        old    == Entries(cache[Root])
        new    == [name |-> name, ino |-> Least(unused)]
    IN  /\ op = Idle
        /\ \A e \in Listed(cache[Root]) : e.name # name
        /\ unused # {}
        /\ op' = [step |-> "create", what |-> "create", ino |-> Root, off |-> 0,
                  buf |-> Append(old, new), new |-> new.ino, at |-> 0]
        /\ UNCHANGED <<dBitmap, dInode, dData, bitmap, cache, made, allowed, torn>>

\* Faulty variant of WriteNewInode: the new inode stays in memory.
WriteNewInode_NotWritten ==
    /\ op.step = "create"
    /\ cache' = [cache EXCEPT ![Root].size = 0]
    /\ \/ /\ Needed(End) > DIRECT_BLOCKS
          /\ op' = Idle /\ torn' = TRUE
       \/ /\ Needed(End) <= DIRECT_BLOCKS
          /\ op' = [op EXCEPT !.step = "alloc"] /\ UNCHANGED torn
    /\ UNCHANGED <<dBitmap, dInode, dData, bitmap, made, allowed>>

\* The new inode goes to the disk; then dir_write_entries begins.  It frees no
\* block, because the directory grows, and gives it size 0 before it asks
\* write_file_at whether the entries still fit.
WriteNewInode ==
    /\ op.step = "create"
    /\ dInode' = [dInode EXCEPT ![op.new] = NewInode("file")]
    /\ cache' = [cache EXCEPT ![Root].size = 0]
    /\ \/ /\ Needed(End) > DIRECT_BLOCKS
          /\ op' = Idle /\ torn' = TRUE
       \/ /\ Needed(End) <= DIRECT_BLOCKS
          /\ op' = [op EXCEPT !.step = "alloc"] /\ UNCHANGED torn
    /\ UNCHANGED <<dBitmap, dData, bitmap, made, allowed>>

\* unlink of a file that exists takes the lock and calls get_or_load, which
\* takes the lock: the CPU spins with interrupts off.
Unlink(name) ==
    /\ op = Idle
    /\ \E e \in Listed(cache[Root]) : e.name = name
    /\ op' = [step |-> "stuck"]
    /\ UNCHANGED <<dBitmap, dInode, dData, bitmap, cache, made, allowed, torn>>

----------------------------------------------------------------------------
(* Faults *)

\* The disk refuses the block that the call is about to write, or to read before it.
IoError ==
    /\ op.step \in {"create", "zero", "data", "inode"}
           \/ (op.step = "alloc" /\ Missing(cache[op.ino]) # {} /\ bitmap # Blk)
    /\ bitmap' = IF op.step = "alloc" THEN bitmap \cup {Least(Blk \ bitmap)} ELSE bitmap
    /\ cache' = IF op.step = "inode" THEN [cache EXCEPT ![op.ino] = Grown] ELSE cache
    /\ Fail
    /\ UNCHANGED <<dBitmap, dInode, dData>>

\* Power fails, and the disk is mounted again.
Crash ==
    /\ bitmap' = dBitmap
    /\ cache' = [i \in Ino |-> IF i = Root THEN dInode[Root] ELSE NotCached]
    /\ op' = Idle
    /\ allowed' = [i \in Ino |-> IF i = Root THEN allowed[i]
                                ELSE [o \in Offset |-> {OnDisk(dInode[i])[o]}]]
    /\ UNCHANGED <<dBitmap, dInode, dData, made, torn>>

Buffers == UNION {[1..n -> Datum] : n \in 0..MaxWrite}

Next ==
    \/ \E name \in Name : Lookup(name) \/ Create(name) \/ Unlink(name)
    \/ \E ino \in Ino, off \in Offset, buf \in Buffers : WriteAt(ino, off, buf)
    \/ WriteNewInode \/ AllocBlock \/ ZeroBlock \/ WriteBlock \/ Commit
    \/ IoError \/ Crash

Spec == Init /\ [][Next]_vars

----------------------------------------------------------------------------
(* Properties *)

TypeOK ==
    /\ dBitmap \subseteq Blk /\ bitmap \subseteq Blk
    /\ dInode \in [Ino -> RawInode]
    /\ dData \in [Blk -> [0..(BLOCK_SIZE - 1) -> Unit]]
    /\ cache \in [Ino -> RawInode \cup {NotCached}]
    /\ \/ op \in {Idle, [step |-> "stuck"]}
       \/ op \in [step : {"create", "alloc", "zero", "data", "inode"}, what : {"write", "create"},
                  ino : Ino, off : Nat, buf : Seq(Unit), new : Ino, at : Nat]
    /\ made \subseteq Entry
    /\ allowed \in [Ino -> [Offset -> SUBSET Unit]]
    /\ torn \in BOOLEAN

\* The inodes as the running system sees them.
View == [i \in Ino |-> IF cache[i] = NotCached THEN dInode[i] ELSE cache[i]]
Refs(inodes) == {inodes[i].direct[k] : i \in Ino, k \in Index} \ {NoBlk}

\* At every moment, crashes, refused writes and a full disk included, every
\* block that an inode points to, on the disk or in memory, is marked in the
\* bitmap there, and no two pointers share a block: what a crash loses is at
\* most the use of some blocks ("a dangling bitmap bit", 0003-deep-current.md).
BlocksOwned ==
    /\ Refs(dInode) \subseteq dBitmap /\ Refs(View) \subseteq bitmap /\ dBitmap \subseteq bitmap
    /\ \A i, j \in Ino, k, l \in Index :
          /\ View[i].direct[k] # NoBlk /\ View[i].direct[k] = View[j].direct[l] => i = j /\ k = l
          /\ dInode[i].direct[k] \in {NoBlk, View[i].direct[k]}

\* A directory on the disk lists each name and each inode once, and lists only
\* inodes that are in use, so that no later create takes one of them; unless a
\* create has failed halfway, see CreatedIsListed: the entries it has forgotten
\* are then still on the disk, behind the ones that are written over them.
NoDangling ==
    LET es == Entries(dInode[Root])
    IN  torn \/ /\ \A i \in DOMAIN es : es[i] \in Entry /\ dInode[es[i].ino].kind = "file"
                /\ \A i, j \in DOMAIN es :
                      es[i].name = es[j].name \/ es[i].ino = es[j].ino => i = j

\* A file whose create has returned stays in the directory on the disk, through
\* crashes and whatever is created or written later; unless a create has failed
\* halfway, see CreatedIsListed.
DirectoryDurable == torn \/ made \subseteq Listed(dInode[Root])

\* Every unit below the size of a file on the disk holds what the last write of
\* it that returned has put there, or what a later one that failed or has not
\* returned has, and zero if there was none.  A crash settles which of them it
\* is; from then on the unit changes only when it is written.
DataDurable ==
    \A i \in Ino : dInode[i].kind = "file" =>
        \A o \in 0..(dInode[i].size - 1) : Content(dInode[i])[o] \in allowed[i][o]

\* A file has no holes, so read_file_at never meets a null block pointer.
NoHoles ==
    \A i \in Ino, k \in Index : \A raw \in {dInode[i], View[i]} :
        k * BLOCK_SIZE < raw.size => raw.direct[k] # NoBlk

\* A file whose create has returned can be looked up.  ("Create, read, write,
\* and unlink all work", 0003-deep-current.md:23.)
CreatedIsListed == op = Idle => made \subseteq Listed(cache[Root])

\* An unlink comes to an end.  (Same line.)
UnlinkReturns == op.step # "stuck"

=============================================================================
