---------------------------- MODULE PondFsSteps -----------------------------
(***************************************************************************)
(* The invariant behind the proofs about PondFs, the lemmas about blocks,  *)
(* inodes and the directory that they need, and the steps of a call up to  *)
(* the first block of data.  PondFsProofs has the other steps and the      *)
(* theorems.                                                               *)
(***************************************************************************)
EXTENDS PondFs, WellFoundedInduction, TLAPS

\* Inode i as the running system sees it, and its block pointers there and on
\* the disk.
Seen(i)    == IF cache[i] = NotCached THEN dInode[i] ELSE cache[i]
Ptr(i, k)  == Seen(i).direct[k]
DPtr(i, k) == dInode[i].direct[k]

\* What unit o of file i holds, through either pointer; zero without a block.
UnitIn(b, o) == IF b = NoBlk THEN Zero ELSE dData[b][o % BLOCK_SIZE]
Holds(i, o)  == UnitIn(Ptr(i, o \div BLOCK_SIZE), o)
DHolds(i, o) == UnitIn(DPtr(i, o \div BLOCK_SIZE), o)

MaxSize  == DIRECT_BLOCKS * BLOCK_SIZE
InUse(e) == e \in Entry /\ dInode[e.ino].kind = "file"
Working  == op.step \in {"create", "alloc", "zero", "data", "inode"}
Creating == Working /\ op.what = "create"
Span     == op.off..(End - 1)               \* the units that the call writes
NewEntry == op.buf[Len(op.buf)]

\* The root is the only directory.  A cached inode is in use, and of the kind
\* it has on the disk; an unused one has no blocks.
KindOK ==
    /\ dInode[Root].kind = "dir" /\ cache[Root] # NotCached
    /\ \A i \in Ino :
          /\ i # Root => dInode[i].kind # "dir"
          /\ cache[i] # NotCached => cache[i].kind = dInode[i].kind /\ dInode[i].kind # "unused"
          /\ dInode[i].kind = "unused" => \A k \in Index : DPtr(i, k) = NoBlk

\* BlocksOwned and NoHoles, pointer by pointer.  A pointer in memory is marked on
\* the disk as well: alloc_data_block writes the bitmap before it returns.
Owned ==
    /\ dBitmap \subseteq bitmap
    /\ \A i \in Ino, k \in Index :
          /\ Ptr(i, k) \in dBitmap \cup {NoBlk}
          /\ DPtr(i, k) \in {NoBlk, Ptr(i, k)}
    /\ \A i, j \in Ino, k, l \in Index :
          Ptr(i, k) # NoBlk /\ Ptr(i, k) = Ptr(j, l) => i = j /\ k = l
Filled ==
    \A i \in Ino, k \in Index :
        /\ k * BLOCK_SIZE < dInode[i].size => DPtr(i, k) # NoBlk
        /\ k * BLOCK_SIZE < Seen(i).size => Ptr(i, k) # NoBlk

\* The blocks of the directory hold nothing but entries of inodes in use.
DirUnits == \A o \in Offset : \A e : Holds(Root, o) = e => e = Zero \/ InUse(e)

\* The call under way: whose inode it is, that its end fits, ...
CallIno ==
    /\ Working => cache[op.ino] # NotCached
    /\ Working /\ op.what = "write" => op.step # "create" /\ op.ino # Root
    /\ Working /\ op.step # "create" => End <= MaxSize
    /\ Creating => op.ino = Root /\ op.off = 0

\* ... how far its blocks have come, ...
CallBlocks ==
    \A x \in Ino : Working /\ op.ino = x =>
        /\ op.step = "zero" =>
              /\ op.at \in dBitmap
              /\ \A i \in Ino, k \in Index : Ptr(i, k) # op.at
              /\ \E k \in Index : k * BLOCK_SIZE < End /\ Ptr(x, k) = NoBlk
        /\ op.step \in {"data", "inode"} =>
              \A k \in Index : k * BLOCK_SIZE < End => Ptr(x, k) # NoBlk
        /\ op.step = "data" => \E o \in Span : o \div BLOCK_SIZE = op.at
        /\ \A o \in Span :
              op.step = "inode" \/ (op.step = "data" /\ o \div BLOCK_SIZE < op.at)
              => Holds(x, o) = op.buf[o - op.off + 1]

\* ... and what a create is about to list.
CallNew ==
    Creating =>
        /\ Len(op.buf) > 0
        /\ \A n \in 1..(Len(op.buf) - 1) : \A e : op.buf[n] = e => InUse(e)
        /\ NewEntry \in Entry /\ NewEntry.ino = op.new
        /\ cache[op.new] = NotCached
        /\ op.step = "create" => dInode[op.new].kind = "unused"
        /\ op.step # "create" => dInode[op.new] = NewInode("file") /\ cache[Root].size = 0

\* Until a create is torn, the directory in memory has a first part without
\* empty entries, in which every name and every inode is listed once.  The
\* directory on the disk is a beginning of it, and lists what was made; a
\* create under way writes this part again, with one more entry.
DirSize == IF Creating THEN Len(op.buf) - 1 ELSE cache[Root].size
DirOK ==
    torn \/
        /\ dInode[Root].size <= DirSize /\ DirSize <= MaxSize
        /\ \A o \in 0..(DirSize - 1) : Holds(Root, o) # Zero
        /\ \A o, p \in 0..(DirSize - 1) :
              \/ Holds(Root, o).name = Holds(Root, p).name
              \/ Holds(Root, o).ino = Holds(Root, p).ino
              => o = p
        /\ \A e \in made : \E o \in 0..(dInode[Root].size - 1) : Holds(Root, o) = e
DirCall ==
    torn \/ (Creating =>
        /\ op.step = "create" => cache[Root].size = DirSize
        /\ \A o \in 0..(DirSize - 1) :
              /\ Holds(Root, o) = op.buf[o + 1]
              /\ op.buf[o + 1].name # NewEntry.name
              /\ op.buf[o + 1].ino # op.new)

\* Every unit of every file holds one of the values it may hold.
DataOK ==
    /\ \A i \in Ino \ {Root}, o \in Offset :
          Holds(i, o) \in allowed[i][o] /\ DHolds(i, o) \in allowed[i][o]
    /\ Working /\ op.what = "write" =>
          \A o \in Span : op.buf[o - op.off + 1] \in allowed[op.ino][o]

PInv == /\ TypeOK /\ KindOK /\ Owned /\ Filled /\ DirUnits
        /\ CallIno /\ CallBlocks /\ CallNew /\ DirOK /\ DirCall /\ DataOK

----------------------------------------------------------------------------
(* Numbers *)

LEMMA Sizes ==
    /\ BLOCK_SIZE \in Nat \ {0} /\ DIRECT_BLOCKS \in Nat \ {0}
    /\ MaxSize \in Nat /\ Offset = 0..(MaxSize - 1) /\ Root \in Ino /\ NoBlk \notin Blk
    BY PondAssumption DEF MaxSize, Offset, Root, Ino, NoBlk, Blk

LEMMA DivMod ==
    ASSUME NEW o \in Nat
    PROVE  /\ o \div BLOCK_SIZE \in Nat /\ o % BLOCK_SIZE \in 0..(BLOCK_SIZE - 1)
           /\ o = (o \div BLOCK_SIZE) * BLOCK_SIZE + (o % BLOCK_SIZE)
    BY Sizes

LEMMA DivAt ==
    ASSUME NEW k \in Nat, NEW j \in 0..(BLOCK_SIZE - 1)
    PROVE  (k * BLOCK_SIZE + j) \div BLOCK_SIZE = k /\ (k * BLOCK_SIZE + j) % BLOCK_SIZE = j
    BY Sizes

LEMMA Times ==
    ASSUME NEW b \in Nat, NEW k \in Nat, NEW l \in Nat
    PROVE  k * b \in Nat /\ (k + 1) * b = k * b + b /\ (k <= l => k * b <= l * b)
    OBVIOUS

LEMMA OffsetParts ==
    ASSUME NEW o \in Offset
    PROVE  /\ o \in Nat /\ o \div BLOCK_SIZE \in Index /\ o % BLOCK_SIZE \in 0..(BLOCK_SIZE - 1)
           /\ (o \div BLOCK_SIZE) * BLOCK_SIZE \in Nat /\ (o \div BLOCK_SIZE) * BLOCK_SIZE <= o
<1> DEFINE q == o \div BLOCK_SIZE
           r == o % BLOCK_SIZE
<1>1. o \in Nat /\ o < DIRECT_BLOCKS * BLOCK_SIZE
    BY Sizes DEF MaxSize
<1>2. q \in Nat /\ r \in 0..(BLOCK_SIZE - 1) /\ o = q * BLOCK_SIZE + r
    BY <1>1, DivMod
<1> HIDE DEF q, r
<1>3. q * BLOCK_SIZE \in Nat /\ (DIRECT_BLOCKS <= q => DIRECT_BLOCKS * BLOCK_SIZE <= q * BLOCK_SIZE)
    BY <1>2, Sizes, Times
<1>4. r \in Nat /\ q * BLOCK_SIZE <= o
    BY <1>1, <1>2, <1>3, Sizes
<1>5. q < DIRECT_BLOCKS
    BY <1>1, <1>2, <1>3, <1>4, Sizes
<1> QED
    BY <1>1, <1>2, <1>3, <1>4, <1>5, Sizes DEF Index, q, r

\* The number of blocks that a file of e units needs.
LEMMA NeededIs ==
    ASSUME NEW e \in Nat
    PROVE  /\ Needed(e) \in Nat
           /\ \A k \in Nat : k < Needed(e) <=> k * BLOCK_SIZE < e
           /\ Needed(e) <= DIRECT_BLOCKS <=> e <= MaxSize
<1> DEFINE n == Needed(e)
           r == (e + BLOCK_SIZE - 1) % BLOCK_SIZE
<1>1. n \in Nat /\ r \in 0..(BLOCK_SIZE - 1) /\ e + BLOCK_SIZE - 1 = n * BLOCK_SIZE + r
  <2>1. e + BLOCK_SIZE - 1 \in Nat
      BY Sizes
  <2> QED
      BY <2>1, DivMod DEF Needed
<1> HIDE DEF n, r
<1>2. ASSUME NEW k \in Nat PROVE k < n <=> k * BLOCK_SIZE < e
  <2>1. ASSUME k < n PROVE k * BLOCK_SIZE < e
    <3>1. (k + 1) * BLOCK_SIZE <= n * BLOCK_SIZE
        BY <1>1, <2>1, Sizes, Times
    <3> QED
        BY <1>1, <3>1, Sizes
  <2>2. ASSUME ~(k < n) PROVE ~(k * BLOCK_SIZE < e)
    <3>1. k * BLOCK_SIZE >= n * BLOCK_SIZE
        BY <1>1, <2>2, Sizes, Times
    <3> QED
        BY <1>1, <3>1, Sizes
  <2> QED
      BY <2>1, <2>2
<1>3. DIRECT_BLOCKS < n <=> DIRECT_BLOCKS * BLOCK_SIZE < e
    BY <1>2, Sizes
<1> QED
    BY <1>1, <1>2, <1>3, Sizes DEF n, MaxSize

LEMMA LeastIs ==
    ASSUME NEW S, S \subseteq Nat, S # {}
    PROVE  Least(S) \in S /\ \A y \in S : Least(S) <= y
<1>1. PICK x \in S : \A y \in S : ~(<<y, x>> \in OpToRel(<, Nat))
    BY NatLessThanWellFounded, WFMin, Zenon
<1>2. ASSUME NEW y \in S PROVE x <= y
  <2>1. y \in Nat /\ x \in Nat /\ ~(<<y, x>> \in OpToRel(<, Nat))
      BY <1>1, Zenon
  <2>2. ASSUME y < x PROVE FALSE
    <3>1. <<y, x>> \in Nat \X Nat /\ <<y, x>>[1] < <<y, x>>[2]
        BY <2>1, <2>2, Zenon
    <3> QED
        BY Zenon, <2>1, <3>1 DEF OpToRel
  <2>3. y \in Nat /\ x \in Nat
      OBVIOUS
  <2> QED
      BY <2>2, <2>3
<1>3. \E z \in S : \A y \in S : z <= y
    BY <1>2, Zenon
<1> QED
    BY <1>3, Zenon DEF Least

----------------------------------------------------------------------------
(* Inodes and units *)

LEMMA RawFacts ==
    ASSUME NEW r \in RawInode
    PROVE  /\ r # NotCached /\ r.kind \in {"unused", "file", "dir"}
           /\ r.size \in Nat /\ r.size <= MaxSize
           /\ r.direct \in [Index -> Blk \cup {NoBlk}]
<1>1. r.kind \in {"unused", "file", "dir"} /\ r.size \in 0..MaxSize
      /\ r.direct \in [Index -> Blk \cup {NoBlk}]
    BY DEF RawInode, MaxSize
<1>2. r # NotCached
    BY <1>1 DEF NotCached
<1> QED
    BY <1>1, <1>2, Sizes

LEMMA NewInodeRaw ==
    ASSUME NEW kind \in {"unused", "file", "dir"}
    PROVE  /\ NewInode(kind) \in RawInode
           /\ NewInode(kind).kind = kind /\ NewInode(kind).size = 0
           /\ \A k \in Index : NewInode(kind).direct[k] = NoBlk
<1>1. 0 \in 0..(DIRECT_BLOCKS * BLOCK_SIZE)
    BY Sizes DEF MaxSize
<1> QED
    BY <1>1 DEF NewInode, RawInode

LEMMA TypeFacts ==
    ASSUME TypeOK
    PROVE  /\ \A i \in Ino : dInode[i] \in RawInode /\ Seen(i) \in RawInode
           /\ \A i \in Ino : cache[i] # NotCached => cache[i] \in RawInode /\ Seen(i) = cache[i]
           /\ \A i \in Ino : cache[i] = NotCached => Seen(i) = dInode[i]
<1>1. dInode \in [Ino -> RawInode] /\ cache \in [Ino -> RawInode \cup {NotCached}]
    BY DEF TypeOK
<1> QED
    BY <1>1 DEF Seen

LEMMA PtrFacts ==
    ASSUME TypeOK, NEW i \in Ino, NEW k \in Index
    PROVE  Ptr(i, k) \in Blk \cup {NoBlk} /\ DPtr(i, k) \in Blk \cup {NoBlk}
<1>1. dInode[i] \in RawInode /\ Seen(i) \in RawInode
    BY TypeFacts
<1>2. dInode[i].direct \in [Index -> Blk \cup {NoBlk}] /\ Seen(i).direct \in [Index -> Blk \cup {NoBlk}]
    BY <1>1, RawFacts
<1> QED
    BY <1>2 DEF Ptr, DPtr

LEMMA RootSize == ASSUME TypeOK, KindOK PROVE cache[Root].size \in Nat /\ cache[Root].size <= MaxSize
    BY Sizes, TypeFacts, RawFacts DEF KindOK

LEMMA UnitFacts ==
    ASSUME TypeOK, NEW i \in Ino, NEW o \in Offset
    PROVE  Holds(i, o) \in Unit /\ DHolds(i, o) \in Unit
<1>1. o \div BLOCK_SIZE \in Index /\ o % BLOCK_SIZE \in 0..(BLOCK_SIZE - 1)
    BY OffsetParts
<1>2. dData \in [Blk -> [0..(BLOCK_SIZE - 1) -> Unit]]
    BY DEF TypeOK
<1>3. ASSUME NEW b \in Blk \cup {NoBlk} PROVE UnitIn(b, o) \in Unit
  <2>1. CASE b = NoBlk
      BY <2>1 DEF UnitIn, Unit
  <2>2. CASE b # NoBlk
      BY <1>1, <1>2, <2>2 DEF UnitIn
  <2> QED
      BY <2>1, <2>2
<1> QED
    BY <1>1, <1>3, PtrFacts DEF Holds, DHolds

LEMMA IdleCall ==
    ASSUME op' = Idle
    PROVE  CallIno' /\ CallBlocks' /\ CallNew' /\ DirCall' /\ ~Working' /\ ~Creating'
<1>1. op'.step = "idle"
    BY DEF Idle
<1>2. ~Working' /\ ~Creating'
    BY <1>1 DEF Working, Creating
<1> QED
    BY <1>2 DEF CallIno, CallBlocks, CallNew, DirCall

LEMMA IdleNow == ASSUME op = Idle PROVE ~Working /\ ~Creating
    BY DEF Idle, Working, Creating

\* The entries of a directory end before its first empty unit.
LEMMA EntriesIs ==
    ASSUME NEW r \in RawInode
    PROVE  \E end \in 0..r.size :
              /\ Entries(r) = [n \in 1..end |-> Content(r)[n - 1]]
              /\ \A n \in 1..end : Content(r)[n - 1] # Zero
              /\ end = r.size \/ (end < r.size /\ Content(r)[end] = Zero)
<1> DEFINE Z == {o \in DOMAIN Content(r) : Content(r)[o] = Zero}
           end == Least({r.size} \cup Z)
<1>1. r.size \in Nat /\ DOMAIN Content(r) = 0..(r.size - 1)
    BY RawFacts DEF Content
<1>2. {r.size} \cup Z \subseteq Nat /\ {r.size} \cup Z # {}
    BY <1>1
<1>3. end \in {r.size} \cup Z /\ \A y \in {r.size} \cup Z : end <= y
    BY <1>2, LeastIs, Zenon
<1>4. Entries(r) = [n \in 1..end |-> Content(r)[n - 1]]
    BY DEF Entries
<1> HIDE DEF end
<1>5. end \in 0..r.size
    BY <1>1, <1>3
<1>6. ASSUME NEW n \in 1..end PROVE Content(r)[n - 1] # Zero
  <2>1. n - 1 \in DOMAIN Content(r) /\ ~(end <= n - 1)
      BY <1>1, <1>5
  <2> QED
      BY <1>3, <2>1
<1>7. end = r.size \/ (end < r.size /\ Content(r)[end] = Zero)
    BY <1>1, <1>3, <1>5
<1> QED
    BY <1>4, <1>5, <1>6, <1>7

LEMMA ContentIs ==
    ASSUME TypeOK, Filled, NEW i \in Ino
    PROVE  /\ \A o \in 0..(Seen(i).size - 1) :
                 o \in Offset /\ Ptr(i, o \div BLOCK_SIZE) # NoBlk /\ Content(Seen(i))[o] = Holds(i, o)
           /\ \A o \in 0..(dInode[i].size - 1) :
                 o \in Offset /\ DPtr(i, o \div BLOCK_SIZE) # NoBlk /\ Content(dInode[i])[o] = DHolds(i, o)
<1>1. Seen(i).size \in Nat /\ Seen(i).size <= MaxSize /\ dInode[i].size \in Nat /\ dInode[i].size <= MaxSize
    BY TypeFacts, RawFacts
<1>2. ASSUME NEW o \in 0..(Seen(i).size - 1)
      PROVE  o \in Offset /\ Ptr(i, o \div BLOCK_SIZE) # NoBlk /\ Content(Seen(i))[o] = Holds(i, o)
  <2>1. o \in Offset /\ o < Seen(i).size
      BY <1>1, Sizes
  <2>2. /\ o \div BLOCK_SIZE \in Index /\ o \in Nat
        /\ (o \div BLOCK_SIZE) * BLOCK_SIZE \in Nat /\ (o \div BLOCK_SIZE) * BLOCK_SIZE <= o
      BY <2>1, OffsetParts
  <2>3. (o \div BLOCK_SIZE) * BLOCK_SIZE < Seen(i).size
      BY <1>1, <2>1, <2>2
  <2>4. Ptr(i, o \div BLOCK_SIZE) # NoBlk
      BY <2>2, <2>3 DEF Filled
  <2>5. Content(Seen(i))[o] = dData[Ptr(i, o \div BLOCK_SIZE)][o % BLOCK_SIZE]
      BY DEF Content, Ptr
  <2> QED
      BY <2>1, <2>4, <2>5 DEF Holds, UnitIn
<1>3. ASSUME NEW o \in 0..(dInode[i].size - 1)
      PROVE  o \in Offset /\ DPtr(i, o \div BLOCK_SIZE) # NoBlk /\ Content(dInode[i])[o] = DHolds(i, o)
  <2>1. o \in Offset /\ o < dInode[i].size
      BY <1>1, Sizes
  <2>2. /\ o \div BLOCK_SIZE \in Index /\ o \in Nat
        /\ (o \div BLOCK_SIZE) * BLOCK_SIZE \in Nat /\ (o \div BLOCK_SIZE) * BLOCK_SIZE <= o
      BY <2>1, OffsetParts
  <2>3. (o \div BLOCK_SIZE) * BLOCK_SIZE < dInode[i].size
      BY <1>1, <2>1, <2>2
  <2>4. DPtr(i, o \div BLOCK_SIZE) # NoBlk
      BY <2>2, <2>3 DEF Filled
  <2>5. Content(dInode[i])[o] = dData[DPtr(i, o \div BLOCK_SIZE)][o % BLOCK_SIZE]
      BY DEF Content, DPtr
  <2> QED
      BY <2>1, <2>4, <2>5 DEF DHolds, UnitIn
<1> QED
    BY <1>2, <1>3

\* The directory as the running system reads it.
LEMMA DirEntries ==
    ASSUME TypeOK, KindOK, Filled, DirUnits
    PROVE  \E end \in 0..cache[Root].size :
              /\ DOMAIN Entries(cache[Root]) = 1..end /\ Entries(cache[Root]) \in Seq(Entry)
              /\ Len(Entries(cache[Root])) = end
              /\ \A n \in 1..end : /\ Entries(cache[Root])[n] = Holds(Root, n - 1)
                                   /\ InUse(Entries(cache[Root])[n])
              /\ end = cache[Root].size \/ (end < cache[Root].size /\ Holds(Root, end) = Zero)
<1> DEFINE r == cache[Root]
           es == Entries(r)
<1>1. r \in RawInode /\ Seen(Root) = r /\ r.size \in Nat
    BY Sizes, TypeFacts, RawFacts DEF KindOK
<1>2. PICK end \in 0..r.size :
              /\ es = [n \in 1..end |-> Content(r)[n - 1]]
              /\ \A n \in 1..end : Content(r)[n - 1] # Zero
              /\ end = r.size \/ (end < r.size /\ Content(r)[end] = Zero)
    BY <1>1, EntriesIs
<1>3. \A o \in 0..(r.size - 1) : o \in Offset /\ Content(r)[o] = Holds(Root, o)
    BY <1>1, Sizes, ContentIs
<1> HIDE DEF r, es
<1>4. ASSUME NEW n \in 1..end PROVE es[n] = Holds(Root, n - 1) /\ InUse(es[n])
  <2>1. n - 1 \in 0..(r.size - 1)
      BY <1>1
  <2>2. es[n] = Holds(Root, n - 1) /\ es[n] # Zero /\ n - 1 \in Offset
      BY <1>2, <1>3, <2>1
  <2> QED
      BY <2>2 DEF DirUnits
<1>5. end \in Nat /\ DOMAIN es = 1..end
    BY <1>1, <1>2
<1>6. es \in [1..end -> Entry]
    BY <1>2, <1>4, <1>5 DEF InUse
<1>7. es \in Seq(Entry) /\ Len(es) = end
    BY <1>5, <1>6
<1>8. end < r.size => Content(r)[end] = Holds(Root, end)
    BY <1>1, <1>3
<1> QED
    BY <1>2, <1>4, <1>5, <1>7, <1>8 DEF r, es

----------------------------------------------------------------------------
(* Steps that begin a call *)

\* The directory is as it was.
LEMMA DirKept ==
    ASSUME TypeOK, DirOK, torn => torn', made' = made, dInode'[Root].size = dInode[Root].size,
           DirSize \in Nat, DirSize' = DirSize,
           \A o \in 0..(DirSize - 1) : Holds(Root, o)' = Holds(Root, o)
    PROVE  DirOK'
<1>1. SUFFICES ASSUME ~torn
               PROVE  DirOK'
    BY DEF DirOK
<1>2. DirSize <= MaxSize /\ dInode[Root].size <= DirSize /\ dInode[Root].size \in Nat
    BY <1>1, Sizes, TypeFacts, RawFacts DEF DirOK
<1>3. \A o \in 0..(DirSize - 1) : Holds(Root, o)' = Holds(Root, o)
    OBVIOUS
<1>4. \A o \in 0..(dInode[Root].size - 1) : Holds(Root, o)' = Holds(Root, o)
    BY <1>2, Sizes
<1>5. \A o \in 0..(DirSize' - 1) : Holds(Root, o)' # Zero
    BY <1>1, <1>3 DEF DirOK
<1>6. ASSUME NEW o \in 0..(DirSize' - 1), NEW p \in 0..(DirSize' - 1),
             \/ Holds(Root, o)'.name = Holds(Root, p)'.name
             \/ Holds(Root, o)'.ino = Holds(Root, p)'.ino
      PROVE  o = p
    BY <1>1, <1>3, <1>6 DEF DirOK
<1>7. ASSUME NEW e \in made' PROVE \E o \in 0..(dInode'[Root].size - 1) : Holds(Root, o)' = e
    BY <1>1, <1>4 DEF DirOK
<1> QED
    BY <1>2, <1>5, <1>6, <1>7 DEF DirOK

LEMMA LookupInv ==
    ASSUME PInv, NEW name \in Name, Lookup(name)
    PROVE  PInv'
<1>1. TypeOK /\ KindOK /\ Owned /\ Filled /\ DirUnits /\ DirOK /\ DataOK
    BY DEF PInv
<1>2. op = Idle /\ op' = Idle /\ UNCHANGED <<dBitmap, dInode, dData, bitmap, made, allowed, torn>>
    BY DEF Lookup
<1>3. PICK n \in DOMAIN Entries(cache[Root]) :
         /\ cache[Entries(cache[Root])[n].ino] = NotCached
         /\ cache' = [cache EXCEPT ![Entries(cache[Root])[n].ino] = dInode[Entries(cache[Root])[n].ino]]
    BY DEF Lookup
<1>4. InUse(Entries(cache[Root])[n])
    BY <1>1, DirEntries
<1>5. PICK x \in Ino : /\ cache[x] = NotCached /\ dInode[x].kind = "file"
                       /\ cache' = [cache EXCEPT ![x] = dInode[x]]
    BY <1>3, <1>4 DEF InUse, Entry
<1>6. cache \in [Ino -> RawInode \cup {NotCached}] /\ dInode[x] \in RawInode /\ dInode[x] # NotCached
    BY <1>1, TypeFacts, RawFacts DEF TypeOK
<1>7. cache' \in [Ino -> RawInode \cup {NotCached}]
    BY <1>5, <1>6
<1>8. \A i \in Ino : cache'[i] = IF i = x THEN dInode[x] ELSE cache[i]
    BY <1>5, <1>6
<1>9. \A i \in Ino : Seen(i)' = Seen(i)
    BY <1>2, <1>5, <1>6, <1>8 DEF Seen
<1>10. cache'[Root] = cache[Root]
    BY <1>1, <1>5, <1>8, Sizes DEF KindOK
<1>11. /\ \A i \in Ino, k \in Index : Ptr(i, k)' = Ptr(i, k)
       /\ \A i, k : DPtr(i, k)' = DPtr(i, k)
    BY <1>2, <1>9 DEF Ptr, DPtr
<1>12. \A i \in Ino, o \in Offset : Holds(i, o)' = Holds(i, o) /\ DHolds(i, o)' = DHolds(i, o)
    BY <1>2, <1>11, OffsetParts DEF Holds, DHolds, UnitIn
<1>13. TypeOK'
    BY <1>1, <1>2, <1>7 DEF TypeOK
<1>14. KindOK'
    BY <1>1, <1>2, <1>5, <1>8, <1>10, <1>11 DEF KindOK
<1>15. Owned'
    BY <1>1, <1>2, <1>11 DEF Owned
<1>16. Filled'
    BY <1>1, <1>2, <1>9, <1>11 DEF Filled
<1>17. DirUnits'
    BY <1>1, <1>2, <1>12, Sizes DEF DirUnits, InUse
<1>18. ~Creating /\ ~Creating' /\ ~Working'
    BY <1>2, IdleCall, IdleNow
<1>19. DirSize' = DirSize /\ DirSize \in Nat
    BY <1>1, <1>6, <1>10, <1>18, Sizes, TypeFacts, RawFacts DEF DirSize, KindOK
<1>20. DirOK'
  <2>1. \A o \in 0..(DirSize - 1) : Holds(Root, o)' = Holds(Root, o)
      BY <1>1, <1>12, <1>18, RootSize, Sizes DEF DirSize
  <2> QED
      BY <1>1, <1>2, <1>19, <2>1, DirKept
<1>21. DataOK'
    BY <1>1, <1>2, <1>12, <1>18 DEF DataOK
<1> QED
    BY <1>2, <1>13, <1>14, <1>15, <1>16, <1>17, <1>20, <1>21, IdleCall DEF PInv


\* Inodes and data stay, and the bitmaps only grow.
LEMMA StateKept ==
    ASSUME TypeOK, KindOK, Owned, Filled, DirUnits, UNCHANGED <<dInode, dData, cache>>,
           dBitmap \subseteq dBitmap', dBitmap' \subseteq bitmap', bitmap \subseteq bitmap'
    PROVE  /\ KindOK' /\ Owned' /\ Filled' /\ DirUnits'
           /\ \A i, k : Ptr(i, k)' = Ptr(i, k) /\ DPtr(i, k)' = DPtr(i, k)
           /\ \A i, o : Holds(i, o)' = Holds(i, o) /\ DHolds(i, o)' = DHolds(i, o)
<1>1. \A i, k : Ptr(i, k)' = Ptr(i, k) /\ DPtr(i, k)' = DPtr(i, k) /\ Seen(i)' = Seen(i)
    BY DEF Ptr, DPtr, Seen
<1>2. \A i, o : Holds(i, o)' = Holds(i, o) /\ DHolds(i, o)' = DHolds(i, o)
    BY <1>1 DEF Holds, DHolds, UnitIn
<1>3. KindOK'
    BY <1>1 DEF KindOK
<1>4. Owned'
    BY <1>1 DEF Owned
<1>5. Filled'
    BY <1>1 DEF Filled
<1>6. DirUnits'
    BY <1>2 DEF DirUnits, InUse
<1> QED
    BY <1>1, <1>2, <1>3, <1>4, <1>5, <1>6

LEMMA UnlinkInv ==
    ASSUME PInv, NEW name \in Name, Unlink(name)
    PROVE  PInv'
<1>1. TypeOK /\ KindOK /\ Owned /\ Filled /\ DirUnits /\ DirOK /\ DataOK
    BY DEF PInv
<1>2. /\ op = Idle /\ op' = [step |-> "stuck"]
      /\ UNCHANGED <<dBitmap, dInode, dData, bitmap, cache, made, allowed, torn>>
    BY DEF Unlink
<1>3. /\ KindOK' /\ Owned' /\ Filled' /\ DirUnits'
      /\ \A i, o : Holds(i, o)' = Holds(i, o) /\ DHolds(i, o)' = DHolds(i, o)
  <2>1. UNCHANGED <<dInode, dData, cache>> /\ dBitmap \subseteq dBitmap'
        /\ dBitmap' \subseteq bitmap' /\ bitmap \subseteq bitmap'
      BY <1>1, <1>2 DEF Owned
  <2> QED
      BY <1>1, <2>1, StateKept
<1>4. TypeOK'
    BY <1>1, <1>2 DEF TypeOK
<1>5. ~Working' /\ ~Creating' /\ ~Creating
    BY <1>2, IdleNow DEF Working, Creating
<1>6. CallIno' /\ CallBlocks' /\ CallNew' /\ DirCall'
    BY <1>5 DEF CallIno, CallBlocks, CallNew, DirCall
<1>7. DirSize \in Nat /\ DirSize' = DirSize
    BY <1>1, <1>2, <1>5, RootSize DEF DirSize
<1>8. DirOK'
    BY <1>1, <1>2, <1>3, <1>7, DirKept
<1>9. DataOK'
    BY <1>1, <1>2, <1>3, <1>5 DEF DataOK
<1> QED
    BY <1>3, <1>4, <1>6, <1>8, <1>9 DEF PInv

LEMMA CreateInv ==
    ASSUME PInv, NEW name \in Name, Create(name)
    PROVE  PInv'
<1> DEFINE unused == {i \in Ino : dInode[i].kind = "unused"}
           ino    == Least(unused)
           old    == Entries(cache[Root])
           new    == [name |-> name, ino |-> ino]
           buf    == Append(old, new)
<1>1. TypeOK /\ KindOK /\ Owned /\ Filled /\ DirUnits /\ DirOK /\ DataOK
    BY DEF PInv
<1>2. /\ op = Idle /\ \A e \in Listed(cache[Root]) : e.name # name
      /\ unused # {}
      /\ op' = [step |-> "create", what |-> "create", ino |-> Root, off |-> 0,
                buf |-> buf, new |-> ino, at |-> 0]
      /\ UNCHANGED <<dBitmap, dInode, dData, bitmap, cache, made, allowed, torn>>
    BY DEF Create
<1>3. ino \in Ino /\ dInode[ino].kind = "unused"
  <2>1. unused \subseteq Nat
      BY DEF Ino
  <2> HIDE DEF unused
  <2>2. ino \in unused
      BY <1>2, <2>1, LeastIs
  <2> QED
      BY <2>2 DEF unused
<1> HIDE DEF unused, ino
<1>4. PICK end \in 0..cache[Root].size :
         /\ DOMAIN old = 1..end /\ old \in Seq(Entry) /\ Len(old) = end
         /\ \A n \in 1..end : old[n] = Holds(Root, n - 1) /\ InUse(old[n])
         /\ end = cache[Root].size \/ (end < cache[Root].size /\ Holds(Root, end) = Zero)
    BY <1>1, DirEntries
<1>5. \A n \in 1..end : old[n].name # name
    BY <1>2, <1>4 DEF Listed
<1> HIDE DEF old
<1>6. new \in Entry /\ new.name = name /\ new.ino = ino
    BY <1>3 DEF Entry
<1> HIDE DEF new
<1>7. /\ buf \in Seq(Entry) /\ Len(buf) = end + 1 /\ buf[end + 1] = new
      /\ \A n \in 1..end : buf[n] = old[n]
    BY <1>4, <1>6
<1>8. end \in Nat /\ end <= cache[Root].size /\ cache[Root].size \in Nat /\ cache[Root].size <= MaxSize
    BY <1>1, RootSize
<1> HIDE DEF buf
<1>9. buf \in Seq(Unit)
  <2>1. Entry \subseteq Unit
      BY DEF Unit
  <2> QED
      BY <1>7, <2>1
<1>10. /\ op'.step = "create" /\ op'.what = "create" /\ op'.ino = Root /\ op'.off = 0
       /\ op'.buf = buf /\ op'.new = ino /\ op'.at = 0
    BY <1>2
<1>11. TypeOK'
  <2>1. op' \in [step : {"create", "alloc", "zero", "data", "inode"}, what : {"write", "create"},
                  ino : Ino, off : Nat, buf : Seq(Unit), new : Ino, at : Nat]
      BY <1>2, <1>3, <1>9, Sizes
  <2> QED
      BY <1>1, <1>2, <2>1 DEF TypeOK
<1>12. /\ KindOK' /\ Owned' /\ Filled' /\ DirUnits'
       /\ \A i, o : Holds(i, o)' = Holds(i, o) /\ DHolds(i, o)' = DHolds(i, o)
  <2>1. UNCHANGED <<dInode, dData, cache>> /\ dBitmap \subseteq dBitmap'
        /\ dBitmap' \subseteq bitmap' /\ bitmap \subseteq bitmap'
      BY <1>1, <1>2 DEF Owned
  <2> QED
      BY <1>1, <2>1, StateKept
<1>13. Working' /\ Creating' /\ ~Working /\ ~Creating
    BY <1>2, <1>10, IdleNow DEF Working, Creating
<1>14. CallIno'
    BY <1>1, <1>2, <1>10 DEF CallIno, KindOK, Creating
<1>15. CallBlocks'
    BY <1>10 DEF CallBlocks
<1>16. CallNew'
  <2>1. \A n \in 1..(Len(op'.buf) - 1) : \A e : op'.buf[n] = e => InUse(e)'
    <3>1. \A e : InUse(e) => InUse(e)'
        BY <1>2 DEF InUse
    <3>2. \A n \in 1..end : op'.buf[n] = old[n] /\ InUse(old[n])
        BY <1>4, <1>7, <1>10
    <3>3. 1..(Len(op'.buf) - 1) = 1..end
        BY <1>7, <1>8, <1>10
    <3> QED
        BY <3>1, <3>2, <3>3, Zenon
  <2>2. NewEntry' = new /\ Len(op'.buf) > 0
      BY <1>7, <1>8, <1>10 DEF NewEntry
  <2>3. cache'[op'.new] = NotCached /\ dInode'[op'.new].kind = "unused"
      BY <1>1, <1>2, <1>3, <1>10 DEF KindOK
  <2> QED
      BY <1>6, <1>10, <2>1, <2>2, <2>3 DEF CallNew
<1>17. DirSize' = end /\ DirSize = cache[Root].size
    BY <1>7, <1>8, <1>10, <1>13 DEF DirSize
<1>18. torn \/ end = cache[Root].size
    BY <1>1, <1>4, <1>8, <1>17 DEF DirOK
<1>19. DirOK'
  <2>1. CASE torn
      BY <1>2, <2>1 DEF DirOK
  <2>2. CASE ~torn
      BY <1>1, <1>2, <1>8, <1>12, <1>17, <1>18, <2>2, DirKept
  <2> QED
      BY <2>1, <2>2
<1>20. DirCall'
  <2>1. ASSUME NEW o \in 0..(end - 1)
        PROVE  /\ Holds(Root, o)' = buf[o + 1]
               /\ buf[o + 1].name # new.name /\ buf[o + 1].ino # ino
    <3>1. o + 1 \in 1..end /\ (o + 1) - 1 = o
        BY <1>8
    <3>2. buf[o + 1] = old[o + 1] /\ old[o + 1] = Holds(Root, o) /\ InUse(old[o + 1])
        BY <1>4, <1>7, <3>1
    <3>3. buf[o + 1].name # new.name /\ buf[o + 1].ino # ino
        BY <1>3, <1>5, <1>6, <3>1, <3>2 DEF InUse
    <3> QED
        BY <1>12, <3>2, <3>3
  <2>2. NewEntry' = new /\ op'.buf = buf /\ op'.new = ino /\ cache' = cache /\ torn' = torn
      BY <1>2, <1>7, <1>10 DEF NewEntry
  <2> QED
      BY <1>17, <1>18, <2>1, <2>2 DEF DirCall
<1>21. DataOK'
    BY <1>1, <1>2, <1>10, <1>12 DEF DataOK
<1> QED
    BY <1>11, <1>12, <1>14, <1>15, <1>16, <1>19, <1>20, <1>21 DEF PInv


Calls == [step : {"create", "alloc", "zero", "data", "inode"}, what : {"write", "create"},
          ino : Ino, off : Nat, buf : Seq(Unit), new : Ino, at : Nat]

LEMMA CallIs ==
    ASSUME TypeOK, Working
    PROVE  /\ op \in Calls
           /\ op.step \in {"create", "alloc", "zero", "data", "inode"}
           /\ op.what \in {"write", "create"} /\ op.ino \in Ino /\ op.off \in Nat
           /\ op.buf \in Seq(Unit) /\ op.new \in Ino /\ op.at \in Nat
           /\ Len(op.buf) \in Nat /\ End \in Nat
<1>1. op \in Calls
    BY DEF TypeOK, Working, Calls, Idle
<1> QED
    BY <1>1 DEF Calls, End

LEMMA OnDiskIs ==
    ASSUME NEW i \in Ino, NEW o \in Offset
    PROVE  OnDisk(dInode[i])[o] = DHolds(i, o) /\ OnDisk(Seen(i))[o] = Holds(i, o)
    BY DEF OnDisk, DHolds, Holds, UnitIn, Ptr, DPtr

LEMMA WriteAtInv ==
    ASSUME PInv, NEW ino \in Ino, NEW off \in Offset, NEW buf \in Buffers, WriteAt(ino, off, buf)
    PROVE  PInv'
<1> DEFINE put(o) == {buf[i] : i \in {o - off + 1} \cap DOMAIN buf}
<1>1. TypeOK /\ KindOK /\ Owned /\ Filled /\ DirUnits /\ DirOK /\ DataOK
    BY DEF PInv
<1>2. /\ op = Idle /\ cache[ino].kind = "file" /\ Needed(off + Len(buf)) <= DIRECT_BLOCKS
      /\ op' = [step |-> "alloc", what |-> "write", ino |-> ino, off |-> off, buf |-> buf,
                new |-> ino, at |-> 0]
      /\ allowed' = [allowed EXCEPT ![ino] = [o \in Offset |-> @[o] \cup put(o)]]
      /\ UNCHANGED <<dBitmap, dInode, dData, bitmap, cache, made, torn>>
    BY DEF WriteAt
<1>3. off \in Nat /\ Offset = 0..(MaxSize - 1) /\ MaxSize \in Nat
    BY Sizes
<1>4. buf \in Seq(Datum) /\ Len(buf) \in Nat /\ DOMAIN buf = 1..Len(buf)
  <2>1. PICK n \in 0..MaxWrite : buf \in [1..n -> Datum]
      BY DEF Buffers
  <2>2. n \in Nat
      BY PondAssumption
  <2> QED
      BY <2>1, <2>2
<1>5. buf \in Seq(Unit)
  <2>1. Datum \subseteq Unit
      BY DEF Unit
  <2> QED
      BY <1>4, <2>1
<1>6. off + Len(buf) <= MaxSize
    BY <1>2, <1>3, <1>4, NeededIs
<1>7. cache[ino] # NotCached /\ ino # Root
  <2>1. cache[ino].kind = "file" /\ NotCached.kind = "none"
      BY <1>2 DEF NotCached
  <2>2. cache[ino] # NotCached
      BY <2>1
  <2> QED
      BY <1>1, <2>1, <2>2 DEF KindOK
<1>8. /\ op'.step = "alloc" /\ op'.what = "write" /\ op'.ino = ino /\ op'.off = off
      /\ op'.buf = buf /\ op'.new = ino /\ op'.at = 0
    BY <1>2
<1>9. /\ KindOK' /\ Owned' /\ Filled' /\ DirUnits'
      /\ \A i, o : Holds(i, o)' = Holds(i, o) /\ DHolds(i, o)' = DHolds(i, o)
  <2>1. UNCHANGED <<dInode, dData, cache>> /\ dBitmap \subseteq dBitmap'
        /\ dBitmap' \subseteq bitmap' /\ bitmap \subseteq bitmap'
      BY <1>1, <1>2 DEF Owned
  <2> QED
      BY <1>1, <2>1, StateKept
<1>10. Working' /\ ~Creating' /\ ~Working /\ ~Creating /\ End' = off + Len(buf)
    BY <1>2, <1>8, IdleNow DEF Working, Creating, End
<1>11. \A o : put(o) \subseteq Unit
    BY <1>4, <1>5
<1>12. \A o \in off..(off + Len(buf) - 1) : o \in Offset /\ buf[o - off + 1] \in put(o)
  <2>1. ASSUME NEW o \in off..(off + Len(buf) - 1)
        PROVE  o \in Offset /\ buf[o - off + 1] \in put(o)
    <3>1. o \in Offset /\ o - off + 1 \in 1..Len(buf)
        BY <1>3, <1>4, <1>6
    <3> QED
        BY <1>4, <3>1
  <2> QED
      BY <2>1
<1> HIDE DEF put
<1>13. allowed \in [Ino -> [Offset -> SUBSET Unit]]
    BY <1>1 DEF TypeOK
<1>14. /\ allowed' \in [Ino -> [Offset -> SUBSET Unit]]
       /\ \A i \in Ino, o \in Offset : i # ino => allowed'[i][o] = allowed[i][o]
       /\ \A o \in Offset : allowed'[ino][o] = allowed[ino][o] \cup put(o)
  <2>1. [o \in Offset |-> allowed[ino][o] \cup put(o)] \in [Offset -> SUBSET Unit]
      BY <1>11, <1>13
  <2>2. allowed' = [allowed EXCEPT ![ino] = [o \in Offset |-> allowed[ino][o] \cup put(o)]]
      BY <1>2
  <2> QED
      BY <1>13, <2>1, <2>2
<1>15. TypeOK'
  <2>1. op' \in [step : {"create", "alloc", "zero", "data", "inode"}, what : {"write", "create"},
                  ino : Ino, off : Nat, buf : Seq(Unit), new : Ino, at : Nat]
      BY <1>2, <1>3, <1>5
  <2> QED
      BY <1>1, <1>2, <1>14, <2>1 DEF TypeOK
<1>16. CallIno'
    BY <1>2, <1>6, <1>7, <1>8, <1>10 DEF CallIno
<1>17. CallBlocks'
    BY <1>8 DEF CallBlocks
<1>18. CallNew' /\ DirCall'
    BY <1>10 DEF CallNew, DirCall
<1>19. DirSize \in Nat /\ DirSize' = DirSize
    BY <1>1, <1>2, <1>10, RootSize DEF DirSize
<1>20. DirOK'
    BY <1>1, <1>2, <1>9, <1>19, DirKept
<1>21. DataOK'
  <2>1. ASSUME NEW i \in Ino \ {Root}, NEW o \in Offset
        PROVE  Holds(i, o)' \in allowed'[i][o] /\ DHolds(i, o)' \in allowed'[i][o]
    <3>1. Holds(i, o) \in allowed[i][o] /\ DHolds(i, o) \in allowed[i][o]
        BY <1>1 DEF DataOK
    <3>2. allowed[i][o] \subseteq allowed'[i][o]
        BY <1>14
    <3> QED
        BY <1>9, <3>1, <3>2
  <2>2. \A o \in Span' : op'.buf[o - op'.off + 1] \in allowed'[op'.ino][o]
    <3>1. Span' = off..(off + Len(buf) - 1)
        BY <1>3, <1>4, <1>8, <1>10 DEF Span
    <3>2. ASSUME NEW o \in off..(off + Len(buf) - 1) PROVE buf[o - off + 1] \in allowed'[ino][o]
        BY <1>12, <1>14
    <3> QED
        BY <1>8, <3>1, <3>2
  <2> QED
      BY <2>1, <2>2 DEF DataOK
<1> QED
    BY <1>9, <1>15, <1>16, <1>17, <1>18, <1>20, <1>21 DEF PInv


----------------------------------------------------------------------------
(* A call that fails *)

LEMMA FailData ==
    ASSUME TypeOK, KindOK, CallIno, DataOK, Working, Fail,
           \A i \in Ino, o \in Offset : Holds(i, o)' = Holds(i, o) /\ DHolds(i, o)' = DHolds(i, o)
    PROVE  DataOK' /\ allowed' \in [Ino -> [Offset -> SUBSET Unit]]
<1>1. op' = Idle /\ ~Working'
    BY IdleCall DEF Fail
<1>2. allowed \in [Ino -> [Offset -> SUBSET Unit]]
    BY DEF TypeOK
<1>3. CASE op.what = "create"
  <2>1. allowed' = allowed
      BY <1>3 DEF Fail
  <2> QED
      BY <1>1, <1>2, <2>1 DEF DataOK
<1>4. CASE op.what # "create"
  <2>1. PICK x \in Ino : x = op.ino
      BY CallIs
  <2>2. x # Root /\ cache[x] # NotCached /\ Seen(x) = cache[x]
      BY <1>4, <2>1, CallIs, TypeFacts DEF CallIno
  <2>3. allowed' = [allowed EXCEPT ![x] = [o \in Offset |-> {OnDisk(dInode[x])[o], OnDisk(cache[x])[o]}]]
      BY <1>4, <2>1 DEF Fail
  <2> DEFINE a == [o \in Offset |-> {OnDisk(dInode[x])[o], OnDisk(cache[x])[o]}]
  <2>4. \A o \in Offset : a[o] = {DHolds(x, o), Holds(x, o)}
      BY <2>2, OnDiskIs
  <2>5. a \in [Offset -> SUBSET Unit]
      BY <2>4, UnitFacts
  <2> HIDE DEF a
  <2>6. /\ allowed' \in [Ino -> [Offset -> SUBSET Unit]]
        /\ \A i \in Ino, o \in Offset : i # x => allowed'[i][o] = allowed[i][o]
        /\ \A o \in Offset : allowed'[x][o] = a[o]
      BY <1>2, <2>3, <2>5 DEF a
  <2>7. ASSUME NEW i \in Ino \ {Root}, NEW o \in Offset
        PROVE  Holds(i, o)' \in allowed'[i][o] /\ DHolds(i, o)' \in allowed'[i][o]
    <3>1. CASE i = x
        BY <2>4, <2>6, <3>1
    <3>2. CASE i # x
        BY <2>6, <3>2 DEF DataOK
    <3> QED
        BY <3>1, <3>2
  <2> QED
      BY <1>1, <2>6, <2>7 DEF DataOK
<1> QED
    BY <1>3, <1>4

LEMMA FailDir ==
    ASSUME PInv, Working, Fail, op.step # "inode", UNCHANGED <<cache, dInode, dData>>
    PROVE  DirOK'
<1>1. TypeOK /\ KindOK /\ DirOK /\ DirCall
    BY DEF PInv
<1>2. op' = Idle /\ ~Creating' /\ made' = made
    BY IdleCall DEF Fail
<1>3. torn' = (torn \/ (op.what = "create" /\ op.step \in {"alloc", "zero", "data"}))
    BY DEF Fail
<1>4. CASE torn \/ (op.what = "create" /\ op.step # "create")
  <2>1. torn'
      BY <1>1, <1>3, <1>4, CallIs
  <2> QED
      BY <2>1 DEF DirOK
<1>5. CASE ~torn /\ ~(op.what = "create" /\ op.step # "create")
  <2>1. DirSize = cache[Root].size /\ DirSize' = cache[Root].size
      BY <1>1, <1>2, <1>5 DEF DirSize, DirCall, Creating
  <2>2. DirSize \in Nat
      BY <1>1, <2>1, RootSize
  <2>3. \A o \in 0..(DirSize - 1) : Holds(Root, o)' = Holds(Root, o)
      BY DEF Holds, UnitIn, Ptr, Seen
  <2> QED
      BY <1>1, <1>2, <1>5, <2>1, <2>2, <2>3, DirKept
<1> QED
    BY <1>4, <1>5

\* Nothing on the disk and no inode changes when the call gives up.
LEMMA FailInv ==
    ASSUME PInv, Working, Fail, op.step # "inode", UNCHANGED <<cache, dInode, dData, dBitmap>>,
           bitmap \subseteq bitmap', bitmap' \subseteq Blk
    PROVE  PInv'
<1>1. TypeOK /\ KindOK /\ Owned /\ Filled /\ DirUnits /\ CallIno /\ DataOK
    BY DEF PInv
<1>2. /\ KindOK' /\ Owned' /\ Filled' /\ DirUnits'
      /\ \A i, o : Holds(i, o)' = Holds(i, o) /\ DHolds(i, o)' = DHolds(i, o)
  <2>1. UNCHANGED <<dInode, dData, cache>> /\ dBitmap \subseteq dBitmap'
        /\ dBitmap' \subseteq bitmap' /\ bitmap \subseteq bitmap'
      BY <1>1 DEF Owned
  <2> QED
      BY <1>1, <2>1, StateKept
<1>3. DataOK' /\ allowed' \in [Ino -> [Offset -> SUBSET Unit]]
    BY <1>1, <1>2, FailData
<1>4. op' = Idle /\ made' = made /\ torn' \in BOOLEAN
    BY DEF Fail
<1>5. TypeOK'
    BY <1>1, <1>3, <1>4 DEF TypeOK
<1> QED
    BY <1>2, <1>3, <1>4, <1>5, IdleCall, FailDir DEF PInv

----------------------------------------------------------------------------
(* Steps of a call *)

\* The call goes on; only its step and place change.
LEMMA CallMoved ==
    ASSUME TypeOK, CallIno, CallNew, Working, op.step # "create",
           op' \in Calls, op'.step # "create", op'.what = op.what, op'.ino = op.ino, op'.off = op.off,
           op'.buf = op.buf, op'.new = op.new, dInode' = dInode,
           \A i \in Ino : cache'[i] = NotCached <=> cache[i] = NotCached,
           cache'[Root].size = cache[Root].size
    PROVE  /\ Working' /\ (Creating' <=> Creating) /\ End' = End /\ Span' = Span
           /\ NewEntry' = NewEntry /\ DirSize' = DirSize
           /\ CallIno' /\ CallNew'
<1>1. Working' /\ (Creating' <=> Creating)
    BY DEF Working, Creating, Calls
<1>2. End' = End /\ Span' = Span /\ NewEntry' = NewEntry /\ DirSize' = DirSize
    BY <1>1 DEF End, Span, NewEntry, DirSize
<1>3. CallIno'
    BY <1>1, <1>2, CallIs DEF CallIno
<1>4. CallNew'
    BY <1>1, <1>2, CallIs DEF CallNew, InUse
<1> QED
    BY <1>1, <1>2, <1>3, <1>4

LEMMA DirCallKept ==
    ASSUME DirCall, torn' = torn, Creating' <=> Creating, op'.buf = op.buf, op'.new = op.new,
           op'.step # "create", DirSize' = DirSize,
           Creating => \A o \in 0..(DirSize - 1) : Holds(Root, o)' = Holds(Root, o)
    PROVE  DirCall'
    BY DEF DirCall, NewEntry


\* The units that a call writes lie within a file.
LEMMA SpanIn ==
    ASSUME TypeOK, CallIno, Working, op.step # "create", NEW o \in Span
    PROVE  /\ o \in Offset /\ o \div BLOCK_SIZE \in Index
           /\ (o \div BLOCK_SIZE) * BLOCK_SIZE < End /\ o - op.off + 1 \in 1..Len(op.buf)
<1>1. End <= MaxSize /\ op.off \in Nat /\ Len(op.buf) \in Nat /\ End = op.off + Len(op.buf)
    BY CallIs DEF CallIno, End
<1>2. o \in Nat /\ o < End /\ o >= op.off
    BY <1>1 DEF Span
<1>3. o \in Offset
    BY <1>1, <1>2, Sizes
<1>4. /\ o \div BLOCK_SIZE \in Index /\ (o \div BLOCK_SIZE) * BLOCK_SIZE \in Nat
      /\ (o \div BLOCK_SIZE) * BLOCK_SIZE <= o
    BY <1>3, OffsetParts
<1>5. (o \div BLOCK_SIZE) * BLOCK_SIZE < End
    BY <1>1, <1>2, <1>4
<1> QED
    BY <1>1, <1>2, <1>3, <1>4, <1>5

\* The missing blocks are the null pointers before the end.
LEMMA MissingIs ==
    ASSUME TypeOK, CallIno, Working, op.step # "create", NEW x \in Ino, x = op.ino
    PROVE  /\ Missing(cache[op.ino]) = {k \in Index : k * BLOCK_SIZE < End /\ Ptr(x, k) = NoBlk}
           /\ cache[x] \in RawInode /\ Seen(x) = cache[x]
<1>1. End \in Nat /\ End <= MaxSize /\ cache[x] # NotCached
    BY CallIs DEF CallIno
<1>2. Seen(x) = cache[x] /\ cache[x] \in RawInode
    BY <1>1, TypeFacts
<1>3. /\ Needed(End) \in Nat /\ Needed(End) <= DIRECT_BLOCKS
      /\ \A k \in Nat : k < Needed(End) <=> k * BLOCK_SIZE < End
    BY <1>1, NeededIs
<1>4. \A k : k \in 0..(Needed(End) - 1) <=> k \in Index /\ k * BLOCK_SIZE < End
  <2> DEFINE n == Needed(End)
  <2> HIDE DEF n
  <2>1. /\ n \in Nat /\ n <= DIRECT_BLOCKS /\ DIRECT_BLOCKS \in Nat
        /\ \A k \in Nat : k < n <=> k * BLOCK_SIZE < End
      BY <1>3, Sizes DEF n
  <2>2. \A k : k \in 0..(n - 1) <=> k \in Nat /\ k < n
      BY <2>1
  <2>3. \A k : k \in Index <=> k \in Nat /\ k < DIRECT_BLOCKS
      BY <2>1 DEF Index
  <2>4. \A k \in Nat : k < n => k < DIRECT_BLOCKS
      BY <2>1
  <2>5. \A k : k \in 0..(n - 1) <=> k \in Index /\ k * BLOCK_SIZE < End
      BY <2>1, <2>2, <2>3, <2>4
  <2> QED
      BY <2>5 DEF n
<1> QED
    BY <1>2, <1>4 DEF Missing, Ptr

LEMMA AllocBlockInv ==
    ASSUME PInv, AllocBlock
    PROVE  PInv'
<1> DEFINE free == Blk \ bitmap
           b    == Least(free)
<1>1. /\ TypeOK /\ KindOK /\ Owned /\ Filled /\ DirUnits
      /\ CallIno /\ CallBlocks /\ CallNew /\ DirOK /\ DirCall /\ DataOK
    BY DEF PInv
<1>2. op.step = "alloc" /\ Working /\ UNCHANGED <<dInode, dData, cache>>
    BY DEF AllocBlock, Working
<1>3. PICK x \in Ino : x = op.ino
    BY <1>1, <1>2, CallIs
<1>4. /\ Missing(cache[op.ino]) = {k \in Index : k * BLOCK_SIZE < End /\ Ptr(x, k) = NoBlk}
    BY <1>1, <1>2, <1>3, MissingIs
<1>5. op \in Calls
    BY <1>1, <1>2, CallIs
\* Common to the branches in which the call goes on.
<1>6. ASSUME op' \in Calls, op'.step \in {"zero", "data", "inode"}, op'.what = op.what, op'.ino = op.ino,
             op'.off = op.off, op'.buf = op.buf, op'.new = op.new, UNCHANGED <<made, allowed, torn>>,
             dBitmap \subseteq dBitmap', dBitmap' \subseteq bitmap', bitmap \subseteq bitmap',
             bitmap' \subseteq Blk,
             CallBlocks'
      PROVE  PInv'
  <2>1. /\ KindOK' /\ Owned' /\ Filled' /\ DirUnits'
        /\ \A i, o : Holds(i, o)' = Holds(i, o) /\ DHolds(i, o)' = DHolds(i, o)
      BY <1>1, <1>2, <1>6, StateKept
  <2>2. op.step # "create" /\ op'.step # "create"
      BY <1>2, <1>6
  <2>3. /\ Working' /\ (Creating' <=> Creating) /\ Span' = Span
        /\ DirSize' = DirSize /\ CallIno' /\ CallNew'
      BY <1>1, <1>2, <1>6, <2>2, CallMoved
  <2>4. TypeOK'
      BY <1>1, <1>2, <1>6 DEF TypeOK, Calls
  <2>5. DirCall'
      BY <1>1, <1>6, <2>1, <2>2, <2>3, DirCallKept
  <2>6. DirSize \in Nat
      BY <1>1, <1>2, CallIs, RootSize DEF DirSize, CallNew, Creating
  <2>7. DirOK'
      BY <1>1, <1>2, <1>6, <2>1, <2>3, <2>6, DirKept
  <2>8. DataOK'
      BY <1>1, <1>2, <1>6, <2>1, <2>3 DEF DataOK
  <2> QED
      BY <1>6, <2>1, <2>3, <2>4, <2>5, <2>7, <2>8 DEF PInv
<1>7. CASE /\ Missing(cache[op.ino]) = {} /\ op' = ToData
           /\ UNCHANGED <<dBitmap, bitmap, made, allowed, torn>>
  <2>1. ASSUME NEW o \in Span PROVE o \div BLOCK_SIZE \in Touched
      BY <1>1, <1>2, SpanIn DEF Touched, Span
  <2>2. Touched \subseteq Nat
      BY Sizes DEF Touched, Index
  <2>3. \A k \in Index : k * BLOCK_SIZE < End => Ptr(x, k) # NoBlk
      BY <1>4, <1>7
  <2>4. dBitmap' = dBitmap /\ bitmap' = bitmap /\ dBitmap \subseteq bitmap /\ bitmap \subseteq Blk
      BY <1>1, <1>7 DEF Owned, TypeOK
  <2>5. \A k : Ptr(x, k)' = Ptr(x, k)
      BY <1>2 DEF Ptr, Seen
  <2>6. CASE Touched = {}
    <3>1. op' = [op EXCEPT !.step = "inode"]
        BY <1>7, <2>6 DEF ToData
    <3>2. /\ op' \in Calls /\ op'.step = "inode" /\ op'.what = op.what /\ op'.ino = op.ino
          /\ op'.off = op.off /\ op'.buf = op.buf /\ op'.new = op.new
        BY <1>5, <3>1 DEF Calls
    <3>3. End' = End /\ Span' = Span
        BY <3>2 DEF End, Span
    <3>4. \A o : o \notin Span
        BY <2>1, <2>6
    <3>5. CallBlocks'
        BY <1>3, <2>3, <2>5, <3>2, <3>3, <3>4 DEF CallBlocks
    <3> QED
        BY <1>6, <1>7, <2>4, <3>2, <3>5
  <2>7. CASE Touched # {}
    <3> DEFINE a == Least(Touched)
    <3>1. a \in Touched /\ \A y \in Touched : a <= y
        BY <2>2, <2>7, LeastIs
    <3>2. op' = [op EXCEPT !.step = "data", !.at = a] /\ a \in Nat
        BY <1>7, <2>2, <2>7, <3>1 DEF ToData
    <3> HIDE DEF a
    <3>3. /\ op' \in Calls /\ op'.step = "data" /\ op'.what = op.what /\ op'.ino = op.ino
          /\ op'.off = op.off /\ op'.buf = op.buf /\ op'.new = op.new /\ op'.at = a
        BY <1>5, <3>2 DEF Calls
    <3>4. End' = End /\ Span' = Span
        BY <3>3 DEF End, Span
    <3>5. \E o \in Span : o \div BLOCK_SIZE = a
        BY <3>1 DEF Touched, Span
    <3>6. ASSUME NEW o \in Span PROVE ~(o \div BLOCK_SIZE < a)
        BY <2>1, <2>2, <3>1, <3>2
    <3>7. CallBlocks'
        BY <1>3, <2>3, <2>5, <3>3, <3>4, <3>5, <3>6 DEF CallBlocks
    <3> QED
        BY <1>6, <1>7, <2>4, <3>3, <3>7
  <2> QED
      BY <2>6, <2>7
<1>8. CASE free = {} /\ Fail /\ UNCHANGED <<dBitmap, bitmap>>
  <2>1. op.step # "inode" /\ bitmap' = bitmap /\ bitmap \subseteq Blk /\ dBitmap' = dBitmap
      BY <1>1, <1>2, <1>8 DEF TypeOK
  <2> QED
      BY <1>2, <1>8, <2>1, FailInv
<1>9. CASE /\ Missing(cache[op.ino]) # {} /\ free # {}
           /\ bitmap' = bitmap \cup {b}
           /\ dBitmap' = (dBitmap \ ByteOf(b)) \cup (bitmap' \cap ByteOf(b))
           /\ op' = [op EXCEPT !.step = "zero", !.at = b]
           /\ UNCHANGED <<made, allowed, torn>>
  <2>1. b \in Blk \ bitmap
    <3>1. free \subseteq Nat /\ free # {}
        BY <1>9 DEF Blk
    <3> QED
        BY <3>1, LeastIs
  <2>2. b \in Nat
      BY <2>1 DEF Blk
  <2> HIDE DEF b, free
  <2>3. /\ op' \in Calls /\ op'.step = "zero" /\ op'.what = op.what /\ op'.ino = op.ino
        /\ op'.off = op.off /\ op'.buf = op.buf /\ op'.new = op.new /\ op'.at = b
      BY <1>5, <1>9, <2>2 DEF Calls
  <2>4. \A i, k : Ptr(i, k)' = Ptr(i, k)
      BY <1>2 DEF Ptr, Seen
  <2>5. \A i \in Ino, k \in Index : Ptr(i, k)' # b
      BY <1>1, <2>1, <2>4, Sizes DEF Owned
  <2>6. \E k \in Index : k * BLOCK_SIZE < End /\ Ptr(x, k) = NoBlk
      BY <1>4, <1>9
  <2>7. End' = End /\ b \in dBitmap'
    <3>1. b \in ByteOf(b)
        BY <2>1 DEF ByteOf
    <3> QED
        BY <1>9, <2>3, <3>1 DEF End
  <2>8. CallBlocks'
      BY <1>3, <2>3, <2>4, <2>5, <2>6, <2>7 DEF CallBlocks
  <2>9. /\ dBitmap \subseteq dBitmap' /\ dBitmap' \subseteq bitmap' /\ bitmap \subseteq bitmap'
        /\ bitmap' \subseteq Blk
      BY <1>1, <1>9, <2>1 DEF Owned, TypeOK
  <2> QED
      BY <1>6, <1>9, <2>3, <2>8, <2>9
<1> QED
    BY <1>7, <1>8, <1>9 DEF AllocBlock


LEMMA ZeroBlockInv ==
    ASSUME PInv, ZeroBlock
    PROVE  PInv'
<1> DEFINE k0 == Least(Missing(cache[op.ino]))
           zeros == [j \in 0..(BLOCK_SIZE - 1) |-> Zero]
<1>1. /\ TypeOK /\ KindOK /\ Owned /\ Filled /\ DirUnits
      /\ CallIno /\ CallBlocks /\ CallNew /\ DirOK /\ DirCall /\ DataOK
    BY DEF PInv
<1>2. /\ op.step = "zero" /\ Working /\ dData' = [dData EXCEPT ![op.at] = zeros]
      /\ cache' = [cache EXCEPT ![op.ino].direct[k0] = op.at]
      /\ op' = [op EXCEPT !.step = "alloc"]
      /\ UNCHANGED <<dBitmap, dInode, bitmap, made, allowed, torn>>
    BY DEF ZeroBlock, Working
<1>3. PICK x \in Ino : x = op.ino
    BY <1>1, <1>2, CallIs
<1>4. /\ Missing(cache[op.ino]) = {k \in Index : k * BLOCK_SIZE < End /\ Ptr(x, k) = NoBlk}
      /\ cache[x] \in RawInode /\ Seen(x) = cache[x]
    BY <1>1, <1>2, <1>3, MissingIs
<1>5. /\ op.at \in dBitmap /\ \A i \in Ino, k \in Index : Ptr(i, k) # op.at
      /\ Missing(cache[op.ino]) # {}
    BY <1>1, <1>2, <1>3, <1>4 DEF CallBlocks
<1>6. k0 \in Index /\ Ptr(x, k0) = NoBlk
  <2>1. Missing(cache[op.ino]) \subseteq Nat
      BY <1>4, Sizes DEF Index
  <2>2. k0 \in Missing(cache[op.ino])
      BY <1>5, <2>1, LeastIs
  <2> QED
      BY <1>4, <2>2
<1> HIDE DEF k0
<1>7. PICK b \in Blk : b = op.at /\ b \in dBitmap /\ b # NoBlk
    BY <1>1, <1>5, Sizes DEF TypeOK
<1>8. /\ dData \in [Blk -> [0..(BLOCK_SIZE - 1) -> Unit]] /\ cache \in [Ino -> RawInode \cup {NotCached}]
      /\ zeros \in [0..(BLOCK_SIZE - 1) -> Unit]
    BY <1>1 DEF TypeOK, Unit
<1>9. /\ dData' \in [Blk -> [0..(BLOCK_SIZE - 1) -> Unit]]
      /\ \A c \in Blk : c # b => dData'[c] = dData[c]
      /\ \A j \in 0..(BLOCK_SIZE - 1) : dData'[b][j] = Zero
    BY <1>2, <1>7, <1>8
<1> DEFINE raw == [cache[x] EXCEPT !.direct[k0] = b]
<1>10. /\ raw \in RawInode /\ raw.kind = cache[x].kind /\ raw.size = cache[x].size
       /\ \A k \in Index : raw.direct[k] = IF k = k0 THEN b ELSE cache[x].direct[k]
    BY <1>4, <1>6, <1>7 DEF RawInode
<1>11. cache' = [cache EXCEPT ![x] = raw]
    BY <1>2, <1>3, <1>7
<1> HIDE DEF raw
<1>12. cache' \in [Ino -> RawInode \cup {NotCached}] /\ \A i \in Ino : cache'[i] = IF i = x THEN raw ELSE cache[i]
    BY <1>8, <1>10, <1>11
<1>13. cache[x] # NotCached /\ raw # NotCached
    BY <1>4, <1>10, RawFacts
<1>14. \A i \in Ino : /\ cache'[i] = NotCached <=> cache[i] = NotCached
                      /\ Seen(i)'.size = Seen(i).size
                      /\ cache[i] # NotCached => cache'[i].kind = cache[i].kind /\ cache'[i].size = cache[i].size
    BY <1>2, <1>10, <1>12, <1>13 DEF Seen
<1>15. /\ \A i \in Ino, k \in Index : Ptr(i, k)' = IF i = x /\ k = k0 THEN b ELSE Ptr(i, k)
       /\ \A i, k : DPtr(i, k)' = DPtr(i, k)
  <2>1. dInode' = dInode
      BY <1>2
  <2>2. \A i \in Ino : Seen(i)' = IF i = x THEN raw ELSE Seen(i)
      BY <1>12, <1>13, <2>1 DEF Seen
  <2>3. \A k \in Index : raw.direct[k] = IF k = k0 THEN b ELSE Seen(x).direct[k]
      BY <1>4, <1>10
  <2> QED
      BY <2>1, <2>2, <2>3 DEF Ptr, DPtr
<1>16. \A i \in Ino, k \in Index : Ptr(i, k) # b /\ DPtr(i, k) # b
    BY <1>1, <1>5, <1>7 DEF Owned
<1>17. ASSUME NEW i \in Ino, NEW o \in Offset
       PROVE  Holds(i, o)' = Holds(i, o) /\ DHolds(i, o)' = DHolds(i, o)
  <2>1. o \div BLOCK_SIZE \in Index /\ o % BLOCK_SIZE \in 0..(BLOCK_SIZE - 1)
      BY OffsetParts
  <2>2. /\ Ptr(i, o \div BLOCK_SIZE) \in Blk \cup {NoBlk} /\ Ptr(i, o \div BLOCK_SIZE) # b
        /\ DPtr(i, o \div BLOCK_SIZE) \in Blk \cup {NoBlk} /\ DPtr(i, o \div BLOCK_SIZE) # b
      BY <1>1, <1>16, <2>1, PtrFacts
  <2>3. DHolds(i, o)' = DHolds(i, o)
      BY <1>9, <1>15, <2>2 DEF DHolds, UnitIn
  <2>4. CASE i = x /\ o \div BLOCK_SIZE = k0
    <3>1. Ptr(i, o \div BLOCK_SIZE) = NoBlk /\ Ptr(i, o \div BLOCK_SIZE)' = b
        BY <1>6, <1>15, <2>1, <2>4
    <3> QED
        BY <1>7, <1>9, <2>1, <2>3, <3>1 DEF Holds, UnitIn
  <2>5. CASE ~(i = x /\ o \div BLOCK_SIZE = k0)
    <3>1. Ptr(i, o \div BLOCK_SIZE)' = Ptr(i, o \div BLOCK_SIZE)
        BY <1>15, <2>1, <2>5
    <3> QED
        BY <1>9, <2>2, <2>3, <3>1 DEF Holds, UnitIn
  <2> QED
      BY <2>4, <2>5
<1>18. /\ op' \in Calls /\ op'.step = "alloc" /\ op'.what = op.what /\ op'.ino = op.ino
       /\ op'.off = op.off /\ op'.buf = op.buf /\ op'.new = op.new
  <2>1. op \in Calls
      BY <1>1, <1>2, CallIs
  <2> QED
      BY <1>2, <2>1 DEF Calls
<1>19. /\ Working' /\ (Creating' <=> Creating) /\ Span' = Span
       /\ DirSize' = DirSize /\ CallIno' /\ CallNew'
  <2>1. cache'[Root].size = cache[Root].size
      BY <1>1, <1>14, Sizes DEF KindOK
  <2> QED
      BY <1>1, <1>2, <1>14, <1>18, <2>1, CallMoved
<1>20. TypeOK'
    BY <1>1, <1>2, <1>9, <1>12, <1>18 DEF TypeOK, Calls
<1>21. KindOK'
    BY <1>1, <1>2, <1>14, <1>15, Sizes DEF KindOK
<1>22. Owned'
  <2>1. \A i \in Ino, k \in Index : Ptr(i, k)' \in dBitmap' \cup {NoBlk} /\ DPtr(i, k)' \in {NoBlk, Ptr(i, k)'}
      BY <1>1, <1>2, <1>6, <1>7, <1>15 DEF Owned
  <2>2. \A i, j \in Ino, k, l \in Index :
          Ptr(i, k)' # NoBlk /\ Ptr(i, k)' = Ptr(j, l)' => i = j /\ k = l
      BY <1>1, <1>15, <1>16 DEF Owned
  <2> QED
      BY <1>1, <1>2, <2>1, <2>2 DEF Owned
<1>23. Filled'
    BY <1>1, <1>2, <1>7, <1>14, <1>15 DEF Filled
<1>24. DirUnits'
    BY <1>1, <1>2, <1>17, Sizes DEF DirUnits, InUse
<1>25. CallBlocks'
    BY <1>18 DEF CallBlocks
<1>26. DirSize \in Nat /\ (torn \/ \A o \in 0..(DirSize - 1) : Holds(Root, o)' = Holds(Root, o))
  <2>1. DirSize \in Nat
      BY <1>1, <1>2, CallIs, RootSize DEF DirSize, CallNew, Creating
  <2>2. torn \/ DirSize <= MaxSize
      BY <1>1 DEF DirOK
  <2> QED
      BY <1>17, <2>1, <2>2, Sizes
<1>27. DirOK' /\ DirCall'
  <2>1. CASE torn
      BY <1>2, <2>1 DEF DirOK, DirCall
  <2>2. CASE ~torn
    <3>1. DirOK'
        BY <1>1, <1>2, <1>19, <1>26, <2>2, DirKept
    <3>2. op'.step # "create" /\ torn' = torn /\ \A o \in 0..(DirSize - 1) : Holds(Root, o)' = Holds(Root, o)
        BY <1>2, <1>18, <1>26, <2>2
    <3>3. DirCall'
        BY <1>1, <1>18, <1>19, <3>2, DirCallKept
    <3> QED
        BY <3>1, <3>3
  <2> QED
      BY <2>1, <2>2
<1>28. DataOK'
    BY <1>1, <1>2, <1>17, <1>18, <1>19 DEF DataOK
<1> QED
    BY <1>19, <1>20, <1>21, <1>22, <1>23, <1>24, <1>25, <1>27, <1>28 DEF PInv


\* Where the data loop ends, nothing is left to write.
LEMMA LastTouched ==
    ASSUME TypeOK, CallIno, Working, op.step # "create", NEW o1 \in Span, NEW o \in Span, NEW k,
           o1 \div BLOCK_SIZE = k, k + 1 \notin Touched
    PROVE  o \div BLOCK_SIZE <= k
<1>1. /\ o \in Nat /\ o1 \in Nat /\ op.off \in Nat /\ End \in Nat
      /\ op.off <= o1 /\ o < End /\ o1 < End
    BY CallIs DEF Span
<1> DEFINE q == o \div BLOCK_SIZE
           r == o % BLOCK_SIZE
           r1 == o1 % BLOCK_SIZE
<1>2. q \in Nat /\ r \in 0..(BLOCK_SIZE - 1) /\ o = q * BLOCK_SIZE + r /\ q \in Index
    BY <1>1, DivMod, SpanIn
<1>3. k \in Nat /\ r1 \in 0..(BLOCK_SIZE - 1) /\ o1 = k * BLOCK_SIZE + r1
    BY <1>1, DivMod
<1> HIDE DEF q, r, r1
<1>4. SUFFICES ASSUME k + 1 <= q PROVE FALSE
    BY <1>2, <1>3 DEF q
<1> DEFINE p == (k + 1) * BLOCK_SIZE
<1>5. p \in Nat /\ p = k * BLOCK_SIZE + BLOCK_SIZE /\ p <= q * BLOCK_SIZE /\ q * BLOCK_SIZE \in Nat
      /\ k * BLOCK_SIZE \in Nat
    BY <1>2, <1>3, <1>4, Sizes, Times
<1>6. p \div BLOCK_SIZE = k + 1
  <2>1. 0 \in 0..(BLOCK_SIZE - 1) /\ k + 1 \in Nat
      BY <1>3, Sizes
  <2>2. ((k + 1) * BLOCK_SIZE + 0) \div BLOCK_SIZE = k + 1
      BY <2>1, DivAt
  <2> QED
      BY <1>5, <2>2
<1> HIDE DEF p
<1>7. p \in op.off..(End - 1)
    BY <1>1, <1>2, <1>3, <1>5, Sizes
<1>8. k + 1 \in Index
    BY <1>2, <1>3, <1>4, Sizes DEF Index
<1> QED
    BY <1>6, <1>7, <1>8 DEF Touched

\* What WriteBlock does to the units of all files.
LEMMA BlockWritten ==
    ASSUME TypeOK, KindOK, Owned, CallIno, CallBlocks, WriteBlock, NEW x \in Ino, x = op.ino
    PROVE  /\ dData' \in [Blk -> [0..(BLOCK_SIZE - 1) -> Unit]]
           /\ \A i \in Ino, o \in Offset :
                 Holds(i, o)' = IF i = x /\ o \in Span /\ o \div BLOCK_SIZE = op.at
                                THEN op.buf[o - op.off + 1] ELSE Holds(i, o)
           /\ \A i \in Ino, o \in Offset :
                 \/ DHolds(i, o)' = DHolds(i, o)
                 \/ i = x /\ o \in Span /\ DHolds(i, o)' = op.buf[o - op.off + 1]
<1>1. op.step = "data" /\ Working /\ UNCHANGED <<dInode, cache>>
    BY DEF WriteBlock, Working
<1>2. PICK k \in Nat : k = op.at
    BY <1>1, CallIs
<1>3. k \in Index /\ k * BLOCK_SIZE < End /\ Ptr(x, k) # NoBlk
  <2>1. PICK o1 \in Span : o1 \div BLOCK_SIZE = k
      BY <1>1, <1>2 DEF CallBlocks
  <2>2. k \in Index /\ k * BLOCK_SIZE < End
      BY <1>1, <2>1, SpanIn
  <2> QED
      BY <1>1, <2>2 DEF CallBlocks
<1>4. PICK b \in Blk : b = Ptr(x, k) /\ b # NoBlk /\ b = cache[x].direct[k]
  <2>1. Seen(x) = cache[x]
      BY <1>1, MissingIs
  <2> QED
      BY <1>3, <2>1, PtrFacts DEF Ptr
<1> DEFINE new == [j \in 0..(BLOCK_SIZE - 1) |->
                      LET o == k * BLOCK_SIZE + j
                      IN  IF o \in op.off..(End - 1) THEN op.buf[o - op.off + 1] ELSE dData[b][j]]
<1>5. dData' = [dData EXCEPT ![b] = new]
    BY <1>2, <1>4 DEF WriteBlock
<1>6. op.buf \in Seq(Unit)
    BY <1>1, CallIs
<1>7. dData \in [Blk -> [0..(BLOCK_SIZE - 1) -> Unit]]
    BY DEF TypeOK
<1>8. /\ \A j \in 0..(BLOCK_SIZE - 1) : new[j] =
            IF k * BLOCK_SIZE + j \in Span THEN op.buf[(k * BLOCK_SIZE + j) - op.off + 1] ELSE dData[b][j]
      /\ new = [j \in 0..(BLOCK_SIZE - 1) |-> new[j]]
    BY DEF Span
<1> HIDE DEF new
<1>9. new \in [0..(BLOCK_SIZE - 1) -> Unit]
  <2>1. ASSUME NEW j \in 0..(BLOCK_SIZE - 1) PROVE new[j] \in Unit
    <3>1. dData[b][j] \in Unit
        BY <1>7
    <3>2. ASSUME NEW o \in Span PROVE op.buf[o - op.off + 1] \in Unit
      <4>1. o - op.off + 1 \in 1..Len(op.buf)
          BY <1>1, SpanIn
      <4> QED
          BY <1>6, <4>1
    <3> QED
        BY <1>8, <3>1, <3>2
  <2> QED
      BY <1>8, <2>1
<1>10. /\ dData' \in [Blk -> [0..(BLOCK_SIZE - 1) -> Unit]]
       /\ dData'[b] = new /\ \A c \in Blk : c # b => dData'[c] = dData[c]
    BY <1>5, <1>7, <1>9
<1>11. \A i, l : Ptr(i, l)' = Ptr(i, l) /\ DPtr(i, l)' = DPtr(i, l)
    BY <1>1 DEF Ptr, DPtr, Seen
<1>12. ASSUME NEW o \in Offset, o \div BLOCK_SIZE = k
       PROVE  UnitIn(b, o)' = IF o \in Span THEN op.buf[o - op.off + 1] ELSE UnitIn(b, o)
  <2>1. o \in Nat
      BY OffsetParts
  <2>2. PICK r \in 0..(BLOCK_SIZE - 1) : r = o % BLOCK_SIZE /\ o = k * BLOCK_SIZE + r
      BY <1>12, <2>1, DivMod
  <2>3. UnitIn(b, o) = dData[b][r] /\ UnitIn(b, o)' = new[r]
      BY <1>4, <1>10, <2>2 DEF UnitIn
  <2>4. new[r] = IF o \in Span THEN op.buf[o - op.off + 1] ELSE dData[b][r]
      BY <1>8, <2>2
  <2> QED
      BY <2>3, <2>4
<1>13. ASSUME NEW c \in Blk \cup {NoBlk}, NEW o, c # b PROVE UnitIn(c, o)' = UnitIn(c, o)
    BY <1>10, <1>13 DEF UnitIn
<1>14. \A i \in Ino, l \in Index : /\ Ptr(i, l) = b => i = x /\ l = k
                                   /\ DPtr(i, l) = b => Ptr(i, l) = b
  <2>0. \A i, j \in Ino, m, l \in Index : Ptr(i, m) # NoBlk /\ Ptr(i, m) = Ptr(j, l) => i = j /\ m = l
      BY Zenon DEF Owned
  <2>1. ASSUME NEW i \in Ino, NEW l \in Index, Ptr(i, l) = b PROVE i = x /\ l = k
    <3>1. Ptr(i, l) # NoBlk /\ Ptr(i, l) = Ptr(x, k) /\ k \in Index
        BY <1>3, <1>4, <2>1
    <3> QED
        BY <2>0, <3>1
  <2>2. ASSUME NEW i \in Ino, NEW l \in Index, DPtr(i, l) = b PROVE Ptr(i, l) = b
      BY <1>4, <2>2 DEF Owned
  <2> QED
      BY <2>1, <2>2
<1>15. ASSUME NEW i \in Ino, NEW o \in Offset
       PROVE  /\ Holds(i, o)' = IF i = x /\ o \in Span /\ o \div BLOCK_SIZE = op.at
                                THEN op.buf[o - op.off + 1] ELSE Holds(i, o)
              /\ \/ DHolds(i, o)' = DHolds(i, o)
                 \/ i = x /\ o \in Span /\ DHolds(i, o)' = op.buf[o - op.off + 1]
  <2>1. PICK l \in Index : l = o \div BLOCK_SIZE
      BY OffsetParts
  <2>2. PICK c \in Blk \cup {NoBlk} : c = Ptr(i, l)
      BY PtrFacts
  <2>3. PICK d \in Blk \cup {NoBlk} : d = DPtr(i, l)
      BY PtrFacts
  <2>4. /\ Holds(i, o) = UnitIn(c, o) /\ Holds(i, o)' = UnitIn(c, o)'
        /\ DHolds(i, o) = UnitIn(d, o) /\ DHolds(i, o)' = UnitIn(d, o)'
      BY <1>11, <2>1, <2>2, <2>3 DEF Holds, DHolds
  <2>5. Holds(i, o)' = IF i = x /\ o \in Span /\ o \div BLOCK_SIZE = op.at
                       THEN op.buf[o - op.off + 1] ELSE Holds(i, o)
    <3>1. CASE c = b
        BY <1>2, <1>12, <1>14, <2>1, <2>2, <2>4, <3>1
    <3>2. CASE c # b
        BY <1>2, <1>4, <1>13, <2>1, <2>2, <2>4, <3>2
    <3> QED
        BY <3>1, <3>2
  <2>6. \/ DHolds(i, o)' = DHolds(i, o)
        \/ i = x /\ o \in Span /\ DHolds(i, o)' = op.buf[o - op.off + 1]
    <3>1. CASE d = b
        BY <1>12, <1>14, <2>1, <2>2, <2>3, <2>4, <3>1
    <3>2. CASE d # b
        BY <1>13, <2>4, <3>2
    <3> QED
        BY <3>1, <3>2
  <2> QED
      BY <2>5, <2>6
<1> QED
    BY <1>10, <1>15

=============================================================================
