---------------------------- MODULE PondFsProofs ----------------------------
(***************************************************************************)
(* Proofs about PondFs, for every size of the disk, of a block, of the     *)
(* inode table and of an inode: what the file system keeps on the disk and *)
(* in memory through refused writes and crashes.                           *)
(***************************************************************************)
EXTENDS PondFsSteps

LEMMA WriteBlockInv ==
    ASSUME PInv, WriteBlock
    PROVE  PInv'
<1>1. /\ TypeOK /\ KindOK /\ Owned /\ Filled /\ DirUnits
      /\ CallIno /\ CallBlocks /\ CallNew /\ DirOK /\ DirCall /\ DataOK
    BY DEF PInv
<1>2. /\ op.step = "data" /\ Working
      /\ op' = IF op.at + 1 \in Touched THEN [op EXCEPT !.at = @ + 1] ELSE [op EXCEPT !.step = "inode"]
      /\ UNCHANGED <<dBitmap, dInode, bitmap, cache, made, allowed, torn>>
    BY DEF WriteBlock, Working
<1>3. PICK x \in Ino : x = op.ino
    BY <1>1, <1>2, CallIs
<1>4. PICK k \in Nat : k = op.at
    BY <1>1, <1>2, CallIs
<1>5. /\ dData' \in [Blk -> [0..(BLOCK_SIZE - 1) -> Unit]]
      /\ \A i \in Ino, o \in Offset :
            Holds(i, o)' = IF i = x /\ o \in Span /\ o \div BLOCK_SIZE = k
                           THEN op.buf[o - op.off + 1] ELSE Holds(i, o)
      /\ \A i \in Ino, o \in Offset :
            \/ DHolds(i, o)' = DHolds(i, o)
            \/ i = x /\ o \in Span /\ DHolds(i, o)' = op.buf[o - op.off + 1]
    BY <1>1, <1>3, <1>4, BlockWritten
<1>6. \A i, l : Ptr(i, l)' = Ptr(i, l) /\ DPtr(i, l)' = DPtr(i, l) /\ Seen(i)' = Seen(i)
    BY <1>2 DEF Ptr, DPtr, Seen
<1>7. /\ op' \in Calls /\ op'.step \in {"data", "inode"} /\ op'.what = op.what /\ op'.ino = op.ino
      /\ op'.off = op.off /\ op'.buf = op.buf /\ op'.new = op.new
      /\ op'.step = "data" => op'.at = k + 1 /\ k + 1 \in Touched
      /\ op'.step = "inode" => k + 1 \notin Touched
  <2>1. op \in Calls
      BY <1>1, <1>2, CallIs
  <2>2. CASE k + 1 \in Touched
    <3>1. op' = [op EXCEPT !.at = k + 1] /\ k + 1 \in Nat
        BY <1>2, <1>4, <2>2
    <3> QED
        BY <1>2, <2>1, <2>2, <3>1 DEF Calls
  <2>3. CASE k + 1 \notin Touched
    <3>1. op' = [op EXCEPT !.step = "inode"]
        BY <1>2, <1>4, <2>3
    <3> QED
        BY <2>1, <2>3, <3>1 DEF Calls
  <2> QED
      BY <2>2, <2>3
<1>8. op.step # "create" /\ op'.step # "create"
    BY <1>2, <1>7
<1>9. /\ Working' /\ (Creating' <=> Creating) /\ Span' = Span /\ End' = End
      /\ DirSize' = DirSize /\ CallIno' /\ CallNew'
    BY <1>1, <1>2, <1>7, <1>8, CallMoved
<1>10. TypeOK'
    BY <1>1, <1>2, <1>5, <1>7 DEF TypeOK, Calls
<1>11. KindOK'
    BY <1>1, <1>2, <1>6 DEF KindOK
<1>12. Owned'
    BY <1>1, <1>2, <1>6 DEF Owned
<1>13. Filled'
    BY <1>1, <1>2, <1>6 DEF Filled
<1>14. x = Root => Creating /\ op.off = 0
    BY <1>1, <1>2, <1>3, CallIs DEF CallIno, Creating
<1>15. ASSUME x = Root, NEW o \in Span, NEW e, op.buf[o - op.off + 1] = e
       PROVE  InUse(e)
  <2>1. o - op.off + 1 \in 1..Len(op.buf) /\ Len(op.buf) \in Nat
      BY <1>1, <1>2, <1>8, SpanIn, CallIs
  <2>2. CASE o - op.off + 1 = Len(op.buf)
    <3>1. e = NewEntry /\ e \in Entry /\ e.ino = op.new /\ dInode[op.new] = NewInode("file")
        BY <1>1, <1>8, <1>14, <1>15, <2>2 DEF NewEntry, CallNew
    <3> QED
        BY <3>1, NewInodeRaw DEF InUse
  <2>3. CASE o - op.off + 1 # Len(op.buf)
    <3>1. o - op.off + 1 \in 1..(Len(op.buf) - 1)
        BY <2>1, <2>3
    <3> QED
        BY <1>1, <1>14, <1>15, <3>1 DEF CallNew
  <2> QED
      BY <2>2, <2>3
<1>16. DirUnits'
  <2>1. \A e : InUse(e)' <=> InUse(e)
      BY <1>2 DEF InUse
  <2>2. ASSUME NEW o \in Offset, NEW e, Holds(Root, o)' = e PROVE e = Zero \/ InUse(e)
    <3>1. CASE Root = x /\ o \in Span /\ o \div BLOCK_SIZE = k
      <4>1. Holds(Root, o)' = op.buf[o - op.off + 1]
          BY <1>5, <3>1, Sizes
      <4> QED
          BY <1>15, <2>2, <3>1, <4>1
    <3>2. CASE ~(Root = x /\ o \in Span /\ o \div BLOCK_SIZE = k)
      <4>1. Holds(Root, o)' = Holds(Root, o)
          BY <1>5, <3>2, Sizes
      <4> QED
          BY <1>1, <2>2, <4>1 DEF DirUnits
    <3> QED
        BY <3>1, <3>2
  <2> QED
      BY <2>1, <2>2 DEF DirUnits
<1>17. CallBlocks'
  <2>1. \A l \in Index : l * BLOCK_SIZE < End => Ptr(x, l) # NoBlk
      BY <1>1, <1>2, <1>3 DEF CallBlocks
  <2>2. op'.step = "data" => \E o \in Span : o \div BLOCK_SIZE = op'.at
      BY <1>7 DEF Touched, Span
  <2>3. ASSUME NEW o \in Span, op'.step = "inode" \/ (op'.step = "data" /\ o \div BLOCK_SIZE < op'.at)
        PROVE  Holds(x, o)' = op.buf[o - op.off + 1]
    <3>1. o \in Offset /\ o \div BLOCK_SIZE \in Nat
        BY <1>1, <1>2, <1>8, SpanIn, OffsetParts, DivMod
    <3>2. o \div BLOCK_SIZE <= k
      <4>1. CASE op'.step = "inode"
        <5>1. PICK o1 \in Span : o1 \div BLOCK_SIZE = k
            BY <1>1, <1>2, <1>3, <1>4 DEF CallBlocks
        <5> QED
            BY <1>1, <1>2, <1>7, <1>8, <4>1, <5>1, LastTouched
      <4>2. CASE op'.step = "data" /\ o \div BLOCK_SIZE < op'.at
          BY <1>7, <3>1, <4>2
      <4> QED
          BY <2>3, <4>1, <4>2
    <3>3. CASE o \div BLOCK_SIZE = k
        BY <1>5, <3>1, <3>3
    <3>4. CASE o \div BLOCK_SIZE < k
      <4>1. Holds(x, o) = op.buf[o - op.off + 1]
          BY <1>1, <1>2, <1>3, <1>4, <3>4 DEF CallBlocks
      <4>2. Holds(x, o)' = Holds(x, o)
          BY <1>5, <3>1, <3>4
      <4> QED
          BY <4>1, <4>2
    <3> QED
        BY <3>1, <3>2, <3>3, <3>4
  <2> QED
      BY <1>3, <1>6, <1>7, <1>9, <2>1, <2>2, <2>3 DEF CallBlocks
<1>18. DirSize \in Nat
    BY <1>1, <1>2, CallIs, RootSize DEF DirSize, CallNew, Creating
<1>19. torn \/ \A o \in 0..(DirSize - 1) : Holds(Root, o)' = Holds(Root, o)
  <2>1. SUFFICES ASSUME ~torn, NEW o \in 0..(DirSize - 1)
                 PROVE  Holds(Root, o)' = Holds(Root, o)
      OBVIOUS
  <2>2. DirSize <= MaxSize /\ o \in Offset
    <3>1. DirSize <= MaxSize
        BY <1>1, <2>1 DEF DirOK
    <3> QED
        BY <1>18, <3>1, Sizes
  <2>3. CASE Root = x
    <3>1. Holds(Root, o) = op.buf[o + 1] /\ op.off = 0 /\ o - 0 + 1 = o + 1
        BY <1>1, <1>14, <1>18, <2>1, <2>3 DEF DirCall
    <3> QED
        BY <1>5, <2>2, <2>3, <3>1, Sizes
  <2>4. CASE Root # x
      BY <1>5, <2>2, <2>4, Sizes
  <2> QED
      BY <2>3, <2>4
<1>20. DirOK' /\ DirCall'
  <2>1. CASE torn
      BY <1>2, <2>1 DEF DirOK, DirCall
  <2>2. CASE ~torn
    <3>1. \A o \in 0..(DirSize - 1) : Holds(Root, o)' = Holds(Root, o)
        BY <1>19, <2>2
    <3>2. DirOK'
        BY <1>1, <1>2, <1>9, <1>18, <3>1, DirKept
    <3>3. DirCall'
        BY <1>1, <1>2, <1>7, <1>8, <1>9, <3>1, DirCallKept
    <3> QED
        BY <3>2, <3>3
  <2> QED
      BY <2>1, <2>2
<1>21. DataOK'
  <2>1. ASSUME op.what = "write", NEW o \in Span PROVE op.buf[o - op.off + 1] \in allowed[x][o]
      BY <1>1, <1>2, <1>3, <2>1 DEF DataOK
  <2>2. x # Root => op.what = "write"
      BY <1>1, <1>2, <1>3, CallIs DEF CallIno, Creating
  <2>3. ASSUME NEW i \in Ino \ {Root}, NEW o \in Offset
        PROVE  Holds(i, o)' \in allowed[i][o] /\ DHolds(i, o)' \in allowed[i][o]
    <3>1. Holds(i, o) \in allowed[i][o] /\ DHolds(i, o) \in allowed[i][o]
        BY <1>1 DEF DataOK
    <3>2. i = x /\ o \in Span => op.buf[o - op.off + 1] \in allowed[i][o]
        BY <2>1, <2>2
    <3>3. Holds(i, o)' \in allowed[i][o]
        BY <1>5, <3>1, <3>2
    <3>4. DHolds(i, o)' \in allowed[i][o]
        BY <1>5, <3>1, <3>2
    <3> QED
        BY <3>3, <3>4
  <2> QED
      BY <1>2, <1>3, <1>7, <1>9, <2>1, <2>3 DEF DataOK
<1> QED
    BY <1>9, <1>10, <1>11, <1>12, <1>13, <1>16, <1>17, <1>20, <1>21 DEF PInv


----------------------------------------------------------------------------
(* The end of a call, and crashes *)

\* The directory has one entry more.
LEMMA DirGrown ==
    ASSUME PInv, Creating, op.step = "inode", ~torn, ~Creating', cache'[Root].size = Len(op.buf),
           \A o \in Offset : Holds(Root, o)' = Holds(Root, o),
           \/ made' = made /\ dInode'[Root].size = dInode[Root].size
           \/ made' = made \cup {NewEntry} /\ dInode'[Root].size = Len(op.buf)
    PROVE  DirOK'
<1>1. /\ TypeOK /\ KindOK /\ CallIno /\ CallBlocks /\ CallNew /\ DirOK /\ DirCall /\ Working
    BY DEF PInv, Creating
<1> DEFINE n == Len(op.buf) - 1
<1>2. n \in Nat /\ DirSize = n /\ DirSize' = n + 1 /\ op.off = 0 /\ op.ino = Root
      /\ End = n + 1 /\ n + 1 <= MaxSize /\ Len(op.buf) = n + 1
  <2>1. Len(op.buf) \in Nat /\ Len(op.buf) > 0 /\ op.off = 0 /\ op.ino = Root /\ End <= MaxSize
      BY <1>1, CallIs DEF CallNew, CallIno
  <2> QED
      BY <2>1 DEF DirSize, End
<1> HIDE DEF n
<1>3. dInode[Root].size \in Nat /\ dInode[Root].size <= n
    BY <1>1, <1>2, Sizes, TypeFacts, RawFacts DEF DirOK
<1>4. \A o \in 0..n : o \in Offset /\ Holds(Root, o)' = op.buf[o + 1]
  <2>1. ASSUME NEW o \in 0..n PROVE o \in Offset /\ Holds(Root, o)' = op.buf[o + 1]
    <3>1. o \in Offset /\ o \in Span /\ o - op.off + 1 = o + 1
        BY <1>2, Sizes DEF Span
    <3>2. Holds(Root, o) = op.buf[o - op.off + 1]
        BY <1>1, <1>2, <3>1, Sizes DEF CallBlocks
    <3> QED
        BY <3>1, <3>2
  <2> QED
      BY <2>1
<1>5. NewEntry = op.buf[n + 1] /\ NewEntry \in Entry /\ NewEntry.ino = op.new
    BY <1>1, <1>2 DEF NewEntry, CallNew
<1>6. \A o \in 0..(n - 1) : /\ op.buf[o + 1] # Zero /\ Holds(Root, o) = op.buf[o + 1]
                            /\ op.buf[o + 1].name # NewEntry.name /\ op.buf[o + 1].ino # NewEntry.ino
  <2>1. ASSUME NEW o \in 0..(n - 1) PROVE Holds(Root, o) # Zero
      BY <1>1, <1>2 DEF DirOK
  <2>2. ASSUME NEW o \in 0..(n - 1)
        PROVE  /\ Holds(Root, o) = op.buf[o + 1]
               /\ op.buf[o + 1].name # NewEntry.name /\ op.buf[o + 1].ino # op.new
      BY <1>1, <1>2 DEF DirCall
  <2> QED
      BY <1>5, <2>1, <2>2
<1>7. \A o, p \in 0..(n - 1) : \/ op.buf[o + 1].name = op.buf[p + 1].name
                               \/ op.buf[o + 1].ino = op.buf[p + 1].ino
                               => o = p
  <2>1. ASSUME NEW o \in 0..(n - 1), NEW p \in 0..(n - 1),
               \/ Holds(Root, o).name = Holds(Root, p).name
               \/ Holds(Root, o).ino = Holds(Root, p).ino
        PROVE  o = p
      BY <1>1, <1>2, <2>1 DEF DirOK
  <2>2. \A o \in 0..(n - 1) : Holds(Root, o) = op.buf[o + 1]
      BY <1>6
  <2> QED
      BY <2>1, <2>2
<1>8. \A o : o \in 0..n <=> o \in 0..(n - 1) \/ o = n
    BY <1>2
<1>9. \A o \in 0..n : Holds(Root, o)' # Zero
    BY <1>4, <1>5, <1>6, <1>8, EmptyAssumption
<1>10. ASSUME NEW o \in 0..n, NEW p \in 0..n,
              \/ Holds(Root, o)'.name = Holds(Root, p)'.name
              \/ Holds(Root, o)'.ino = Holds(Root, p)'.ino
       PROVE  o = p
  <2>1. \/ op.buf[o + 1].name = op.buf[p + 1].name
        \/ op.buf[o + 1].ino = op.buf[p + 1].ino
      BY <1>4, <1>10
  <2>2. CASE o = n /\ p \in 0..(n - 1)
      BY <1>5, <1>6, <2>1, <2>2
  <2>3. CASE p = n /\ o \in 0..(n - 1)
      BY <1>5, <1>6, <2>1, <2>3
  <2>4. CASE o \in 0..(n - 1) /\ p \in 0..(n - 1)
      BY <1>7, <2>1, <2>4
  <2> QED
      BY <1>8, <2>2, <2>3, <2>4
<1>11. ASSUME NEW e \in made' PROVE \E o \in 0..(dInode'[Root].size - 1) : Holds(Root, o)' = e
  <2>1. CASE e \in made
    <3>1. PICK o \in 0..(dInode[Root].size - 1) : Holds(Root, o) = e
        BY <1>1, <2>1 DEF DirOK
    <3>2. o \in 0..(dInode'[Root].size - 1) /\ o \in 0..n
        BY <1>2, <1>3
    <3> QED
        BY <1>4, <3>1, <3>2
  <2>2. CASE e \notin made
    <3>1. e = op.buf[n + 1] /\ dInode'[Root].size = n + 1
        BY <1>2, <1>5, <2>2
    <3>2. n \in 0..n /\ n \in 0..(dInode'[Root].size - 1)
        BY <1>2, <3>1
    <3> QED
        BY <1>4, <3>1, <3>2
  <2> QED
      BY <2>1, <2>2
<1>12. dInode'[Root].size <= DirSize' /\ DirSize' <= MaxSize
    BY <1>2, <1>3
<1>13. DirSize' - 1 = n
    BY <1>2
<1> QED
    BY <1>9, <1>10, <1>11, <1>12, <1>13 DEF DirOK

\* The inode of the call with its new size.
LEMMA GrownIs ==
    ASSUME TypeOK, CallIno, Working, op.step = "inode", NEW x \in Ino, x = op.ino
    PROVE  /\ Grown \in RawInode /\ Grown # NotCached /\ cache[x] # NotCached /\ Seen(x) = cache[x]
           /\ Grown.kind = cache[x].kind /\ Grown.direct = cache[x].direct
           /\ Grown.size = End \/ Grown.size = cache[x].size
           /\ x = Root /\ cache[x].size = 0 /\ Len(op.buf) > 0 /\ op.off = 0 => Grown.size = Len(op.buf)
<1>1. cache[x] \in RawInode /\ cache[x] # NotCached /\ Seen(x) = cache[x]
    BY TypeFacts DEF CallIno
<1>2. End \in Nat /\ End <= MaxSize /\ End = op.off + Len(op.buf) /\ Len(op.buf) \in Nat
    BY CallIs DEF CallIno, End
<1> DEFINE s == IF End > cache[x].size THEN End ELSE cache[x].size
<1>3. cache[x].size \in Nat /\ cache[x].size <= MaxSize
    BY <1>1, RawFacts
<1>4. s \in 0..(DIRECT_BLOCKS * BLOCK_SIZE) /\ (s = End \/ s = cache[x].size)
    BY <1>2, <1>3, Sizes DEF MaxSize
<1>5. cache[x].size = 0 /\ Len(op.buf) > 0 /\ op.off = 0 => s = Len(op.buf)
    BY <1>2
<1> HIDE DEF s
<1>6. Grown = [cache[x] EXCEPT !.size = s]
    BY DEF Grown, s
<1>7. /\ Grown \in RawInode /\ Grown.kind = cache[x].kind /\ Grown.direct = cache[x].direct
      /\ Grown.size = s
    BY <1>1, <1>4, <1>6 DEF RawInode
<1>8. Grown # NotCached
    BY <1>7, RawFacts
<1> QED
    BY <1>1, <1>4, <1>5, <1>7, <1>8


\* The size of the inode of the call has grown, in memory or on the disk too.
LEMMA GrowKept ==
    ASSUME TypeOK, KindOK, Owned, Filled, DirUnits, CallIno, CallBlocks, CallNew,
           Working, op.step = "inode", NEW x \in Ino, x = op.ino,
           UNCHANGED <<dData, dBitmap, bitmap>>,
           cache'[x] = Grown, dInode'[x] \in {dInode[x], Grown},
           \A i \in Ino \ {x} :
              /\ dInode'[i] = dInode[i]
              /\ cache'[i] = cache[i] \/ (Creating /\ i = op.new /\ cache'[i] = NewInode("file"))
    PROVE  /\ KindOK' /\ Owned' /\ Filled' /\ DirUnits'
           /\ \A i \in Ino, o \in Offset : Holds(i, o)' = Holds(i, o)
           /\ \A i \in Ino, o \in Offset : DHolds(i, o)' = DHolds(i, o) \/ (i = x /\ DHolds(i, o)' = Holds(i, o))
<1>1. /\ Grown \in RawInode /\ Grown # NotCached /\ cache[x] # NotCached /\ Seen(x) = cache[x]
      /\ Grown.kind = cache[x].kind /\ Grown.direct = cache[x].direct
      /\ Grown.size = End \/ Grown.size = cache[x].size
    BY GrownIs
<1>2. cache[x].kind = dInode[x].kind
    BY <1>1 DEF KindOK
<1>3. ASSUME NEW i \in Ino, Creating /\ i = op.new
      PROVE  dInode[i] = NewInode("file") /\ cache[i] = NotCached /\ Seen(i) = NewInode("file")
    BY <1>3 DEF CallNew, Seen
<1>4. NewInode("file") # NotCached /\ NewInode("file").kind = "file"
    BY NewInodeRaw, RawFacts
<1>5. \A i \in Ino : i # x => Seen(i)' = Seen(i)
    BY <1>3, <1>4 DEF Seen
<1>6. Seen(x)' = Grown
    BY <1>1 DEF Seen
<1>7. \A i \in Ino, k \in Index : Ptr(i, k)' = Ptr(i, k)
    BY <1>1, <1>5, <1>6 DEF Ptr
<1>8. \A i \in Ino, k \in Index : DPtr(i, k)' = DPtr(i, k) \/ (i = x /\ DPtr(i, k)' = Ptr(i, k))
    BY <1>1 DEF Ptr, DPtr
<1>9. \A i \in Ino : dInode'[i].kind = dInode[i].kind
    BY <1>1, <1>2
<1>10. KindOK'
  <2>1. dInode'[Root].kind = "dir" /\ cache'[Root] # NotCached
      BY <1>1, <1>4, <1>9, Sizes DEF KindOK
  <2>2. ASSUME NEW i \in Ino, cache'[i] # NotCached
        PROVE  cache'[i].kind = dInode'[i].kind /\ dInode'[i].kind # "unused"
      BY <1>1, <1>2, <1>3, <1>4, <1>9, <2>2 DEF KindOK
  <2>3. ASSUME NEW i \in Ino, dInode'[i].kind = "unused", NEW k \in Index PROVE DPtr(i, k)' = NoBlk
    <3>1. i # x
        BY <1>1, <1>9, <2>3 DEF KindOK
    <3> QED
        BY <1>8, <1>9, <2>3, <3>1 DEF KindOK
  <2> QED
      BY <1>9, <2>1, <2>2, <2>3 DEF KindOK
<1>11. Owned'
  <2>1. \A i \in Ino, k \in Index : Ptr(i, k)' \in dBitmap' \cup {NoBlk} /\ DPtr(i, k)' \in {NoBlk, Ptr(i, k)'}
      BY <1>7, <1>8 DEF Owned
  <2>2. \A i, j \in Ino, k, l \in Index :
          Ptr(i, k)' # NoBlk /\ Ptr(i, k)' = Ptr(j, l)' => i = j /\ k = l
      BY <1>7 DEF Owned
  <2> QED
      BY <2>1, <2>2 DEF Owned
<1>12. Filled'
  <2>1. ASSUME NEW k \in Index, k * BLOCK_SIZE < Grown.size PROVE Ptr(x, k) # NoBlk
    <3>1. CASE Grown.size = End
        BY <2>1, <3>1 DEF CallBlocks
    <3>2. CASE Grown.size = cache[x].size
        BY <1>1, <2>1, <3>2 DEF Filled
    <3> QED
        BY <1>1, <3>1, <3>2
  <2>2. ASSUME NEW i \in Ino, NEW k \in Index, k * BLOCK_SIZE < dInode'[i].size PROVE DPtr(i, k)' # NoBlk
    <3>1. CASE dInode'[i] = dInode[i]
      <4>1. DPtr(i, k)' = DPtr(i, k)
          BY <3>1 DEF DPtr
      <4> QED
          BY <2>2, <3>1, <4>1 DEF Filled
    <3>2. CASE i = x /\ dInode'[i] = Grown
      <4>1. DPtr(i, k)' = Ptr(x, k)
          BY <1>1, <3>2 DEF DPtr, Ptr
      <4> QED
          BY <2>1, <2>2, <3>2, <4>1
    <3> QED
        BY <3>1, <3>2
  <2>3. ASSUME NEW i \in Ino, NEW k \in Index, k * BLOCK_SIZE < Seen(i)'.size PROVE Ptr(i, k)' # NoBlk
    <3>1. CASE i = x
        BY <1>6, <1>7, <2>1, <2>3, <3>1
    <3>2. CASE i # x
        BY <1>5, <1>7, <2>3, <3>2 DEF Filled
    <3> QED
        BY <3>1, <3>2
  <2> QED
      BY <2>2, <2>3 DEF Filled
<1>13. ASSUME NEW i \in Ino, NEW o \in Offset
       PROVE  /\ Holds(i, o)' = Holds(i, o)
              /\ DHolds(i, o)' = DHolds(i, o) \/ (i = x /\ DHolds(i, o)' = Holds(i, o))
  <2>1. PICK l \in Index : l = o \div BLOCK_SIZE
      BY OffsetParts
  <2>2. \A c : UnitIn(c, o)' = UnitIn(c, o)
      BY DEF UnitIn
  <2>3. Ptr(i, l)' = Ptr(i, l) /\ (DPtr(i, l)' = DPtr(i, l) \/ (i = x /\ DPtr(i, l)' = Ptr(i, l)))
      BY <1>7, <1>8
  <2> QED
      BY <2>1, <2>3 DEF Holds, DHolds, UnitIn
<1>14. DirUnits'
  <2>1. \A e : InUse(e) => InUse(e)'
    <3>1. \A e \in Entry : e.ino \in Ino
        BY DEF Entry
    <3> QED
        BY <1>9, <3>1 DEF InUse
  <2>2. \A o \in Offset : Holds(Root, o)' = Holds(Root, o)
      BY <1>13, Sizes
  <2> QED
      BY <2>1, <2>2 DEF DirUnits
<1> QED
    BY <1>10, <1>11, <1>12, <1>13, <1>14


LEMMA CommitInv ==
    ASSUME PInv, Commit
    PROVE  PInv'
<1>1. /\ TypeOK /\ KindOK /\ Owned /\ Filled /\ DirUnits
      /\ CallIno /\ CallBlocks /\ CallNew /\ DirOK /\ DirCall /\ DataOK
    BY DEF PInv
<1>2. /\ op.step = "inode" /\ Working /\ op' = Idle
      /\ dInode' = [dInode EXCEPT ![op.ino] = Grown]
      /\ UNCHANGED <<dBitmap, dData, bitmap, torn>>
    BY DEF Commit, Working
<1>3. PICK x \in Ino : x = op.ino
    BY <1>1, <1>2, CallIs
<1>4. /\ Grown \in RawInode /\ Grown # NotCached /\ cache[x] # NotCached /\ Seen(x) = cache[x]
      /\ x = Root /\ cache[x].size = 0 /\ Len(op.buf) > 0 /\ op.off = 0 => Grown.size = Len(op.buf)
    BY <1>1, <1>2, <1>3, GrownIs
<1>5. /\ dInode \in [Ino -> RawInode] /\ cache \in [Ino -> RawInode \cup {NotCached}]
      /\ allowed \in [Ino -> [Offset -> SUBSET Unit]]
    BY <1>1 DEF TypeOK
<1>6. /\ dInode' \in [Ino -> RawInode] /\ dInode'[x] = Grown
      /\ \A i \in Ino \ {x} : dInode'[i] = dInode[i]
    BY <1>2, <1>3, <1>4, <1>5
<1>7. ~Working' /\ ~Creating' /\ CallIno' /\ CallBlocks' /\ CallNew' /\ DirCall'
    BY <1>2, IdleCall
<1>8. CASE /\ op.what = "write" /\ cache' = [cache EXCEPT ![op.ino] = Grown]
           /\ allowed' = [allowed EXCEPT ![op.ino] =
                [o \in Offset |-> IF o \in op.off..(End - 1) THEN {op.buf[o - op.off + 1]} ELSE @[o]]]
           /\ UNCHANGED made
  <2>1. /\ cache' \in [Ino -> RawInode \cup {NotCached}] /\ cache'[x] = Grown
        /\ \A i \in Ino \ {x} : cache'[i] = cache[i]
      BY <1>3, <1>4, <1>5, <1>8
  <2>2. /\ KindOK' /\ Owned' /\ Filled' /\ DirUnits'
        /\ \A i \in Ino, o \in Offset : Holds(i, o)' = Holds(i, o)
        /\ \A i \in Ino, o \in Offset :
              DHolds(i, o)' = DHolds(i, o) \/ (i = x /\ DHolds(i, o)' = Holds(i, o))
      BY <1>1, <1>2, <1>3, <1>6, <2>1, GrowKept
  <2>3. x # Root /\ ~Creating
      BY <1>1, <1>2, <1>3, <1>8 DEF CallIno, Creating
  <2> DEFINE a == [o \in Offset |-> IF o \in Span THEN {op.buf[o - op.off + 1]} ELSE allowed[x][o]]
  <2>4. \A o \in Span : o \in Offset /\ op.buf[o - op.off + 1] \in Unit
                        /\ Holds(x, o) = op.buf[o - op.off + 1]
    <3>1. op.step # "create" /\ op.buf \in Seq(Unit)
        BY <1>1, <1>2, CallIs
    <3>2. ASSUME NEW o \in Span
          PROVE  o \in Offset /\ op.buf[o - op.off + 1] \in Unit /\ Holds(x, o) = op.buf[o - op.off + 1]
      <4>1. o \in Offset /\ o - op.off + 1 \in 1..Len(op.buf)
          BY <1>1, <1>2, <3>1, SpanIn
      <4>2. Holds(x, o) = op.buf[o - op.off + 1]
          BY <1>1, <1>2, <1>3 DEF CallBlocks
      <4> QED
          BY <3>1, <4>1, <4>2
    <3> QED
        BY <3>2
  <2>5. a \in [Offset -> SUBSET Unit]
      BY <1>5, <2>4
  <2>6. allowed' = [allowed EXCEPT ![x] = a]
      BY <1>3, <1>8 DEF Span
  <2>7. \A o \in Offset : a[o] = IF o \in Span THEN {op.buf[o - op.off + 1]} ELSE allowed[x][o]
      OBVIOUS
  <2> HIDE DEF a
  <2>8. /\ allowed' \in [Ino -> [Offset -> SUBSET Unit]] /\ allowed'[x] = a
        /\ \A i \in Ino \ {x} : allowed'[i] = allowed[i]
      BY <1>5, <2>5, <2>6
  <2>9. DataOK'
    <3>1. ASSUME NEW i \in Ino \ {Root}, NEW o \in Offset
          PROVE  Holds(i, o)' \in allowed'[i][o] /\ DHolds(i, o)' \in allowed'[i][o]
      <4>1. Holds(i, o) \in allowed[i][o] /\ DHolds(i, o) \in allowed[i][o]
          BY <1>1 DEF DataOK
      <4>2. CASE i = x
        <5>1. Holds(x, o) \in a[o]
            BY <2>4, <2>7, <4>1, <4>2
        <5>2. DHolds(x, o)' = Holds(x, o)
          <6>1. \A k : DPtr(x, k)' = Ptr(x, k)
            <7>1. Grown.direct = cache[x].direct
                BY <1>1, <1>2, <1>3, GrownIs
            <7> QED
                BY <1>4, <1>6, <7>1 DEF DPtr, Ptr
          <6> QED
              BY <1>2, <6>1 DEF Holds, DHolds, UnitIn
        <5> QED
            BY <2>2, <2>8, <4>2, <5>1, <5>2
      <4>3. CASE i # x
          BY <2>2, <2>8, <4>1, <4>3
      <4> QED
          BY <4>2, <4>3
    <3> QED
        BY <1>7, <3>1 DEF DataOK
  <2>10. TypeOK'
      BY <1>1, <1>2, <1>6, <1>8, <2>1, <2>8 DEF TypeOK
  <2>11. DirSize' = DirSize /\ DirSize \in Nat /\ dInode'[Root] = dInode[Root]
      BY <1>1, <1>6, <1>7, <2>1, <2>3, RootSize, Sizes DEF DirSize
  <2>12. DirOK'
    <3>1. \A o \in 0..(DirSize - 1) : Holds(Root, o)' = Holds(Root, o)
        BY <1>1, <2>2, <2>3, RootSize, Sizes DEF DirSize
    <3> QED
        BY <1>1, <1>2, <1>8, <2>11, <3>1, DirKept
  <2> QED
      BY <1>7, <2>2, <2>9, <2>10, <2>12 DEF PInv
<1>9. CASE /\ op.what = "create"
           /\ cache' = [cache EXCEPT ![op.ino] = Grown, ![op.new] = NewInode("file")]
           /\ made' = made \cup {op.buf[Len(op.buf)]}
           /\ UNCHANGED allowed
  <2>1. Creating /\ x = Root /\ op.off = 0 /\ op.step # "create"
      BY <1>1, <1>2, <1>3, <1>9 DEF CallIno, Creating
  <2>2. PICK y \in Ino : y = op.new
      BY <1>1, <1>2, CallIs
  <2>3. Len(op.buf) > 0 /\ cache[Root].size = 0 /\ cache[y] = NotCached /\ y # x /\ NewEntry \in Entry
      BY <1>1, <1>4, <2>1, <2>2 DEF CallNew
  <2>4. NewInode("file") \in RawInode
      BY NewInodeRaw
  <2>5. /\ cache' \in [Ino -> RawInode \cup {NotCached}] /\ cache'[x] = Grown
        /\ cache'[y] = NewInode("file") /\ \A i \in Ino \ {x, y} : cache'[i] = cache[i]
      BY <1>3, <1>4, <1>5, <1>9, <2>2, <2>3, <2>4
  <2>6. /\ KindOK' /\ Owned' /\ Filled' /\ DirUnits'
        /\ \A i \in Ino, o \in Offset : Holds(i, o)' = Holds(i, o)
        /\ \A i \in Ino, o \in Offset :
              DHolds(i, o)' = DHolds(i, o) \/ (i = x /\ DHolds(i, o)' = Holds(i, o))
    <3>1. \A i \in Ino \ {x} : cache'[i] = cache[i] \/ (Creating /\ i = op.new /\ cache'[i] = NewInode("file"))
        BY <2>1, <2>2, <2>5
    <3> QED
        BY <1>1, <1>2, <1>3, <1>6, <2>5, <3>1, GrowKept
  <2>7. made' = made \cup {NewEntry}
      BY <1>9 DEF NewEntry
  <2>8. TypeOK'
      BY <1>1, <1>2, <1>6, <1>9, <2>3, <2>5, <2>7 DEF TypeOK
  <2>9. DataOK'
      BY <1>1, <1>7, <1>9, <2>1, <2>6 DEF DataOK
  <2>10. DirOK'
    <3>1. CASE torn
        BY <1>2, <3>1 DEF DirOK
    <3>2. CASE ~torn
      <4>1. Grown.size = Len(op.buf)
          BY <1>4, <2>1, <2>3
      <4>2. cache'[Root].size = Len(op.buf) /\ dInode'[Root].size = Len(op.buf)
          BY <1>6, <2>1, <2>5, <4>1
      <4>3. \A o \in Offset : Holds(Root, o)' = Holds(Root, o)
          BY <2>6, Sizes
      <4> QED
          BY <1>2, <1>7, <2>1, <2>7, <3>2, <4>2, <4>3, DirGrown
    <3> QED
        BY <3>1, <3>2
  <2> QED
      BY <1>7, <2>6, <2>8, <2>9, <2>10 DEF PInv
<1> QED
    BY <1>8, <1>9 DEF Commit

LEMMA IoErrorInv ==
    ASSUME PInv, IoError
    PROVE  PInv'
<1>1. /\ TypeOK /\ KindOK /\ Owned /\ Filled /\ DirUnits
      /\ CallIno /\ CallBlocks /\ CallNew /\ DirOK /\ DirCall /\ DataOK
    BY DEF PInv
<1>2. Working /\ Fail /\ UNCHANGED <<dBitmap, dInode, dData>>
    BY DEF IoError, Working
<1>3. bitmap \subseteq Blk
    BY <1>1 DEF TypeOK
<1>4. CASE op.step # "inode"
  <2>1. cache' = cache
      BY <1>4 DEF IoError
  <2>2. bitmap \subseteq bitmap' /\ bitmap' \subseteq Blk
    <3>1. CASE op.step # "alloc"
        BY <1>3, <3>1 DEF IoError
    <3>2. CASE op.step = "alloc"
      <4>1. bitmap' = bitmap \cup {Least(Blk \ bitmap)} /\ bitmap # Blk
          BY <3>2 DEF IoError
      <4>2. Blk \ bitmap \subseteq Nat /\ Blk \ bitmap # {}
        <5>1. \E b \in Blk : b \notin bitmap
            BY <1>3, <4>1, Zenon
        <5> QED
            BY <5>1 DEF Blk
      <4>3. Least(Blk \ bitmap) \in Blk \ bitmap
          BY <4>2, LeastIs
      <4> QED
          BY <1>3, <4>1, <4>3
    <3> QED
        BY <3>1, <3>2
  <2> QED
      BY <1>2, <1>4, <2>1, <2>2, FailInv
<1>5. CASE op.step = "inode"
  <2>1. cache' = [cache EXCEPT ![op.ino] = Grown] /\ bitmap' = bitmap /\ op' = Idle /\ made' = made
      BY <1>5 DEF IoError, Fail
  <2>2. PICK x \in Ino : x = op.ino
      BY <1>1, <1>2, CallIs
  <2>3. /\ Grown \in RawInode /\ cache[x] # NotCached
        /\ x = Root /\ cache[x].size = 0 /\ Len(op.buf) > 0 /\ op.off = 0 => Grown.size = Len(op.buf)
      BY <1>1, <1>2, <1>5, <2>2, GrownIs
  <2>4. cache \in [Ino -> RawInode \cup {NotCached}]
      BY <1>1 DEF TypeOK
  <2>5. /\ cache' \in [Ino -> RawInode \cup {NotCached}] /\ cache'[x] = Grown
        /\ \A i \in Ino \ {x} : cache'[i] = cache[i]
      BY <2>1, <2>2, <2>3, <2>4
  <2>6. /\ KindOK' /\ Owned' /\ Filled' /\ DirUnits'
        /\ \A i \in Ino, o \in Offset : Holds(i, o)' = Holds(i, o)
      BY <1>1, <1>2, <1>5, <2>1, <2>2, <2>5, GrowKept
  <2>7. \A i \in Ino, o \in Offset : DHolds(i, o)' = DHolds(i, o)
      BY <1>2 DEF DHolds, UnitIn, DPtr
  <2>8. DataOK' /\ allowed' \in [Ino -> [Offset -> SUBSET Unit]]
      BY <1>1, <1>2, <2>6, <2>7, FailData
  <2>9. torn' = torn
      BY <1>1, <1>2, <1>5 DEF Fail, TypeOK
  <2>10. TypeOK'
      BY <1>1, <1>2, <2>1, <2>5, <2>8, <2>9 DEF TypeOK
  <2>11. ~Working' /\ ~Creating' /\ CallIno' /\ CallBlocks' /\ CallNew' /\ DirCall'
      BY <2>1, IdleCall
  <2>12. DirOK'
    <3>1. CASE torn
        BY <2>9, <3>1 DEF DirOK
    <3>2. CASE ~torn /\ Creating
      <4>1. x = Root /\ op.off = 0 /\ Len(op.buf) > 0 /\ cache[Root].size = 0
          BY <1>1, <1>5, <2>2, <3>2 DEF CallIno, CallNew
      <4>2. cache'[Root].size = Len(op.buf)
          BY <2>3, <2>5, <4>1
      <4>3. (\A o \in Offset : Holds(Root, o)' = Holds(Root, o)) /\ dInode' = dInode
          BY <1>2, <2>6, Sizes
      <4> QED
          BY <1>5, <2>1, <2>11, <3>2, <4>2, <4>3, DirGrown
    <3>3. CASE ~torn /\ ~Creating
      <4>1. x # Root
          BY <1>1, <1>2, <2>2, <3>3, CallIs DEF CallIno, Creating
      <4>2. DirSize' = DirSize /\ DirSize \in Nat
          BY <1>1, <2>5, <2>11, <3>3, <4>1, RootSize, Sizes DEF DirSize
      <4>3. \A o \in 0..(DirSize - 1) : Holds(Root, o)' = Holds(Root, o)
          BY <1>1, <2>6, <3>3, RootSize, Sizes DEF DirSize
      <4> QED
          BY <1>1, <1>2, <2>1, <2>9, <4>2, <4>3, DirKept
    <3> QED
        BY <3>1, <3>2, <3>3
  <2> QED
      BY <2>6, <2>8, <2>10, <2>11, <2>12 DEF PInv
<1> QED
    BY <1>4, <1>5


LEMMA CrashInv ==
    ASSUME PInv, Crash
    PROVE  PInv'
<1>1. /\ TypeOK /\ KindOK /\ Owned /\ Filled /\ DirUnits /\ DirOK /\ DataOK
    BY DEF PInv
<1>2. /\ bitmap' = dBitmap /\ op' = Idle
      /\ cache' = [i \in Ino |-> IF i = Root THEN dInode[Root] ELSE NotCached]
      /\ allowed' = [i \in Ino |-> IF i = Root THEN allowed[i]
                                   ELSE [o \in Offset |-> {OnDisk(dInode[i])[o]}]]
      /\ UNCHANGED <<dBitmap, dInode, dData, made, torn>>
    BY DEF Crash
<1>3. ~Working' /\ ~Creating' /\ CallIno' /\ CallBlocks' /\ CallNew' /\ DirCall'
    BY <1>2, IdleCall
<1>4. \A i \in Ino : dInode[i] \in RawInode /\ dInode[i] # NotCached
    BY <1>1, TypeFacts, RawFacts
<1>5. /\ cache' \in [Ino -> RawInode \cup {NotCached}] /\ cache'[Root] = dInode[Root]
      /\ \A i \in Ino : i # Root => cache'[i] = NotCached
    BY <1>2, <1>4, Sizes
<1>6. /\ \A i \in Ino : Seen(i)' = dInode[i]
      /\ \A i \in Ino, k \in Index : Ptr(i, k)' = DPtr(i, k)
      /\ \A i, k : DPtr(i, k)' = DPtr(i, k)
    BY <1>2, <1>4, <1>5 DEF Seen, Ptr, DPtr
<1>7. /\ \A i \in Ino, o \in Offset : Holds(i, o)' = DHolds(i, o) /\ DHolds(i, o)' = DHolds(i, o)
    BY <1>2, <1>6, OffsetParts DEF Holds, DHolds, UnitIn
<1>8. \A i \in Ino, o \in Offset : DHolds(i, o) = Holds(i, o) \/ DHolds(i, o) = Zero
    BY <1>1, OffsetParts DEF Owned, Holds, DHolds, UnitIn
<1>9. /\ allowed' \in [Ino -> [Offset -> SUBSET Unit]]
      /\ \A i \in Ino \ {Root}, o \in Offset : allowed'[i][o] = {DHolds(i, o)}
  <2>1. allowed \in [Ino -> [Offset -> SUBSET Unit]]
      BY <1>1 DEF TypeOK
  <2>2. \A i \in Ino, o \in Offset : OnDisk(dInode[i])[o] = DHolds(i, o) /\ DHolds(i, o) \in Unit
      BY <1>1, OnDiskIs, UnitFacts
  <2>3. ASSUME NEW i \in Ino, i # Root
        PROVE  /\ allowed'[i] \in [Offset -> SUBSET Unit]
               /\ \A o \in Offset : allowed'[i][o] = {DHolds(i, o)}
    <3>1. allowed'[i] = [o \in Offset |-> {OnDisk(dInode[i])[o]}]
        BY <1>2, <2>3
    <3> QED
        BY <2>2, <3>1
  <2>4. allowed'[Root] = allowed[Root] /\ allowed' = [i \in Ino |-> allowed'[i]]
      BY <1>2, Sizes
  <2>5. \A i \in Ino : allowed'[i] \in [Offset -> SUBSET Unit]
      BY <2>1, <2>3, <2>4
  <2> QED
      BY <2>3, <2>4, <2>5
<1>10. TypeOK'
    BY <1>1, <1>2, <1>5, <1>9 DEF TypeOK
<1>11. KindOK'
  <2>1. \A i \in Ino : cache'[i] # NotCached => i = Root
      BY <1>5
  <2> QED
      BY <1>1, <1>2, <1>4, <1>5, <1>6, <2>1, Sizes DEF KindOK
<1>12. Owned'
  <2>1. \A i \in Ino, k \in Index : DPtr(i, k) = NoBlk \/ DPtr(i, k) = Ptr(i, k)
      BY <1>1 DEF Owned
  <2>2. \A i \in Ino, k \in Index : DPtr(i, k) \in dBitmap \cup {NoBlk}
      BY <1>1, <2>1 DEF Owned
  <2>3. \A i, j \in Ino, k, l \in Index :
          DPtr(i, k) # NoBlk /\ DPtr(i, k) = DPtr(j, l) => i = j /\ k = l
      BY <1>1, <2>1 DEF Owned
  <2> QED
    <3>1. dBitmap' = dBitmap /\ bitmap' = dBitmap
        BY <1>2
    <3>2. \A i \in Ino, k \in Index : Ptr(i, k)' = DPtr(i, k) /\ DPtr(i, k)' = DPtr(i, k)
        BY <1>6
    <3> QED
        BY <2>2, <2>3, <3>1, <3>2 DEF Owned
<1>13. Filled'
    BY <1>1, <1>2, <1>6 DEF Filled
<1>14. DirUnits'
  <2>1. \A e : InUse(e)' <=> InUse(e)
      BY <1>2 DEF InUse
  <2>2. ASSUME NEW o \in Offset, NEW e, Holds(Root, o)' = e PROVE e = Zero \/ InUse(e)
      BY <1>1, <1>7, <1>8, <2>2, Sizes DEF DirUnits
  <2> QED
      BY <2>1, <2>2 DEF DirUnits
<1>15. DataOK'
    BY <1>3, <1>7, <1>9 DEF DataOK
<1>16. DirOK'
  <2>1. SUFFICES ASSUME ~torn PROVE DirOK'
      BY <1>2 DEF DirOK
  <2> DEFINE n == dInode[Root].size
  <2>2. n \in Nat /\ n <= DirSize /\ n <= MaxSize
      BY <1>1, <2>1, Sizes, TypeFacts, RawFacts DEF DirOK
  <2>3. DirSize' = n /\ DirSize \in Nat
    <3>1. DirSize \in Int
      <4>1. CASE Creating
          BY <1>1, <4>1, CallIs DEF DirSize, Creating
      <4>2. CASE ~Creating
          BY <1>1, <4>2, RootSize DEF DirSize
      <4> QED
          BY <4>1, <4>2
    <3> QED
        BY <1>3, <1>5, <2>2, <3>1 DEF DirSize
  <2>4. \A o \in 0..(n - 1) : Holds(Root, o)' = Holds(Root, o) /\ o \in 0..(DirSize - 1)
    <3>1. ASSUME NEW o \in 0..(n - 1) PROVE Holds(Root, o)' = Holds(Root, o)
      <4>1. o \in Offset /\ DPtr(Root, o \div BLOCK_SIZE) # NoBlk
          BY <1>1, Sizes, ContentIs
      <4>2. DPtr(Root, o \div BLOCK_SIZE) = Ptr(Root, o \div BLOCK_SIZE)
          BY <1>1, <4>1, Sizes, OffsetParts DEF Owned
      <4> QED
          BY <1>7, <4>1, <4>2, Sizes DEF Holds, DHolds
    <3> QED
        BY <2>2, <2>3, <3>1
  <2> HIDE DEF n
  <2>5. \A o \in 0..(n - 1) : Holds(Root, o)' # Zero
      BY <1>1, <2>1, <2>4 DEF DirOK
  <2>6. ASSUME NEW o \in 0..(n - 1), NEW p \in 0..(n - 1),
               \/ Holds(Root, o)'.name = Holds(Root, p)'.name
               \/ Holds(Root, o)'.ino = Holds(Root, p)'.ino
        PROVE  o = p
      BY <1>1, <2>1, <2>4, <2>6 DEF DirOK
  <2>7. dInode'[Root].size = n /\ made' = made
      BY <1>2 DEF n
  <2>8. ASSUME NEW e \in made PROVE \E o \in 0..(n - 1) : Holds(Root, o)' = e
      BY <1>1, <2>1, <2>4 DEF DirOK, n
  <2> QED
      BY <2>2, <2>3, <2>5, <2>6, <2>7, <2>8 DEF DirOK
<1> QED
    BY <1>3, <1>10, <1>11, <1>12, <1>13, <1>14, <1>15, <1>16 DEF PInv

LEMMA WriteNewInodeInv ==
    ASSUME PInv, WriteNewInode
    PROVE  PInv'
<1>1. /\ TypeOK /\ KindOK /\ Owned /\ Filled /\ DirUnits
      /\ CallIno /\ CallBlocks /\ CallNew /\ DirOK /\ DirCall /\ DataOK
    BY DEF PInv
<1>2. /\ op.step = "create" /\ Working
      /\ dInode' = [dInode EXCEPT ![op.new] = NewInode("file")]
      /\ cache' = [cache EXCEPT ![Root].size = 0]
      /\ UNCHANGED <<dBitmap, dData, bitmap, made, allowed>>
    BY DEF WriteNewInode, Working
<1>3. Creating /\ op.ino = Root /\ op.off = 0
    BY <1>1, <1>2, CallIs DEF CallIno, Creating
<1>4. PICK y \in Ino : y = op.new
    BY <1>1, <1>2, CallIs
<1>5. cache[y] = NotCached /\ dInode[y].kind = "unused" /\ y # Root
    BY <1>1, <1>2, <1>3, <1>4 DEF CallNew, KindOK
<1>6. /\ NewInode("file") \in RawInode /\ NewInode("file").kind = "file" /\ NewInode("file").size = 0
      /\ \A k \in Index : NewInode("file").direct[k] = NoBlk
    BY NewInodeRaw
<1>7. /\ dInode \in [Ino -> RawInode] /\ cache \in [Ino -> RawInode \cup {NotCached}]
    BY <1>1 DEF TypeOK
<1>8. /\ dInode' \in [Ino -> RawInode] /\ dInode'[y] = NewInode("file")
      /\ \A i \in Ino \ {y} : dInode'[i] = dInode[i]
    BY <1>2, <1>4, <1>6, <1>7
<1> DEFINE raw == [cache[Root] EXCEPT !.size = 0]
<1>9. cache[Root] \in RawInode /\ Seen(Root) = cache[Root] /\ cache[Root] # NotCached
    BY <1>1, Sizes, TypeFacts DEF KindOK
<1>10. /\ raw \in RawInode /\ raw.size = 0 /\ raw.kind = cache[Root].kind
       /\ raw.direct = cache[Root].direct /\ raw # NotCached
  <2>1. 0 \in 0..(DIRECT_BLOCKS * BLOCK_SIZE)
      BY Sizes DEF MaxSize
  <2>2. /\ raw \in RawInode /\ raw.size = 0 /\ raw.kind = cache[Root].kind
        /\ raw.direct = cache[Root].direct
      BY <1>9, <2>1 DEF RawInode
  <2> HIDE DEF raw
  <2> QED
      BY <2>2, RawFacts
<1>11. cache' = [cache EXCEPT ![Root] = raw]
    BY <1>2
<1> HIDE DEF raw
<1>12. /\ cache' \in [Ino -> RawInode \cup {NotCached}] /\ cache'[Root] = raw
       /\ \A i \in Ino \ {Root} : cache'[i] = cache[i]
    BY <1>7, <1>10, <1>11, Sizes
<1>13. /\ Seen(Root)' = raw /\ Seen(y)' = NewInode("file") /\ Seen(y) = dInode[y]
       /\ \A i \in Ino \ {Root, y} : Seen(i)' = Seen(i)
    BY <1>5, <1>8, <1>10, <1>12 DEF Seen
<1>14. \A k \in Index : DPtr(y, k) = NoBlk
    BY <1>1, <1>5 DEF KindOK
<1>15. \A i \in Ino, k \in Index : Ptr(i, k)' = Ptr(i, k) /\ DPtr(i, k)' = DPtr(i, k)
  <2>1. ASSUME NEW k \in Index
        PROVE  /\ Ptr(y, k)' = Ptr(y, k) /\ DPtr(y, k)' = DPtr(y, k)
               /\ Ptr(Root, k)' = Ptr(Root, k)
      BY <1>6, <1>8, <1>9, <1>10, <1>13, <1>14 DEF Ptr, DPtr
  <2>2. \A i \in Ino \ {y}, k \in Index : DPtr(i, k)' = DPtr(i, k)
      BY <1>8 DEF DPtr
  <2>3. \A i \in Ino \ {Root, y}, k \in Index : Ptr(i, k)' = Ptr(i, k)
      BY <1>13 DEF Ptr
  <2> QED
      BY <2>1, <2>2, <2>3
<1>16. \A i \in Ino, o \in Offset : Holds(i, o)' = Holds(i, o) /\ DHolds(i, o)' = DHolds(i, o)
    BY <1>2, <1>15, OffsetParts DEF Holds, DHolds, UnitIn
<1>17. KindOK'
  <2>1. ASSUME NEW i \in Ino
        PROVE  /\ i # Root => dInode'[i].kind # "dir"
               /\ cache'[i] # NotCached => cache'[i].kind = dInode'[i].kind /\ dInode'[i].kind # "unused"
               /\ dInode'[i].kind = "unused" => \A k \in Index : DPtr(i, k)' = NoBlk
    <3>1. CASE i = y
        BY <1>5, <1>6, <1>8, <1>12, <3>1
    <3>2. CASE i = Root
        BY <1>1, <1>5, <1>8, <1>9, <1>10, <1>12, <3>2, Sizes DEF KindOK
    <3>3. CASE i # y /\ i # Root
        BY <1>1, <1>8, <1>12, <1>15, <3>3 DEF KindOK
    <3> QED
        BY <3>1, <3>2, <3>3
  <2>2. dInode'[Root].kind = "dir" /\ cache'[Root] # NotCached
      BY <1>1, <1>5, <1>8, <1>10, <1>12, Sizes DEF KindOK
  <2> QED
      BY <2>1, <2>2 DEF KindOK
<1>18. Owned'
    BY <1>1, <1>2, <1>15 DEF Owned
<1>19. Filled'
  <2>1. ASSUME NEW i \in Ino, NEW k \in Index, k * BLOCK_SIZE < dInode'[i].size PROVE DPtr(i, k)' # NoBlk
    <3>1. k * BLOCK_SIZE \in Nat
        BY Sizes DEF Index
    <3>2. i # y
        BY <1>6, <1>8, <2>1, <3>1
    <3> QED
        BY <1>1, <1>8, <1>15, <2>1, <3>2 DEF Filled
  <2>2. ASSUME NEW i \in Ino, NEW k \in Index, k * BLOCK_SIZE < Seen(i)'.size PROVE Ptr(i, k)' # NoBlk
    <3>1. k * BLOCK_SIZE \in Nat
        BY Sizes DEF Index
    <3>2. i # y /\ i # Root
        BY <1>6, <1>10, <1>13, <2>2, <3>1
    <3> QED
        BY <1>1, <1>13, <1>15, <2>2, <3>2 DEF Filled
  <2> QED
      BY <2>1, <2>2 DEF Filled
<1>20. \A e : InUse(e) => InUse(e)'
  <2>1. \A e \in Entry : e.ino \in Ino
      BY DEF Entry
  <2> QED
      BY <1>6, <1>8, <2>1 DEF InUse
<1>21. DirUnits'
    BY <1>1, <1>16, <1>20, Sizes DEF DirUnits
<1>22. \A i \in Ino \ {Root}, o \in Offset :
          Holds(i, o)' \in allowed'[i][o] /\ DHolds(i, o)' \in allowed'[i][o]
    BY <1>1, <1>2, <1>16 DEF DataOK
<1>23. CASE op' = Idle /\ torn' = TRUE
  <2>1. ~Working' /\ CallIno' /\ CallBlocks' /\ CallNew' /\ DirCall'
      BY <1>23, IdleCall
  <2>2. TypeOK'
      BY <1>1, <1>2, <1>8, <1>12, <1>23 DEF TypeOK
  <2>3. DirOK' /\ DataOK'
      BY <1>22, <1>23, <2>1 DEF DirOK, DataOK
  <2> QED
      BY <1>17, <1>18, <1>19, <1>21, <2>1, <2>2, <2>3 DEF PInv
<1>24. CASE /\ Needed(End) <= DIRECT_BLOCKS
            /\ op' = [op EXCEPT !.step = "alloc"] /\ UNCHANGED torn
  <2>1. op \in Calls /\ op.buf \in Seq(Unit) /\ Len(op.buf) \in Nat /\ End \in Nat
      BY <1>1, <1>2, CallIs
  <2>2. /\ op' \in Calls /\ op'.step = "alloc" /\ op'.what = op.what /\ op'.ino = op.ino
        /\ op'.off = op.off /\ op'.buf = op.buf /\ op'.new = op.new
      BY <1>24, <2>1 DEF Calls
  <2>3. Working' /\ Creating' /\ End' = End /\ NewEntry' = NewEntry
      BY <1>3, <2>2 DEF Working, Creating, End, NewEntry
  <2>4. End <= MaxSize
      BY <1>24, <2>1, NeededIs
  <2>5. CallIno'
    <3>1. cache'[op'.ino] # NotCached /\ op'.ino = Root /\ op'.what = "create" /\ op'.off = 0
        BY <1>3, <1>10, <1>12, <2>2 DEF Creating
    <3> QED
        BY <2>3, <2>4, <3>1 DEF CallIno
  <2>6. CallBlocks'
      BY <2>2 DEF CallBlocks
  <2>7. CallNew'
    <3>1. /\ Len(op.buf) > 0 /\ NewEntry \in Entry /\ NewEntry.ino = op.new
          /\ \A n \in 1..(Len(op.buf) - 1) : \A e : op.buf[n] = e => InUse(e)
        BY <1>1, <1>3 DEF CallNew
    <3>2. cache'[y] = NotCached /\ cache'[Root].size = 0
        BY <1>5, <1>10, <1>12
    <3> QED
        BY <1>4, <1>8, <1>20, <2>2, <2>3, <3>1, <3>2 DEF CallNew
  <2>8. TypeOK'
      BY <1>1, <1>2, <1>8, <1>12, <1>24, <2>2 DEF TypeOK, Calls
  <2>9. DataOK'
      BY <1>3, <1>22, <2>2 DEF DataOK, Creating
  <2>10. DirSize' = DirSize /\ DirSize \in Nat
      BY <1>1, <1>3, <2>1, <2>2, <2>3 DEF DirSize, CallNew
  <2>11. DirOK' /\ DirCall'
    <3>1. CASE torn
        BY <1>24, <3>1 DEF DirOK, DirCall
    <3>2. CASE ~torn
      <4>1. DirSize <= MaxSize
          BY <1>1, <3>2 DEF DirOK
      <4>2. \A o \in 0..(DirSize - 1) : Holds(Root, o)' = Holds(Root, o)
          BY <1>16, <2>10, <4>1, Sizes
      <4>3. dInode'[Root] = dInode[Root]
          BY <1>5, <1>8, Sizes
      <4>4. DirOK'
          BY <1>1, <1>2, <1>24, <2>10, <4>2, <4>3, DirKept
      <4>5. op'.step # "create" /\ (Creating' <=> Creating)
          BY <1>3, <2>2, <2>3
      <4>6. DirCall'
          BY <1>1, <1>24, <2>2, <2>10, <4>2, <4>5, DirCallKept
      <4> QED
          BY <4>4, <4>6
    <3> QED
        BY <3>1, <3>2
  <2> QED
      BY <1>17, <1>18, <1>19, <1>21, <2>5, <2>6, <2>7, <2>8, <2>9, <2>11 DEF PInv
<1> QED
    BY <1>23, <1>24 DEF WriteNewInode


LEMMA InitInv == Init => PInv
<1> SUFFICES ASSUME Init PROVE PInv
    OBVIOUS
<1>1. /\ dBitmap = {} /\ bitmap = {} /\ op = Idle /\ made = {} /\ torn = FALSE
      /\ dInode = [i \in Ino |-> NewInode(IF i = Root THEN "dir" ELSE "unused")]
      /\ dData = [b \in Blk |-> [j \in 0..(BLOCK_SIZE - 1) |-> Zero]]
      /\ cache = [i \in Ino |-> IF i = Root THEN dInode[Root] ELSE NotCached]
      /\ allowed = [i \in Ino |-> [o \in Offset |-> {Zero}]]
    BY DEF Init
<1>2. /\ \A i \in Ino : dInode[i] \in RawInode /\ dInode[i].size = 0 /\ dInode[i] # NotCached
      /\ \A i \in Ino \ {Root} : dInode[i].kind = "unused" /\ cache[i] = NotCached
      /\ dInode[Root].kind = "dir" /\ cache[Root] = dInode[Root]
      /\ \A i \in Ino, k \in Index : dInode[i].direct[k] = NoBlk
  <2>1. ASSUME NEW i \in Ino, i # Root
        PROVE  /\ dInode[i] = NewInode("unused") /\ cache[i] = NotCached
      BY <1>1, <2>1
  <2>2. dInode[Root] = NewInode("dir") /\ cache[Root] = dInode[Root]
      BY <1>1, Sizes
  <2>3. \A r \in {NewInode("unused"), NewInode("dir")} :
           r \in RawInode /\ r # NotCached /\ r.size = 0 /\ \A k \in Index : r.direct[k] = NoBlk
      BY NewInodeRaw, RawFacts
  <2>4. NewInode("unused").kind = "unused" /\ NewInode("dir").kind = "dir"
      BY NewInodeRaw
  <2> QED
      BY <2>1, <2>2, <2>3, <2>4
<1>3. \A i \in Ino : Seen(i) = dInode[i]
    BY <1>2 DEF Seen
<1>4. \A i \in Ino, k \in Index : Ptr(i, k) = NoBlk /\ DPtr(i, k) = NoBlk
    BY <1>2, <1>3 DEF Ptr, DPtr
<1>5. \A i \in Ino, o \in Offset : Holds(i, o) = Zero /\ DHolds(i, o) = Zero
    BY <1>4, OffsetParts DEF Holds, DHolds, UnitIn
<1>6. ~Working /\ ~Creating /\ CallIno /\ CallBlocks /\ CallNew /\ DirCall
  <2>1. op.step = "idle"
      BY <1>1 DEF Idle
  <2>2. ~Working /\ ~Creating
      BY <2>1 DEF Working, Creating
  <2> QED
      BY <2>2 DEF CallIno, CallBlocks, CallNew, DirCall
<1>7. TypeOK
  <2>1. dInode \in [Ino -> RawInode]
      BY <1>1, <1>2
  <2>2. cache \in [Ino -> RawInode \cup {NotCached}]
      BY <1>1, <1>2, Sizes
  <2>3. dData \in [Blk -> [0..(BLOCK_SIZE - 1) -> Unit]]
      BY <1>1 DEF Unit
  <2>4. allowed \in [Ino -> [Offset -> SUBSET Unit]]
      BY <1>1 DEF Unit
  <2> QED
      BY <1>1, <2>1, <2>2, <2>3, <2>4 DEF TypeOK
<1>8. KindOK
    BY <1>2, <1>4, Sizes DEF KindOK
<1>9. Owned
    BY <1>1, <1>4 DEF Owned
<1>10. Filled
  <2>1. \A k \in Index : ~(k * BLOCK_SIZE < 0)
      BY Sizes, Times DEF Index
  <2> QED
      BY <1>2, <1>3, <2>1 DEF Filled
<1>11. DirUnits
    BY <1>5, Sizes DEF DirUnits
<1>12. DirOK
  <2>1. DirSize = 0 /\ dInode[Root].size = 0
      BY <1>2, <1>6, Sizes DEF DirSize
  <2> QED
      BY <1>1, <2>1, Sizes DEF DirOK
<1>13. DataOK
  <2>1. \A i \in Ino, o \in Offset : allowed[i][o] = {Zero}
      BY <1>1
  <2> QED
      BY <1>5, <1>6, <2>1 DEF DataOK
<1> QED
    BY <1>6, <1>7, <1>8, <1>9, <1>10, <1>11, <1>12, <1>13 DEF PInv

LEMMA Stutter ==
    ASSUME PInv, UNCHANGED vars
    PROVE  PInv'
<1>1. UNCHANGED <<dBitmap, dInode, dData, bitmap, cache, op, made, allowed, torn>>
    BY DEF vars
<1>2. /\ \A i : Seen(i)' = Seen(i)
      /\ \A i, k : Ptr(i, k)' = Ptr(i, k) /\ DPtr(i, k)' = DPtr(i, k)
      /\ \A i, o : Holds(i, o)' = Holds(i, o) /\ DHolds(i, o)' = DHolds(i, o)
    BY <1>1 DEF Seen, Ptr, DPtr, Holds, DHolds, UnitIn
<1>3. /\ \A e : InUse(e)' <=> InUse(e)
      /\ (Working' <=> Working) /\ (Creating' <=> Creating)
      /\ End' = End /\ Span' = Span /\ NewEntry' = NewEntry /\ DirSize' = DirSize
    BY <1>1 DEF InUse, Working, Creating, End, Span, NewEntry, DirSize
<1>4. TypeOK'
    BY <1>1 DEF PInv, TypeOK
<1>5. KindOK' /\ Owned' /\ Filled' /\ DirUnits'
    BY <1>1, StateKept DEF PInv, Owned
<1>6. CallIno'
    BY <1>1, <1>3 DEF PInv, CallIno
<1>7. CallBlocks'
    BY <1>1, <1>2, <1>3, Zenon DEF PInv, CallBlocks
<1>8. CallNew'
    BY <1>1, <1>3 DEF PInv, CallNew
<1>9. DirOK' /\ DirCall'
    BY <1>1, <1>2, <1>3, Zenon DEF PInv, DirOK, DirCall
<1>10. DataOK'
    BY <1>1, <1>2, <1>3 DEF PInv, DataOK
<1> QED
    BY <1>4, <1>5, <1>6, <1>7, <1>8, <1>9, <1>10 DEF PInv

\* PInv is inductive: it holds of a new image, and no step of a call, no
\* refused write and no crash breaks it.
THEOREM Invariant == Spec => []PInv
<1>1. Init => PInv
    BY InitInv
<1>2. PInv /\ [Next]_vars => PInv'
  <2> SUFFICES ASSUME PInv, [Next]_vars PROVE PInv'
      OBVIOUS
  <2>1. ASSUME NEW name \in Name, Lookup(name) \/ Create(name) \/ Unlink(name) PROVE PInv'
      BY <2>1, LookupInv, CreateInv, UnlinkInv
  <2>2. ASSUME NEW ino \in Ino, NEW off \in Offset, NEW buf \in Buffers, WriteAt(ino, off, buf)
        PROVE  PInv'
      BY <2>2, WriteAtInv
  <2>3. CASE WriteNewInode
      BY <2>3, WriteNewInodeInv
  <2>4. CASE AllocBlock
      BY <2>4, AllocBlockInv
  <2>5. CASE ZeroBlock
      BY <2>5, ZeroBlockInv
  <2>6. CASE WriteBlock
      BY <2>6, WriteBlockInv
  <2>7. CASE Commit
      BY <2>7, CommitInv
  <2>8. CASE IoError
      BY <2>8, IoErrorInv
  <2>9. CASE Crash
      BY <2>9, CrashInv
  <2>10. CASE UNCHANGED vars
      BY <2>10, Stutter
  <2> QED
      BY <2>1, <2>2, <2>3, <2>4, <2>5, <2>6, <2>7, <2>8, <2>9, <2>10 DEF Next
<1> QED
    BY <1>1, <1>2, PTL DEF Spec

LEMMA ViewIs == \A i \in Ino : View[i] = Seen(i)
    BY DEF View, Seen

\* What is on the disk, in memory and in the call under way has the right shape
\* at every moment: a call never makes an inode larger than its direct blocks,
\* and never one that points outside the data area.
THEOREM TypeHolds == Spec => []TypeOK
<1>1. PInv => TypeOK
    BY DEF PInv
<1> QED
    BY <1>1, Invariant, PTL

\* alloc_data_block writes the bitmap before the block is used and the inode is
\* written last, so whatever is refused or lost in between, every block that an
\* inode points to is marked, and belongs to that inode alone.
THEOREM BlocksOwnedHolds == Spec => []BlocksOwned
<1>1. PInv => BlocksOwned
  <2> SUFFICES ASSUME PInv PROVE BlocksOwned
      OBVIOUS
  <2>1. Owned
      BY DEF PInv
  <2>2. Refs(dInode) \subseteq dBitmap
    <3>1. \A i \in Ino, k \in Index : dInode[i].direct[k] \in dBitmap \cup {NoBlk}
        BY <2>1 DEF Owned, DPtr
    <3> QED
        BY <3>1 DEF Refs
  <2>3. Refs(View) \subseteq bitmap /\ dBitmap \subseteq bitmap
    <3>1. \A i \in Ino, k \in Index : View[i].direct[k] \in dBitmap \cup {NoBlk}
        BY <2>1, ViewIs DEF Owned, Ptr
    <3> QED
        BY <2>1, <3>1 DEF Refs, Owned
  <2>4. ASSUME NEW i \in Ino, NEW j \in Ino, NEW k \in Index, NEW l \in Index
        PROVE  /\ View[i].direct[k] # NoBlk /\ View[i].direct[k] = View[j].direct[l] => i = j /\ k = l
               /\ dInode[i].direct[k] \in {NoBlk, View[i].direct[k]}
      BY <2>1, ViewIs DEF Owned, Ptr, DPtr
  <2> QED
      BY <2>2, <2>3, <2>4 DEF BlocksOwned
<1> QED
    BY <1>1, Invariant, PTL

\* The size of an inode grows only when it has a block for every unit below the
\* new size, so read_file_at never meets a null pointer.
THEOREM NoHolesHolds == Spec => []NoHoles
<1>1. PInv => NoHoles
    BY ViewIs DEF PInv, NoHoles, Filled, Ptr, DPtr
<1> QED
    BY <1>1, Invariant, PTL

\* The directory on the disk, entry by entry.
LEMMA DiskEntries ==
    ASSUME PInv, ~torn
    PROVE  /\ dInode[Root].size \in Nat /\ dInode[Root].size <= DirSize /\ DirSize \in Int
           /\ Entries(dInode[Root]) = [n \in 1..dInode[Root].size |-> Holds(Root, n - 1)]
           /\ \A n \in 1..dInode[Root].size : InUse(Holds(Root, n - 1))
<1> DEFINE r == dInode[Root]
<1>1. TypeOK /\ KindOK /\ Owned /\ Filled /\ DirUnits /\ DirOK
    BY DEF PInv
<1>2. r \in RawInode /\ r.size \in Nat
    BY <1>1, Sizes, TypeFacts, RawFacts
<1>3. DirSize \in Int /\ r.size <= DirSize
  <2>1. ASSUME Creating PROVE DirSize \in Int
      BY <1>1, <2>1, CallIs DEF DirSize, Creating
  <2>2. ASSUME ~Creating PROVE DirSize \in Int
      BY <1>1, <2>2, RootSize DEF DirSize
  <2>3. dInode[Root].size <= DirSize
      BY <1>1 DEF DirOK
  <2>4. DirSize \in Int
      BY <2>1, <2>2
  <2> QED
      BY <2>3, <2>4
<1>4. ASSUME NEW o \in 0..(r.size - 1)
      PROVE  Content(r)[o] = Holds(Root, o) /\ Holds(Root, o) # Zero /\ InUse(Holds(Root, o))
  <2>1. o \in Offset /\ DPtr(Root, o \div BLOCK_SIZE) # NoBlk /\ Content(r)[o] = DHolds(Root, o)
      BY <1>1, Sizes, ContentIs
  <2>2. DPtr(Root, o \div BLOCK_SIZE) = Ptr(Root, o \div BLOCK_SIZE)
      BY <1>1, <2>1, Sizes, OffsetParts DEF Owned
  <2>3. DHolds(Root, o) = Holds(Root, o)
      BY <2>2 DEF DHolds, Holds
  <2>4. o \in 0..(DirSize - 1)
      BY <1>2, <1>3
  <2>5. Holds(Root, o) # Zero
      BY <1>1, <2>4 DEF DirOK
  <2>6. InUse(Holds(Root, o))
      BY <1>1, <2>1, <2>5 DEF DirUnits
  <2> QED
      BY <2>1, <2>3, <2>5, <2>6
<1>5. PICK end \in 0..r.size :
              /\ Entries(r) = [n \in 1..end |-> Content(r)[n - 1]]
              /\ end = r.size \/ (end < r.size /\ Content(r)[end] = Zero)
    BY <1>2, EntriesIs
<1> HIDE DEF r
<1>6. end = r.size
    BY <1>2, <1>4, <1>5
<1>7. \A n \in 1..r.size : n - 1 \in 0..(r.size - 1)
    BY <1>2
<1>8. Entries(r) = [n \in 1..r.size |-> Holds(Root, n - 1)]
    BY <1>4, <1>5, <1>6, <1>7
<1>9. \A n \in 1..r.size : InUse(Holds(Root, n - 1))
    BY <1>4, <1>7
<1> QED
    BY <1>2, <1>3, <1>8, <1>9 DEF r

\* create writes the new inode before the entry that names it, and lists neither
\* a name nor an inode that the directory has: as long as no create has failed
\* halfway, the directory on the disk names each file once, and only files.
THEOREM NoDanglingHolds == Spec => []NoDangling
<1>1. PInv => NoDangling
  <2> SUFFICES ASSUME PInv, ~torn PROVE NoDangling
      BY DEF NoDangling
  <2> DEFINE es == Entries(dInode[Root])
             m  == dInode[Root].size
  <2>1. /\ m \in Nat /\ m <= DirSize /\ DirSize \in Int
        /\ es = [n \in 1..m |-> Holds(Root, n - 1)]
        /\ \A n \in 1..m : InUse(Holds(Root, n - 1))
      BY DiskEntries
  <2>2. DirOK
      BY DEF PInv
  <2> HIDE DEF es, m
  <2>3. DOMAIN es = 1..m /\ \A n \in 1..m : es[n] = Holds(Root, n - 1)
      BY <2>1
  <2>4. \A n \in DOMAIN es : es[n] \in Entry /\ dInode[es[n].ino].kind = "file"
      BY <2>1, <2>3 DEF InUse
  <2>5. ASSUME NEW i \in DOMAIN es, NEW j \in DOMAIN es, es[i].name = es[j].name \/ es[i].ino = es[j].ino
        PROVE  i = j
    <3>1. i - 1 \in 0..(DirSize - 1) /\ j - 1 \in 0..(DirSize - 1) /\ i \in Int /\ j \in Int
        BY <2>1, <2>3
    <3>2. i - 1 = j - 1
        BY <2>2, <2>3, <2>5, <3>1 DEF DirOK
    <3> QED
        BY <3>1, <3>2
  <2> QED
      BY <2>4, <2>5 DEF NoDangling, es
<1> QED
    BY <1>1, Invariant, PTL

\* A create returns after the inode of the directory is on the disk, and a later
\* one writes the same entries to the same units again: as long as no create has
\* failed halfway, what was created stays listed on the disk through crashes.
THEOREM DirectoryDurableHolds == Spec => []DirectoryDurable
<1>1. PInv => DirectoryDurable
  <2> SUFFICES ASSUME PInv, ~torn, NEW e \in made PROVE e \in Listed(dInode[Root])
      BY DEF DirectoryDurable
  <2> DEFINE es == Entries(dInode[Root])
             m  == dInode[Root].size
  <2>1. m \in Nat /\ es = [n \in 1..m |-> Holds(Root, n - 1)]
      BY DiskEntries
  <2>2. PICK o \in 0..(m - 1) : Holds(Root, o) = e
      BY DEF PInv, DirOK
  <2> HIDE DEF es, m
  <2>3. o + 1 \in DOMAIN es /\ es[o + 1] = e
    <3>1. o + 1 \in 1..m /\ (o + 1) - 1 = o
        BY <2>1
    <3> QED
        BY <2>1, <2>2, <3>1
  <2> QED
      BY <2>3 DEF Listed, es
<1> QED
    BY <1>1, Invariant, PTL

\* Every unit below the size of a file on the disk holds what the last write of it
\* that returned has put there, or what a later write of the same unit has that
\* was refused or cut short: no crash, no call on another file and no write beside
\* it changes the unit.
THEOREM DataDurableHolds == Spec => []DataDurable
<1>1. PInv => DataDurable
  <2> SUFFICES ASSUME PInv, NEW i \in Ino, dInode[i].kind = "file", NEW o \in 0..(dInode[i].size - 1)
               PROVE  Content(dInode[i])[o] \in allowed[i][o]
      BY DEF DataDurable
  <2>1. TypeOK /\ KindOK /\ Filled /\ DataOK
      BY DEF PInv
  <2>2. i # Root
      BY <2>1 DEF KindOK
  <2>3. o \in Offset /\ Content(dInode[i])[o] = DHolds(i, o)
      BY <2>1, ContentIs
  <2> QED
      BY <2>1, <2>2, <2>3 DEF DataOK
<1> QED
    BY <1>1, Invariant, PTL

=============================================================================
