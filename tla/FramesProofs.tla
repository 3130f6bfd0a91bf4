---------------------------- MODULE FramesProofs ----------------------------
(***************************************************************************)
(* Proofs about Frames: until an install_pages is torn, no frame has two   *)
(* holders, the bitmap is exact and so is the count of free frames, for    *)
(* every size of memory, every number of tasks and every layout of pages.  *)
(***************************************************************************)
EXTENDS Frames, FiniteSetTheorems, TLAPS

Base == Reserved \cup Heap      \* the frames that are taken at boot

\* Frame f is referred to by root a, by table b of task a, by page b of task a,
\* by place b of message a, or by place a of the message that is being mapped.
RootRef(f, a)     == a \in Task /\ root[a] = f
TableRef(f, a, b) == a \in Task /\ b \in Regions /\ tables[a][b] = f
PageRef(f, a, b)  == a \in Task /\ b \in VPage /\ pages[a][b].frame = f
MsgRef(f, a, b)   == a \in DOMAIN queue /\ b \in DOMAIN queue[a] /\ queue[a][b] = f
HandRef(f, a)     == /\ call.op = "install" /\ a \in (call.done + 1)..Len(call.frames)
                     /\ call.frames[a] = f

Ref(f, k, a, b) ==
    \/ k = "root"    /\ b = 0 /\ RootRef(f, a)
    \/ k = "table"   /\ TableRef(f, a, b)
    \/ k = "page"    /\ PageRef(f, a, b)
    \/ k = "message" /\ MsgRef(f, a, b)
    \/ k = "hand"    /\ b = 0 /\ HandRef(f, a)

\* The one reference to frame f is the given one.
Held(f, k, a, b) ==
    /\ f \in used /\ f \notin Base /\ f \notin leaked
    /\ \A k2, a2, b2 : Ref(f, k2, a2, b2) <=> k2 = k /\ a2 = a /\ b2 = b

\* Nothing refers to frame f: it is free, or taken or lost for good.
Unheld(f) ==
    /\ \A k, a, b : ~Ref(f, k, a, b)
    /\ f \in used <=> f \in Base \/ f \in leaked

FrameOK(f) == Unheld(f) \/ \E k, a, b : Held(f, k, a, b)

\* The pages that a call in its loop is about to map, and the tables and pages
\* of a task that does not exist, are empty.
CallOK ==
    /\ call # Idle => root[call.task] # NoFrame
    /\ call.op = "spawn" =>
          \A w \in VPage : w >= call.page => pages[call.task][w] = NoPage
    /\ call.op = "install" =>
          /\ call.done < Len(call.frames)
          /\ \A j \in call.done..(Len(call.frames) - 1) :
                call.va + j \in VPage /\ pages[call.task][call.va + j] = NoPage
TaskOK ==
    \A t \in Task : root[t] = NoFrame =>
        /\ \A r \in Regions : tables[t][r] = NoFrame
        /\ \A v \in VPage : pages[t][v] = NoPage

FInv ==
    /\ TypeOK
    /\ freeFrames = Cardinality(Frame \ used)
    /\ \A f \in Frame : FrameOK(f)
    /\ \A m \in DOMAIN queue : queue[m] # <<>>
    /\ TaskOK /\ CallOK

----------------------------------------------------------------------------
(* Operators *)

LEMMA LeastIs ==
    ASSUME NEW S, S \subseteq Nat, S # {}
    PROVE  Least(S) \in S /\ \A y \in S : Least(S) <= y
<1>1. \E x \in S : \A y \in S : ~(<<y, x>> \in OpToRel(<, Nat))
    BY NatLessThanWellFounded, WFMin, Zenon
<1>2. PICK x \in S : \A y \in S : ~(<<y, x>> \in OpToRel(<, Nat))
    BY <1>1, Zenon
<1>3. ASSUME NEW y \in S PROVE x <= y
  <2>1. y \in Nat /\ x \in Nat /\ ~(<<y, x>> \in OpToRel(<, Nat))
      BY <1>2, Zenon
  <2>2. ASSUME y < x PROVE FALSE
    <3>1. <<y, x>> \in Nat \X Nat /\ <<y, x>>[1] < <<y, x>>[2]
        BY <2>1, <2>2, Zenon
    <3> QED
        BY Zenon, <2>1, <3>1 DEF OpToRel
  <2>3. y \in Nat /\ x \in Nat
      OBVIOUS
  <2> QED
      BY <2>2, <2>3
<1> QED
    BY <1>3, Zenon DEF Least

LEMMA AllocOneIs ==
    ASSUME NEW u, NEW h PROVE AllocOne(u, h) \in (Frame \ u) \cup {NoFrame}
<1> DEFINE free == Frame \ u
           from == {f \in free : f >= h}
<1>1. free \subseteq Nat /\ from \subseteq Nat
    BY FramesAssumption DEF Frame
<1>2. from # {} => Least(from) \in from
    BY <1>1, LeastIs
<1>3. free # {} => Least(free) \in free
    BY <1>1, LeastIs
<1> QED
    BY <1>2, <1>3 DEF AllocOne

LEMMA BaseFrames == Base \subseteq Frame /\ NoFrame \notin Frame /\ 0 \in Frame
<1>1. Usable \subseteq Nat /\ 0 \in Frame /\ NoFrame \notin Frame
  <2>1. PICK u \in Frame : u \in Usable
      BY FramesAssumption
  <2>2. NFrames \in Nat /\ u \in 0..(NFrames - 1)
      BY FramesAssumption DEF Frame
  <2> QED
      BY <2>2, FramesAssumption DEF Frame, NoFrame
<1>2. Least(Usable) \in Usable
    BY <1>1, LeastIs, FramesAssumption, Zenon
<1> QED
    BY <1>1, <1>2, FramesAssumption, BootAssumption, Zenon DEF Base, Reserved

\* Counting frames.
LEMMA Finite == IsFiniteSet(Frame) /\ \A S \in SUBSET Frame : IsFiniteSet(S) /\ Cardinality(S) \in Nat
<1>1. IsFiniteSet(Frame)
    BY FS_Interval, FramesAssumption DEF Frame
<1> QED
    BY <1>1, FS_Subset, FS_CardinalityType

LEMMA CountTake ==
    ASSUME NEW u \in SUBSET Frame, NEW f \in Frame \ u
    PROVE  Cardinality(Frame \ (u \cup {f})) = Cardinality(Frame \ u) - Cardinality({f})
<1>1. Frame \ (u \cup {f}) = (Frame \ u) \ {f}
    OBVIOUS
<1>2. IsFiniteSet(Frame \ u) /\ Cardinality({f}) = 1
    BY Finite, FS_Singleton
<1> QED
    BY <1>1, <1>2, FS_RemoveElement

LEMMA CountTakeTwo ==
    ASSUME NEW u \in SUBSET Frame, NEW f \in Frame \ u, NEW g \in Frame \ (u \cup {f})
    PROVE  Cardinality(Frame \ (u \cup {f, g})) = Cardinality(Frame \ u) - Cardinality({f, g})
<1>1. Cardinality(Frame \ (u \cup {f})) = Cardinality(Frame \ u) - 1
    BY CountTake, FS_Singleton, Zenon
<1>2. Cardinality(Frame \ ((u \cup {f}) \cup {g})) = Cardinality(Frame \ (u \cup {f})) - 1
    BY CountTake, FS_Singleton, Zenon
<1>3. u \cup {f, g} = (u \cup {f}) \cup {g} /\ {f, g} = {f} \cup {g}
    OBVIOUS
<1>4. Cardinality({f, g}) = 2
  <2>1. IsFiniteSet({f}) /\ Cardinality({f}) = 1 /\ g \notin {f}
      BY FS_Singleton, Zenon
  <2>2. Cardinality({f} \cup {g}) = Cardinality({f}) + 1
      BY <2>1, FS_AddElement, Zenon
  <2>3. Cardinality({f, g}) = Cardinality({f} \cup {g})
      BY <1>3, Zenon
  <2> QED
      BY <2>1, <2>2, <2>3
<1>5. Cardinality(Frame \ u) \in Nat
    BY Finite
<1>6. Cardinality(Frame \ (u \cup {f, g})) = Cardinality(Frame \ (u \cup {f})) - 1
    BY <1>2, <1>3, Zenon
<1> QED
    BY <1>1, <1>4, <1>5, <1>6

LEMMA CountFree ==
    ASSUME NEW u \in SUBSET Frame, NEW gone \in SUBSET u
    PROVE  Cardinality(Frame \ (u \ gone)) = Cardinality(Frame \ u) + Cardinality(gone)
<1>1. Frame \ (u \ gone) = (Frame \ u) \cup gone /\ (Frame \ u) \cap gone = {}
    OBVIOUS
<1>2. /\ IsFiniteSet(Frame \ u) /\ Cardinality(Frame \ u) \in Nat
      /\ IsFiniteSet(gone) /\ Cardinality(gone) \in Nat
    BY Finite
<1>3. Cardinality((Frame \ u) \cup gone)
         = Cardinality(Frame \ u) + Cardinality(gone) - Cardinality((Frame \ u) \cap gone)
    BY <1>2, FS_Union
<1>4. Cardinality((Frame \ u) \cap gone) = 0
    BY <1>1, FS_EmptySet, Zenon
<1>5. Cardinality(Frame \ (u \ gone)) = Cardinality((Frame \ u) \cup gone)
    BY <1>1, Zenon
<1> QED
    BY <1>2, <1>3, <1>4, <1>5

LEMMA CountDistinct ==
    ASSUME NEW fs \in Seq(Frame), \A i, j \in DOMAIN fs : fs[i] = fs[j] => i = j
    PROVE  Cardinality({fs[i] : i \in DOMAIN fs}) = Len(fs)
<1> DEFINE S == {fs[i] : i \in DOMAIN fs}
<1>1. Len(fs) \in Nat /\ DOMAIN fs = 1..Len(fs)
    OBVIOUS
<1>2. fs \in [1..Len(fs) -> S]
    BY <1>1
<1>3. fs \in Bijection(1..Len(fs), S)
    BY <1>1, <1>2 DEF Bijection, Injection, Surjection, IsInjective
<1>4. ExistsBijection(1..Len(fs), S)
    BY <1>3 DEF ExistsBijection
<1> HIDE DEF S
<1>5. Cardinality(S) = Len(fs)
    BY <1>1, <1>4, FS_CountingElements
<1> QED
    BY <1>5 DEF S

----------------------------------------------------------------------------
(* One frame in one step *)

LEMMA RefSame ==
    ASSUME NEW f,
           \A a : RootRef(f, a)' <=> RootRef(f, a),
           \A a, b : TableRef(f, a, b)' <=> TableRef(f, a, b),
           \A a, b : PageRef(f, a, b)' <=> PageRef(f, a, b),
           \A a, b : MsgRef(f, a, b)' <=> MsgRef(f, a, b),
           \A a : HandRef(f, a)' <=> HandRef(f, a)
    PROVE  \A k, a, b : Ref(f, k, a, b)' <=> Ref(f, k, a, b)
<1> SUFFICES ASSUME NEW k, NEW a, NEW b PROVE Ref(f, k, a, b)' <=> Ref(f, k, a, b)
    OBVIOUS
<1> QED
    BY DEF Ref

LEMMA FrameSame ==
    ASSUME NEW f, FrameOK(f),
           \A k, a, b : Ref(f, k, a, b)' <=> Ref(f, k, a, b),
           f \in used' <=> f \in used, f \in leaked' <=> f \in leaked
    PROVE  FrameOK(f)'
<1>1. CASE Unheld(f)
  <2>1. Unheld(f)'
      BY <1>1, Zenon DEF Unheld, Base
  <2> QED
      BY <2>1 DEF FrameOK
<1>2. ASSUME NEW k, NEW a, NEW b, Held(f, k, a, b) PROVE FrameOK(f)'
  <2>1. Held(f, k, a, b)'
      BY <1>2, Zenon DEF Held, Base
  <2> QED
      BY <2>1, Zenon DEF FrameOK
<1> QED
    BY <1>1, <1>2 DEF FrameOK

\* A frame that is not in use is referred to by nothing, and a frame that
\* something refers to is in use and has no other reference.
LEMMA FreeUnheld ==
    ASSUME NEW f, FrameOK(f), f \notin used
    PROVE  Unheld(f) /\ f \notin Base /\ f \notin leaked /\ \A k, a, b : ~Ref(f, k, a, b)
    BY Zenon DEF FrameOK, Unheld, Held

LEMMA RefHeld ==
    ASSUME NEW f, FrameOK(f), NEW k, NEW a, NEW b, Ref(f, k, a, b)
    PROVE  Held(f, k, a, b)
<1>1. PICK k2, a2, b2 : Held(f, k2, a2, b2)
    BY Zenon DEF FrameOK, Unheld
<1>2. k = k2 /\ a = a2 /\ b = b2
    BY <1>1, Zenon DEF Held
<1> QED
    BY <1>1, <1>2, Zenon

LEMMA InstallCall ==
    ASSUME TypeOK, call.op = "install"
    PROVE  call \in [op : {"install"}, task : Task, va : Window, frames : Seq(Frame), done : Nat]
<1>1. \/ call = Idle
      \/ call \in [op : {"spawn"}, task : Task, page : Image]
      \/ call \in [op : {"install"}, task : Task, va : Window, frames : Seq(Frame), done : Nat]
    BY DEF TypeOK
<1>2. Idle.op # "install"
    BY DEF Idle
<1> QED
    BY <1>1, <1>2

LEMMA TableFacts ==
    ASSUME TypeOK, NEW t \in Task, NEW r \in Regions
    PROVE  tables[t][r] \in Frame \cup {NoFrame}
<1>1. tables \in [Task -> [Regions -> Frame \cup {NoFrame}]]
    BY DEF TypeOK
<1> QED
    BY <1>1

LEMMA TailIs ==
    ASSUME NEW S, NEW s \in Seq(S), NEW d \in Nat, d + 1 <= Len(s)
    PROVE  /\ Len(SubSeq(s, d + 1, Len(s))) = Len(s) - d
           /\ DOMAIN SubSeq(s, d + 1, Len(s)) = 1..(Len(s) - d)
           /\ \A i \in 1..(Len(s) - d) : SubSeq(s, d + 1, Len(s))[i] = s[d + i]
    OBVIOUS

LEMMA PageFacts ==
    ASSUME TypeOK, NEW t \in Task, NEW v \in VPage
    PROVE  /\ pages[t][v].frame \in Frame \cup {NoFrame} /\ pages[t][v].exec \in BOOLEAN
           /\ pages[t][v] = NoPage <=> pages[t][v].frame = NoFrame
           /\ pages[t][v] \in [frame : Frame, exec : BOOLEAN] \cup {NoPage}
<1>1. pages[t][v] \in [frame : Frame, exec : BOOLEAN] \cup {NoPage}
    BY DEF TypeOK
<1>2. NoPage.frame = NoFrame /\ NoPage.exec \in BOOLEAN /\ NoFrame \notin Frame
    BY BaseFrames DEF NoPage
<1>3. CASE pages[t][v] = NoPage
    BY <1>1, <1>2, <1>3
<1>4. CASE pages[t][v] \in [frame : Frame, exec : BOOLEAN]
  <2>1. pages[t][v].frame \in Frame /\ pages[t][v].exec \in BOOLEAN
      BY <1>4
  <2> QED
      BY <1>1, <1>2, <2>1, Zenon
<1> QED
    BY <1>1, <1>3, <1>4

\* What TakeFrames and FreeFrames make of the bitmap, the hint and the count.
LEMMA TakeOne ==
    ASSUME FInv, NEW f \in Frame \ used, TakeFrames({f}, f)
    PROVE  /\ used' = used \cup {f} /\ used' \subseteq Frame
           /\ hint' \in 0..NFrames /\ freeFrames' \in Nat
           /\ freeFrames' = Cardinality(Frame \ used')
<1>1. used' = used \cup {f} /\ hint' = f + 1 /\ freeFrames' = freeFrames - Cardinality({f})
    BY DEF TakeFrames
<1>2. used \in SUBSET Frame /\ freeFrames = Cardinality(Frame \ used)
    BY DEF FInv, TypeOK
<1>3. Cardinality(Frame \ used') = Cardinality(Frame \ used) - Cardinality({f})
    BY <1>1, <1>2, CountTake, Zenon
<1>4. used' \in SUBSET Frame
    BY <1>1, <1>2
<1>5. Cardinality(Frame \ used') \in Nat
    BY <1>4, Finite
<1>6. hint' \in 0..NFrames
    BY <1>1, FramesAssumption DEF Frame
<1> QED
    BY <1>1, <1>2, <1>3, <1>4, <1>5, <1>6, Zenon

LEMMA TakeTwo ==
    ASSUME FInv, NEW f \in Frame \ used, NEW g \in Frame \ (used \cup {f}), TakeFrames({f, g}, g)
    PROVE  /\ used' = used \cup {f, g} /\ used' \subseteq Frame
           /\ hint' \in 0..NFrames /\ freeFrames' \in Nat
           /\ freeFrames' = Cardinality(Frame \ used')
<1>1. used' = used \cup {f, g} /\ hint' = g + 1 /\ freeFrames' = freeFrames - Cardinality({f, g})
    BY DEF TakeFrames
<1>2. used \in SUBSET Frame /\ freeFrames = Cardinality(Frame \ used)
    BY DEF FInv, TypeOK
<1>3. Cardinality(Frame \ used') = Cardinality(Frame \ used) - Cardinality({f, g})
    BY <1>1, <1>2, CountTakeTwo, Zenon
<1>4. used' \in SUBSET Frame
    BY <1>1, <1>2
<1>5. Cardinality(Frame \ used') \in Nat
    BY <1>4, Finite
<1>6. hint' \in 0..NFrames
    BY <1>1, FramesAssumption DEF Frame
<1> QED
    BY <1>1, <1>2, <1>3, <1>4, <1>5, <1>6, Zenon

LEMMA FreeAll ==
    ASSUME FInv, NEW fs \in Seq(Frame), FreeFrames(fs),
           \A i \in DOMAIN fs : fs[i] \in used,
           \A i, j \in DOMAIN fs : fs[i] = fs[j] => i = j
    PROVE  /\ used' = used \ {fs[i] : i \in DOMAIN fs} /\ used' \subseteq Frame
           /\ hint' \in 0..NFrames /\ freeFrames' \in Nat
           /\ freeFrames' = Cardinality(Frame \ used')
<1> DEFINE gone == {fs[i] : i \in DOMAIN fs}
<1>1. /\ used' = used \ gone /\ hint' = Least(gone \cup {hint})
      /\ freeFrames' = freeFrames + Len(fs)
    BY Zenon DEF FreeFrames
<1>2. used \in SUBSET Frame /\ freeFrames = Cardinality(Frame \ used)
    BY DEF FInv, TypeOK
<1>3. gone \in SUBSET used
    OBVIOUS
<1>4. Cardinality(gone) = Len(fs)
    BY CountDistinct, Zenon
<1>5. hint \in 0..NFrames /\ Frame \subseteq 0..NFrames
    BY FramesAssumption DEF FInv, TypeOK, Frame
<1> HIDE DEF gone
<1>6. Cardinality(Frame \ used') = Cardinality(Frame \ used) + Cardinality(gone)
    BY <1>1, <1>2, <1>3, CountFree, Zenon
<1>7. used' \in SUBSET Frame
    BY <1>1, <1>2
<1>8. Cardinality(Frame \ used') \in Nat
    BY <1>7, Finite
<1>9. hint' \in 0..NFrames
  <2>1. gone \cup {hint} \subseteq 0..NFrames
      BY <1>2, <1>3, <1>5
  <2>2. gone \cup {hint} \subseteq Nat /\ gone \cup {hint} # {}
      BY <2>1, FramesAssumption
  <2>3. Least(gone \cup {hint}) \in gone \cup {hint}
      BY <2>2, LeastIs
  <2> QED
      BY <1>1, <2>1, <2>3
<1>10. freeFrames' = Cardinality(Frame \ used')
    BY <1>1, <1>2, <1>4, <1>6, Zenon
<1>11. used' = used \ {fs[i] : i \in DOMAIN fs}
    BY <1>1 DEF gone
<1> QED
    BY <1>7, <1>8, <1>9, <1>10, <1>11, Zenon

----------------------------------------------------------------------------
(* The actions *)

LEMMA SpawnInv ==
    ASSUME FInv, NEW t \in Task, Spawn(t)
    PROVE  FInv'
<1> DEFINE f0 == AllocOne(used, hint)
<1>0. /\ call = Idle /\ root[t] = NoFrame /\ f0 # NoFrame /\ TakeFrames({f0}, f0)
      /\ root' = [root EXCEPT ![t] = f0]
      /\ call' = [op |-> "spawn", task |-> t, page |-> 1]
      /\ UNCHANGED <<tables, pages, queue, leaked, torn>>
    BY DEF Spawn
<1>1. f0 \in Frame \ used
    BY <1>0, AllocOneIs
<1> HIDE DEF f0
<1>2. TypeOK /\ TaskOK /\ \A f \in Frame : FrameOK(f)
    BY DEF FInv
<1>3. /\ used' = used \cup {f0} /\ used' \subseteq Frame
      /\ hint' \in 0..NFrames /\ freeFrames' \in Nat
      /\ freeFrames' = Cardinality(Frame \ used')
    BY <1>0, <1>1, TakeOne
<1>4. root \in [Task -> Frame \cup {NoFrame}] /\ NoFrame \notin Frame
    BY <1>2, BaseFrames DEF TypeOK
<1>5. TypeOK'
  <2>1. root' \in [Task -> Frame \cup {NoFrame}]
      BY <1>0, <1>1, <1>4
  <2>2. call' \in [op : {"spawn"}, task : Task, page : Image]
      BY <1>0, FramesAssumption DEF Image
  <2> QED
      BY <1>0, <1>2, <1>3, <2>1, <2>2 DEF TypeOK
<1>6. ASSUME NEW f \in Frame PROVE FrameOK(f)'
  <2>1. /\ \A a, b : TableRef(f, a, b)' <=> TableRef(f, a, b)
        /\ \A a, b : PageRef(f, a, b)' <=> PageRef(f, a, b)
        /\ \A a, b : MsgRef(f, a, b)' <=> MsgRef(f, a, b)
      BY <1>0 DEF TableRef, PageRef, MsgRef
  <2>2. \A a : ~HandRef(f, a)' /\ ~HandRef(f, a)
      BY <1>0 DEF HandRef, Idle
  <2>3. \A a : RootRef(f, a)' <=> (IF a = t THEN f = f0 ELSE RootRef(f, a))
      BY <1>0, <1>4 DEF RootRef
  <2>4. CASE f = f0
    <3>1. \A k, a, b : ~Ref(f, k, a, b)
        BY <1>1, <1>2, <2>4, FreeUnheld
    <3>2. f \notin Base /\ f \notin leaked
        BY <1>1, <1>2, <2>4, FreeUnheld
    <3>3. ASSUME NEW k, NEW a, NEW b
          PROVE  Ref(f, k, a, b)' <=> k = "root" /\ a = t /\ b = 0
      <4>1. ~Ref(f, k, a, b)
          BY <3>1
      <4> QED
          BY <2>1, <2>2, <2>3, <2>4, <4>1 DEF Ref
    <3>4. Held(f, "root", t, 0)'
        BY <1>0, <1>3, <2>4, <3>2, <3>3 DEF Held, Base
    <3> QED
        BY <3>4, Zenon DEF FrameOK
  <2>5. CASE f # f0
    <3>1. \A a : RootRef(f, a)' <=> RootRef(f, a)
        BY <1>0, <1>4, <2>3, <2>5 DEF RootRef
    <3>2. \A k, a, b : Ref(f, k, a, b)' <=> Ref(f, k, a, b)
        BY <2>1, <2>2, <3>1, RefSame, Zenon
    <3> QED
        BY <1>0, <1>2, <1>3, <2>5, <3>2, FrameSame
  <2> QED
      BY <2>4, <2>5
<1>7. \A m \in DOMAIN queue' : queue'[m] # <<>>
    BY <1>0 DEF FInv
<1>8. TaskOK'
    BY <1>0, <1>1, <1>2, <1>4 DEF TaskOK
<1>9. CallOK'
  <2>1. root'[t] # NoFrame /\ call'.task = t /\ call'.op = "spawn"
      BY <1>0, <1>1, <1>4
  <2>2. \A w \in VPage : pages[t][w] = NoPage
      BY <1>0, <1>2 DEF TaskOK
  <2> QED
      BY <1>0, <2>1, <2>2 DEF CallOK
<1> QED
    BY <1>3, <1>5, <1>6, <1>7, <1>8, <1>9 DEF FInv

LEMMA RegionIn == \A v \in VPage : Region(v) \in Regions
    BY DEF Regions

\* A page that was not mapped is mapped, a table that was not there is.
Mapped(t, v, p, x) == [pages EXCEPT ![t][v] = [frame |-> p, exec |-> x]]

LEMMA PageMapped ==
    ASSUME TypeOK, NEW t \in Task, NEW v \in VPage, pages[t][v] = NoPage,
           NEW p \in Frame, NEW x \in BOOLEAN,
           pages' = Mapped(t, v, p, x)
    PROVE  /\ pages' \in [Task -> [VPage -> [frame : Frame, exec : BOOLEAN] \cup {NoPage}]]
           /\ \A a \in Task, b \in VPage : ~(a = t /\ b = v) => pages'[a][b] = pages[a][b]
           /\ \A f \in Frame : \A a, b :
                 PageRef(f, a, b)' <=> PageRef(f, a, b) \/ (a = t /\ b = v /\ f = p)
<1>1. pages \in [Task -> [VPage -> [frame : Frame, exec : BOOLEAN] \cup {NoPage}]]
    BY DEF TypeOK
<1> DEFINE P == [frame : Frame, exec : BOOLEAN] \cup {NoPage}
           page == [frame |-> p, exec |-> x]
<1>2. page \in P /\ page.frame = p
    OBVIOUS
<1>3. NoPage.frame = NoFrame /\ NoFrame \notin Frame
    BY BaseFrames DEF NoPage
<1>4. pages \in [Task -> [VPage -> P]] /\ pages' = [pages EXCEPT ![t][v] = page]
    BY <1>1 DEF Mapped
<1> HIDE DEF P, page
<1>5. pages' \in [Task -> [VPage -> P]]
    BY <1>2, <1>4
<1>6. \A a \in Task, b \in VPage : pages'[a][b] = IF a = t /\ b = v THEN page ELSE pages[a][b]
    BY <1>4
<1>7. ASSUME NEW f \in Frame, NEW a, NEW b
      PROVE  PageRef(f, a, b)' <=> PageRef(f, a, b) \/ (a = t /\ b = v /\ f = p)
    BY <1>2, <1>3, <1>6 DEF PageRef
<1> QED
    BY <1>5, <1>6, <1>7 DEF P

LEMMA TableMade ==
    ASSUME TypeOK, NEW t \in Task, NEW r \in Regions, tables[t][r] = NoFrame, NEW g \in Frame,
           tables' = [tables EXCEPT ![t][r] = g]
    PROVE  /\ tables' \in [Task -> [Regions -> Frame \cup {NoFrame}]]
           /\ \A a \in Task, b \in Regions : a # t => tables'[a][b] = tables[a][b]
           /\ \A f \in Frame : \A a, b :
                 TableRef(f, a, b)' <=> TableRef(f, a, b) \/ (a = t /\ b = r /\ f = g)
<1>1. tables \in [Task -> [Regions -> Frame \cup {NoFrame}]] /\ NoFrame \notin Frame
    BY BaseFrames DEF TypeOK
<1>2. tables' \in [Task -> [Regions -> Frame \cup {NoFrame}]]
    BY <1>1
<1>3. \A a \in Task, b \in Regions : tables'[a][b] = IF a = t /\ b = r THEN g ELSE tables[a][b]
    BY <1>1
<1>4. ASSUME NEW f \in Frame, NEW a, NEW b
      PROVE  TableRef(f, a, b)' <=> TableRef(f, a, b) \/ (a = t /\ b = r /\ f = g)
    BY <1>1, <1>3 DEF TableRef
<1> QED
    BY <1>2, <1>3, <1>4

\* A frame gets its one reference: it was free, or has lost the one it had.
LEMMA FrameTaken ==
    ASSUME NEW f, f \notin Base, f \notin leaked', f \in used', NEW k, NEW a, NEW b,
           \A k2, a2, b2 : Ref(f, k2, a2, b2)' <=> k2 = k /\ a2 = a /\ b2 = b
    PROVE  FrameOK(f)'
<1>1. Held(f, k, a, b)'
    BY Zenon DEF Held, Base
<1> QED
    BY <1>1, Zenon DEF FrameOK

\* A frame loses its reference.
LEMMA FrameLost ==
    ASSUME NEW f, f \in used' <=> f \in Base \/ f \in leaked', \A k, a, b : ~Ref(f, k, a, b)'
    PROVE  FrameOK(f)'
    BY Zenon DEF FrameOK, Unheld, Base

LEMMA SpawnFailsInv ==
    ASSUME FInv, call.op = "spawn", NEW fs \in SUBSET (Frame \ used), SpawnFails(call.task, fs),
           used' = used \cup fs, hint' \in 0..NFrames, freeFrames' \in Nat,
           freeFrames' = Cardinality(Frame \ used')
    PROVE  FInv'
<1> DEFINE t == call.task
<1>0. /\ leaked' = leaked \cup Owned(t) \cup fs
      /\ root' = [root EXCEPT ![t] = NoFrame]
      /\ tables' = [tables EXCEPT ![t] = [r \in Regions |-> NoFrame]]
      /\ pages' = [pages EXCEPT ![t] = [v \in VPage |-> NoPage]]
      /\ call' = Idle /\ UNCHANGED <<queue, torn>>
    BY DEF SpawnFails
<1>1. TypeOK /\ TaskOK /\ \A f \in Frame : FrameOK(f)
    BY DEF FInv
<1>2. t \in Task
    BY <1>1 DEF TypeOK, Idle
<1>3. /\ root \in [Task -> Frame \cup {NoFrame}]
      /\ tables \in [Task -> [Regions -> Frame \cup {NoFrame}]]
      /\ pages \in [Task -> [VPage -> [frame : Frame, exec : BOOLEAN] \cup {NoPage}]]
      /\ NoFrame \notin Frame /\ NoPage.frame = NoFrame
    BY <1>1, BaseFrames DEF TypeOK, NoPage
<1> HIDE DEF t
<1>4. Owned(t) \subseteq Frame
  <2>1. \A v \in VPage : pages[t][v].frame \in Frame \cup {NoFrame}
      BY <1>1, <1>2, PageFacts
  <2> QED
      BY <1>2, <1>3, <2>1 DEF Owned
<1>5. TypeOK'
  <2>1. root' \in [Task -> Frame \cup {NoFrame}]
      BY <1>0, <1>3, Zenon
  <2>2. tables' \in [Task -> [Regions -> Frame \cup {NoFrame}]]
      BY <1>0, <1>3, Zenon
  <2>3. pages' \in [Task -> [VPage -> [frame : Frame, exec : BOOLEAN] \cup {NoPage}]]
      BY <1>0, <1>3, Zenon
  <2>4. leaked' \subseteq Frame /\ used' \subseteq Frame
      BY <1>0, <1>1, <1>4 DEF TypeOK
  <2> QED
      BY <1>0, <1>1, <2>1, <2>2, <2>3, <2>4 DEF TypeOK
<1>6. ASSUME NEW f \in Frame PROVE FrameOK(f)'
  <2>1. \A a, b : MsgRef(f, a, b)' <=> MsgRef(f, a, b)
      BY <1>0 DEF MsgRef
  <2>2. \A a : ~HandRef(f, a)' /\ ~HandRef(f, a)
      BY <1>0 DEF HandRef, Idle
  <2>3. \A a : RootRef(f, a)' <=> a # t /\ RootRef(f, a)
      BY <1>0, <1>3 DEF RootRef
  <2>4. \A a, b : TableRef(f, a, b)' <=> a # t /\ TableRef(f, a, b)
      BY <1>0, <1>3 DEF TableRef
  <2>5. \A a, b : PageRef(f, a, b)' <=> a # t /\ PageRef(f, a, b)
      BY <1>0, <1>3 DEF PageRef
  <2>6. f \in Owned(t) <=> \/ RootRef(f, t) \/ \E b : TableRef(f, t, b) \/ PageRef(f, t, b)
      BY <1>2, <1>3 DEF Owned, RootRef, TableRef, PageRef
  <2>7. CASE f \in fs
    <3>1. \A k, a, b : ~Ref(f, k, a, b)
        BY <1>1, <2>7, FreeUnheld
    <3>2. ASSUME NEW k, NEW a, NEW b PROVE ~Ref(f, k, a, b)'
      <4>1. ~Ref(f, k, a, b)
          BY <3>1
      <4> QED
          BY <2>1, <2>2, <2>3, <2>4, <2>5, <4>1 DEF Ref
    <3> QED
        BY <1>0, <2>7, <3>2, FrameLost
  <2>8. CASE f \in Owned(t)
    <3>1. PICK k, b : k \in {"root", "table", "page"} /\ Ref(f, k, t, b)
      <4>1. RootRef(f, t) => Ref(f, "root", t, 0)
          BY DEF Ref
      <4>2. \A b : TableRef(f, t, b) => Ref(f, "table", t, b)
          BY DEF Ref
      <4>3. \A b : PageRef(f, t, b) => Ref(f, "page", t, b)
          BY DEF Ref
      <4> QED
          BY <2>6, <2>8, <4>1, <4>2, <4>3
    <3>2. Held(f, k, t, b)
        BY <1>1, <3>1, RefHeld
    <3>3. ASSUME NEW k2, NEW a2, NEW b2 PROVE ~Ref(f, k2, a2, b2)'
      <4>1. Ref(f, k2, a2, b2) => k2 = k /\ a2 = t
          BY <3>2 DEF Held
      <4> QED
          BY <2>1, <2>2, <2>3, <2>4, <2>5, <3>1, <4>1 DEF Ref
    <3> QED
        BY <1>0, <2>8, <3>2, <3>3, FrameLost DEF Held
  <2>9. CASE f \notin fs /\ f \notin Owned(t)
    <3>1. \A k, a, b : Ref(f, k, a, b)' <=> Ref(f, k, a, b)
        BY <2>1, <2>2, <2>3, <2>4, <2>5, <2>6, <2>9, RefSame, Zenon
    <3> QED
        BY <1>0, <1>1, <2>9, <3>1, FrameSame
  <2> QED
      BY <2>7, <2>8, <2>9
<1>7. \A m \in DOMAIN queue' : queue'[m] # <<>>
    BY <1>0 DEF FInv
<1>8. TaskOK'
    BY <1>0, <1>1, <1>3 DEF TaskOK
<1>9. CallOK'
    BY <1>0 DEF CallOK, Idle
<1> QED
    BY <1>5, <1>6, <1>7, <1>8, <1>9 DEF FInv

LEMMA SpawnPageInv ==
    ASSUME FInv, SpawnPage
    PROVE  FInv'
<1> DEFINE t == call.task
           v == call.page
           f0 == AllocOne(used, hint)
           g0 == AllocOne(used \cup {f0}, f0 + 1)
           next == IF v = ImagePages THEN Idle ELSE [call EXCEPT !.page = v + 1]
           exec == v \in ExecPages
<1>0. call.op = "spawn"
    BY DEF SpawnPage
<1>1. TypeOK /\ TaskOK /\ CallOK /\ \A f \in Frame : FrameOK(f)
    BY DEF FInv
<1>2. call \in [op : {"spawn"}, task : Task, page : Image]
    BY <1>0, <1>1 DEF TypeOK, Idle
<1>3. t \in Task /\ v \in Image /\ v \in VPage /\ root[t] # NoFrame
  <2>1. t \in Task /\ v \in Image /\ v \in VPage
      BY <1>2, FramesAssumption DEF Image, VPage
  <2>2. call # Idle
      BY <1>0 DEF Idle
  <2> QED
      BY <1>1, <2>1, <2>2 DEF CallOK
<1>4. \A w \in VPage : w >= v => pages[t][w] = NoPage
    BY <1>0, <1>1 DEF CallOK
<1>5. pages[t][v] = NoPage
    BY <1>3, <1>4 DEF Image
<1>6. f0 # NoFrame => f0 \in Frame \ used
    BY AllocOneIs
<1>7. g0 # NoFrame => g0 \in Frame \ (used \cup {f0})
    BY AllocOneIs
<1>8. exec \in BOOLEAN
    OBVIOUS
<1>9. \/ next = Idle
      \/ /\ next \in [op : {"spawn"}, task : Task, page : Image]
         /\ next.task = t /\ next.page = v + 1
  <2>1. CASE v = ImagePages
      BY <2>1
  <2>2. CASE v # ImagePages
    <3>1. v + 1 \in Image
        BY <1>3, <2>2, FramesAssumption DEF Image
    <3> QED
        BY <1>2, <2>2, <3>1
  <2> QED
      BY <2>1, <2>2
<1>10. Idle.op = "none" /\ (next = Idle \/ next.op = "spawn")
    BY <1>9 DEF Idle
<1>11. Region(v) \in Regions
    BY <1>3, RegionIn
<1>12. NoFrame \notin Frame
    BY BaseFrames
<1>a. \/ f0 = NoFrame /\ SpawnFails(t, {}) /\ UNCHANGED pmm
      \/ /\ f0 # NoFrame /\ TakeFrames({f0}, f0) /\ SpawnFails(t, {f0})
      \/ /\ f0 # NoFrame /\ tables[t][Region(v)] = NoFrame /\ g0 # NoFrame
         /\ TakeFrames({f0, g0}, g0)
         /\ tables' = [tables EXCEPT ![t][Region(v)] = g0]
         /\ pages' = Mapped(t, v, f0, exec)
         /\ call' = next
         /\ UNCHANGED <<root, queue, leaked, torn>>
      \/ /\ f0 # NoFrame /\ TakeFrames({f0}, f0)
         /\ pages' = Mapped(t, v, f0, exec)
         /\ call' = next
         /\ UNCHANGED <<root, tables, queue, leaked, torn>>
    BY DEF SpawnPage, Mapped
<1> HIDE DEF f0, g0, next, exec
<1>b. CASE f0 = NoFrame /\ SpawnFails(t, {}) /\ UNCHANGED pmm
  <2>1. used' = used \cup {} /\ hint' = hint /\ freeFrames' = freeFrames /\ used' = used
      BY <1>b DEF pmm
  <2>2. hint' \in 0..NFrames /\ freeFrames' \in Nat /\ freeFrames' = Cardinality(Frame \ used')
      BY <2>1 DEF FInv, TypeOK
  <2> QED
      BY <1>0, <1>b, <2>1, <2>2, SpawnFailsInv
<1>c. CASE f0 # NoFrame /\ TakeFrames({f0}, f0) /\ SpawnFails(t, {f0})
  <2>1. f0 \in Frame \ used /\ {f0} \in SUBSET (Frame \ used)
      BY <1>6, <1>c
  <2>2. /\ used' = used \cup {f0}
        /\ hint' \in 0..NFrames /\ freeFrames' \in Nat
        /\ freeFrames' = Cardinality(Frame \ used')
      BY <1>c, <2>1, TakeOne
  <2> QED
      BY <1>0, <1>c, <2>1, <2>2, SpawnFailsInv
\* The rest is common to the two branches that map the page.
<1>d. ASSUME f0 # NoFrame, pages' = Mapped(t, v, f0, exec), call' = next,
             UNCHANGED <<root, queue, leaked, torn>>,
             tables' \in [Task -> [Regions -> Frame \cup {NoFrame}]],
             \A a \in Task, b \in Regions : a # t => tables'[a][b] = tables[a][b],
             used' \subseteq Frame, hint' \in 0..NFrames, freeFrames' \in Nat,
             freeFrames' = Cardinality(Frame \ used'),
             \A f \in Frame : FrameOK(f)'
      PROVE  FInv'
  <2>1. /\ pages' \in [Task -> [VPage -> [frame : Frame, exec : BOOLEAN] \cup {NoPage}]]
        /\ \A a \in Task, b \in VPage : ~(a = t /\ b = v) => pages'[a][b] = pages[a][b]
      BY <1>1, <1>3, <1>5, <1>6, <1>8, <1>d, PageMapped
  <2>2. TypeOK'
      BY <1>1, <1>9, <1>d, <2>1 DEF TypeOK
  <2>3. \A m \in DOMAIN queue' : queue'[m] # <<>>
      BY <1>d DEF FInv
  <2>4. TaskOK'
    <3>1. root' = root /\ root[t] # NoFrame /\ TaskOK
        BY <1>1, <1>3, <1>d
    <3>2. \A a \in Task, b \in Regions : a # t => tables'[a][b] = tables[a][b]
        BY <1>d
    <3> QED
      <4>1. SUFFICES ASSUME NEW a \in Task, root'[a] = NoFrame
                     PROVE  /\ \A r \in Regions : tables'[a][r] = NoFrame
                            /\ \A w \in VPage : pages'[a][w] = NoPage
          BY DEF TaskOK
      <4>2. a # t /\ root[a] = NoFrame
          BY <3>1, <4>1
      <4>3. /\ \A r \in Regions : tables[a][r] = NoFrame
            /\ \A w \in VPage : pages[a][w] = NoPage
          BY <3>1, <4>2 DEF TaskOK
      <4> QED
          BY <2>1, <3>2, <4>2, <4>3
  <2>5. CallOK'
    <3>1. CASE next = Idle
        BY <1>10, <1>d, <3>1 DEF CallOK
    <3>2. CASE next.op = "spawn" /\ next.task = t /\ next.page = v + 1
      <4>1. ASSUME NEW w \in VPage, w >= v + 1 PROVE pages'[t][w] = NoPage
        <5>1. w \in Int /\ v \in Int
            BY <1>3 DEF VPage
        <5>2. w # v /\ w >= v
            BY <4>1, <5>1
        <5> QED
            BY <1>3, <1>4, <2>1, <5>2
      <4> QED
          BY <1>3, <1>d, <3>2, <4>1 DEF CallOK
    <3> QED
        BY <1>9, <1>10, <3>1, <3>2
  <2> QED
      BY <1>d, <2>2, <2>3, <2>4, <2>5 DEF FInv
<1>e. CASE /\ f0 # NoFrame /\ tables[t][Region(v)] = NoFrame /\ g0 # NoFrame
           /\ TakeFrames({f0, g0}, g0)
           /\ tables' = [tables EXCEPT ![t][Region(v)] = g0]
           /\ pages' = Mapped(t, v, f0, exec)
           /\ call' = next
           /\ UNCHANGED <<root, queue, leaked, torn>>
  <2>1. f0 \in Frame \ used /\ g0 \in Frame \ used /\ g0 # f0 /\ g0 \in Frame \ (used \cup {f0})
      BY <1>6, <1>7, <1>e
  <2>2. /\ used' = used \cup {f0, g0} /\ used' \subseteq Frame
        /\ hint' \in 0..NFrames /\ freeFrames' \in Nat
        /\ freeFrames' = Cardinality(Frame \ used')
      BY <1>e, <2>1, TakeTwo
  <2>3. /\ tables' \in [Task -> [Regions -> Frame \cup {NoFrame}]]
        /\ \A a \in Task, b \in Regions : a # t => tables'[a][b] = tables[a][b]
        /\ \A f \in Frame : \A a, b :
              TableRef(f, a, b)' <=> TableRef(f, a, b) \/ (a = t /\ b = Region(v) /\ f = g0)
    <3>1. /\ TypeOK /\ t \in Task /\ Region(v) \in Regions /\ tables[t][Region(v)] = NoFrame
          /\ g0 \in Frame /\ tables' = [tables EXCEPT ![t][Region(v)] = g0]
        BY <1>1, <1>3, <1>11, <1>e, <2>1
    <3> QED
        BY <3>1, TableMade, Zenon
  <2>4. \A f \in Frame : \A a, b :
              PageRef(f, a, b)' <=> PageRef(f, a, b) \/ (a = t /\ b = v /\ f = f0)
    <3>1. f0 \in Frame /\ pages' = Mapped(t, v, f0, exec)
        BY <1>e, <2>1
    <3>2. TypeOK /\ t \in Task /\ v \in VPage
        BY <1>1, <1>3
    <3> QED
        BY <1>5, <1>8, <3>1, <3>2, PageMapped
  <2>5. ASSUME NEW f \in Frame PROVE FrameOK(f)'
    <3>1. /\ \A a : RootRef(f, a)' <=> RootRef(f, a)
          /\ \A a, b : MsgRef(f, a, b)' <=> MsgRef(f, a, b)
        BY <1>e DEF RootRef, MsgRef
    <3>2. \A a : ~HandRef(f, a)' /\ ~HandRef(f, a)
        BY <1>0, <1>10, <1>e DEF HandRef
    <3>3. CASE f \in {f0, g0}
      <4>1. /\ f \notin Base /\ f \notin leaked
            /\ \A k, a, b : ~Ref(f, k, a, b)
          BY <1>1, <2>1, <3>3, FreeUnheld
      <4>2. CASE f = f0
        <5>1. ASSUME NEW k, NEW a, NEW b
              PROVE  Ref(f, k, a, b)' <=> k = "page" /\ a = t /\ b = v
          <6>1. ~Ref(f, k, a, b)
              BY <4>1
          <6> QED
              BY <2>1, <2>3, <2>4, <3>1, <3>2, <4>2, <6>1 DEF Ref
        <5>2. f \in used' /\ f \notin leaked' /\ f \notin Base
            BY <1>e, <2>2, <3>3, <4>1
        <5> QED
            BY <5>1, <5>2, FrameTaken
      <4>3. CASE f = g0
        <5>1. ASSUME NEW k, NEW a, NEW b
              PROVE  Ref(f, k, a, b)' <=> k = "table" /\ a = t /\ b = Region(v)
          <6>1. ~Ref(f, k, a, b)
              BY <4>1
          <6> QED
              BY <2>1, <2>3, <2>4, <3>1, <3>2, <4>3, <6>1 DEF Ref
        <5>2. f \in used' /\ f \notin leaked' /\ f \notin Base
            BY <1>e, <2>2, <3>3, <4>1
        <5> QED
            BY <5>1, <5>2, FrameTaken
      <4> QED
          BY <3>3, <4>2, <4>3
    <3>4. CASE f \notin {f0, g0}
      <4>1. \A k, a, b : Ref(f, k, a, b)' <=> Ref(f, k, a, b)
          BY <2>3, <2>4, <3>1, <3>2, <3>4, RefSame, Zenon
      <4> QED
          BY <1>1, <1>e, <2>2, <3>4, <4>1, FrameSame
    <3> QED
        BY <3>3, <3>4
  <2> QED
      BY <1>d, <1>e, <2>2, <2>3, <2>5
<1>f. CASE /\ f0 # NoFrame /\ TakeFrames({f0}, f0)
           /\ pages' = Mapped(t, v, f0, exec)
           /\ call' = next
           /\ UNCHANGED <<root, tables, queue, leaked, torn>>
  <2>1. f0 \in Frame \ used
      BY <1>6, <1>f
  <2>2. /\ used' = used \cup {f0} /\ used' \subseteq Frame
        /\ hint' \in 0..NFrames /\ freeFrames' \in Nat
        /\ freeFrames' = Cardinality(Frame \ used')
      BY <1>f, <2>1, TakeOne
  <2>3. tables' \in [Task -> [Regions -> Frame \cup {NoFrame}]]
      BY <1>1, <1>f DEF TypeOK
  <2>4. \A f \in Frame : \A a, b :
              PageRef(f, a, b)' <=> PageRef(f, a, b) \/ (a = t /\ b = v /\ f = f0)
    <3>1. f0 \in Frame /\ pages' = Mapped(t, v, f0, exec)
        BY <1>f, <2>1
    <3>2. TypeOK /\ t \in Task /\ v \in VPage
        BY <1>1, <1>3
    <3> QED
        BY <1>5, <1>8, <3>1, <3>2, PageMapped
  <2>5. ASSUME NEW f \in Frame PROVE FrameOK(f)'
    <3>1. /\ \A a : RootRef(f, a)' <=> RootRef(f, a)
          /\ \A a, b : TableRef(f, a, b)' <=> TableRef(f, a, b)
          /\ \A a, b : MsgRef(f, a, b)' <=> MsgRef(f, a, b)
        BY <1>f DEF RootRef, TableRef, MsgRef
    <3>2. \A a : ~HandRef(f, a)' /\ ~HandRef(f, a)
        BY <1>0, <1>10, <1>f DEF HandRef
    <3>3. CASE f = f0
      <4>1. /\ f \notin Base /\ f \notin leaked
            /\ \A k, a, b : ~Ref(f, k, a, b)
          BY <1>1, <2>1, <3>3, FreeUnheld
      <4>2. ASSUME NEW k, NEW a, NEW b
            PROVE  Ref(f, k, a, b)' <=> k = "page" /\ a = t /\ b = v
        <5>1. ~Ref(f, k, a, b)
            BY <4>1
        <5> QED
            BY <2>1, <2>4, <3>1, <3>2, <3>3, <5>1 DEF Ref
      <4>3. f \in used' /\ f \notin leaked' /\ f \notin Base
          BY <1>f, <2>2, <3>3, <4>1
      <4> QED
          BY <4>2, <4>3, FrameTaken
    <3>4. CASE f # f0
      <4>1. \A k, a, b : Ref(f, k, a, b)' <=> Ref(f, k, a, b)
          BY <2>4, <3>1, <3>2, <3>4, RefSame
      <4> QED
          BY <1>1, <1>f, <2>2, <3>4, <4>1, FrameSame
    <3> QED
        BY <3>3, <3>4
  <2> QED
      BY <1>d, <1>f, <2>2, <2>3, <2>5
<1> QED
    BY <1>a, <1>b, <1>c, <1>e, <1>f

\* The frames that steal_pages takes out of the sender's address space.
FramesOf(t, v, n) == [i \in 1..n |-> pages[t][v + i - 1].frame]
Without(t, v, n) ==
    [pages EXCEPT ![t] = [w \in VPage |-> IF w \in Span(v, n) THEN NoPage ELSE @[w]]]

\* The n pages from v on have left the sender, and fs are their frames.
Taken(t, v, n, fs) ==
    /\ pages' \in [Task -> [VPage -> [frame : Frame, exec : BOOLEAN] \cup {NoPage}]]
    /\ \A a \in Task, b \in VPage : pages'[a][b] = pages[a][b] \/ pages'[a][b] = NoPage
    /\ fs \in Seq(Frame) /\ DOMAIN fs = 1..n /\ Len(fs) = n
    /\ \A i \in 1..n : Held(fs[i], "page", t, v + i - 1)
    /\ \A i, j \in 1..n : fs[i] = fs[j] => i = j
    /\ \A f \in Frame : \A a, b : PageRef(f, a, b)' <=>
          PageRef(f, a, b) /\ ~\E i \in 1..n : a = t /\ b = v + i - 1 /\ f = fs[i]

LEMMA Stolen ==
    ASSUME FInv, NEW t \in Task, NEW v \in VPage, NEW n \in 1..MaxPages, v + n - 1 <= NPages,
           \A w \in Span(v, n) : MappedAt(t, w), pages' = Without(t, v, n),
           NEW fs, fs = FramesOf(t, v, n)
    PROVE  Taken(t, v, n, fs)
<1>1. TypeOK /\ \A f \in Frame : FrameOK(f)
    BY DEF FInv
<1>2. v \in Nat /\ n \in Nat /\ n > 0 /\ VPage = 1..NPages /\ NPages \in Nat
    BY FramesAssumption DEF VPage
<1>3. \A i \in 1..n : v + i - 1 \in Span(v, n) /\ v + i - 1 \in VPage
    BY <1>2 DEF Span, VPage
<1>4. \A w \in Span(v, n) : w \in VPage /\ (w - v) + 1 \in 1..n /\ v + ((w - v) + 1) - 1 = w
    BY <1>2 DEF Span, VPage
<1>5. ASSUME NEW i \in 1..n
      PROVE  fs[i] = pages[t][v + i - 1].frame /\ fs[i] \in Frame /\ v + i - 1 \in VPage
  <2>1. pages[t][v + i - 1] # NoPage /\ v + i - 1 \in VPage
      BY <1>3 DEF MappedAt
  <2>2. pages[t][v + i - 1].frame \in Frame
      BY <1>1, <2>1, PageFacts
  <2> QED
      BY <2>1, <2>2 DEF FramesOf
<1>6. DOMAIN fs = 1..n /\ fs \in Seq(Frame) /\ Len(fs) = n
  <2>1. DOMAIN fs = 1..n /\ fs \in [1..n -> Frame]
      BY <1>5 DEF FramesOf
  <2>2. n \in Nat
      BY <1>2
  <2>3. fs \in Seq(Frame)
      BY <2>1, <2>2
  <2>4. Len(fs) = n
      BY <2>1, <2>2, <2>3
  <2> QED
      BY <2>1, <2>3, <2>4
<1>7. ASSUME NEW i \in 1..n PROVE Held(fs[i], "page", t, v + i - 1)
  <2>1. Ref(fs[i], "page", t, v + i - 1)
      BY <1>5 DEF Ref, PageRef
  <2> QED
      BY <1>1, <1>5, <2>1, RefHeld
<1>8. ASSUME NEW i \in 1..n, NEW j \in 1..n, fs[i] = fs[j] PROVE i = j
  <2>1. Held(fs[i], "page", t, v + i - 1) /\ Held(fs[i], "page", t, v + j - 1)
      BY <1>7, <1>8
  <2>2. v + i - 1 = v + j - 1
      BY <2>1, Zenon DEF Held
  <2> QED
      BY <1>2, <2>2
<1> DEFINE P == [frame : Frame, exec : BOOLEAN] \cup {NoPage}
<1>9. pages \in [Task -> [VPage -> P]] /\ NoPage \in P
    BY <1>1 DEF TypeOK
<1>10. NoPage.frame = NoFrame /\ NoFrame \notin Frame
    BY BaseFrames DEF NoPage
<1> HIDE DEF P
<1>11. pages' \in [Task -> [VPage -> P]]
    BY <1>9 DEF Without
<1>12. \A a \in Task, b \in VPage :
          pages'[a][b] = IF a = t /\ b \in Span(v, n) THEN NoPage ELSE pages[a][b]
    BY <1>9 DEF Without
<1>13. ASSUME NEW f \in Frame, NEW a, NEW b
       PROVE  PageRef(f, a, b)' <=>
                 PageRef(f, a, b) /\ ~\E i \in 1..n : a = t /\ b = v + i - 1 /\ f = fs[i]
  <2>1. PageRef(f, a, b)' <=> PageRef(f, a, b) /\ ~(a = t /\ b \in Span(v, n))
      BY <1>10, <1>12 DEF PageRef
  <2>2. ASSUME a = t, b \in Span(v, n), PageRef(f, a, b)
        PROVE  \E i \in 1..n : a = t /\ b = v + i - 1 /\ f = fs[i]
    <3>1. (b - v) + 1 \in 1..n /\ v + ((b - v) + 1) - 1 = b
        BY <1>4, <2>2
    <3>2. fs[(b - v) + 1] = pages[t][b].frame
        BY <1>5, <3>1
    <3> QED
        BY <2>2, <3>1, <3>2 DEF PageRef
  <2>3. \A i \in 1..n : b = v + i - 1 => b \in Span(v, n)
      BY <1>3
  <2> QED
      BY <2>1, <2>2, <2>3
<1>14. pages' \in [Task -> [VPage -> [frame : Frame, exec : BOOLEAN] \cup {NoPage}]]
    BY <1>11 DEF P
<1>15. \A a \in Task, b \in VPage : pages'[a][b] = pages[a][b] \/ pages'[a][b] = NoPage
    BY <1>12
<1> QED
    BY <1>6, <1>7, <1>8, <1>13, <1>14, <1>15 DEF Taken

LEMMA SendInv ==
    ASSUME FInv, NEW t \in Task, NEW v \in VPage, NEW n \in 1..MaxPages, v + n - 1 <= NPages,
           Send(t, v, n)
    PROVE  FInv'
<1> DEFINE fs == FramesOf(t, v, n)
           m == Len(queue) + 1
<1>0. /\ call = Idle /\ \A w \in Span(v, n) : MappedAt(t, w)
      /\ pages' = Without(t, v, n)
      /\ IF Len(queue) >= MaxInFlight
         THEN FreeFrames(fs) /\ UNCHANGED queue
         ELSE queue' = Append(queue, fs) /\ UNCHANGED pmm
      /\ UNCHANGED <<root, tables, call, leaked, torn>>
    BY DEF Send, FramesOf, Without
<1>1. TypeOK /\ TaskOK /\ \A f \in Frame : FrameOK(f)
    BY DEF FInv
<1>2. /\ pages' \in [Task -> [VPage -> [frame : Frame, exec : BOOLEAN] \cup {NoPage}]]
      /\ \A a \in Task, b \in VPage : pages'[a][b] = pages[a][b] \/ pages'[a][b] = NoPage
      /\ fs \in Seq(Frame) /\ DOMAIN fs = 1..n /\ Len(fs) = n
      /\ \A i \in 1..n : Held(fs[i], "page", t, v + i - 1)
      /\ \A i, j \in 1..n : fs[i] = fs[j] => i = j
      /\ \A f \in Frame : \A a, b : PageRef(f, a, b)' <=>
            PageRef(f, a, b) /\ ~\E i \in 1..n : a = t /\ b = v + i - 1 /\ f = fs[i]
  <2>1. \A w \in Span(v, n) : MappedAt(t, w)
      BY <1>0
  <2>2. pages' = Without(t, v, n)
      BY <1>0
  <2>3. fs = FramesOf(t, v, n)
      OBVIOUS
  <2> HIDE DEF fs
  <2>4. Taken(t, v, n, fs)
      BY <2>1, <2>2, <2>3, Stolen, Zenon
  <2> QED
      BY <2>4, Zenon DEF Taken
<1> HIDE DEF fs
<1>a. UNCHANGED <<root, tables, call, leaked, torn>> /\ call = Idle
    BY <1>0
<1>b. /\ pages' \in [Task -> [VPage -> [frame : Frame, exec : BOOLEAN] \cup {NoPage}]]
      /\ \A a \in Task, b \in VPage : pages'[a][b] = pages[a][b] \/ pages'[a][b] = NoPage
    BY <1>2
<1>c. fs \in Seq(Frame) /\ DOMAIN fs = 1..n /\ Len(fs) = n
    BY <1>2
<1>d. \A i \in 1..n : Held(fs[i], "page", t, v + i - 1)
    BY <1>2
<1>e. \A i, j \in 1..n : fs[i] = fs[j] => i = j
    BY <1>2
<1>f. \A f \in Frame : \A a, b : PageRef(f, a, b)' <=>
            PageRef(f, a, b) /\ ~\E i \in 1..n : a = t /\ b = v + i - 1 /\ f = fs[i]
    BY <1>2
<1>3. TaskOK' /\ CallOK'
  <2>1. TaskOK'
      BY <1>1, <1>a, <1>b DEF TaskOK
  <2>2. CallOK'
      BY <1>a DEF CallOK, Idle
  <2> QED
      BY <2>1, <2>2
<1>4. ASSUME NEW f \in Frame
      PROVE  /\ \A a : RootRef(f, a)' <=> RootRef(f, a)
             /\ \A a, b : TableRef(f, a, b)' <=> TableRef(f, a, b)
             /\ \A a : ~HandRef(f, a)' /\ ~HandRef(f, a)
    BY <1>a DEF RootRef, TableRef, HandRef, Idle
<1>5. CASE Len(queue) >= MaxInFlight
  <2>1. FreeFrames(fs) /\ queue' = queue
      BY <1>0, <1>5
  <2>2. /\ used' = used \ {fs[i] : i \in DOMAIN fs} /\ used' \subseteq Frame
        /\ hint' \in 0..NFrames /\ freeFrames' \in Nat
        /\ freeFrames' = Cardinality(Frame \ used')
    <3>1. \A i \in DOMAIN fs : fs[i] \in used
        BY <1>c, <1>d DEF Held
    <3>2. \A i, j \in DOMAIN fs : fs[i] = fs[j] => i = j
        BY <1>c, <1>e, Zenon
    <3> QED
        BY <1>c, <2>1, <3>1, <3>2, FreeAll, Zenon
  <2>3. TypeOK'
      BY <1>1, <1>a, <1>b, <2>1, <2>2 DEF TypeOK
  <2>4. ASSUME NEW f \in Frame PROVE FrameOK(f)'
    <3>1. \A a, b : MsgRef(f, a, b)' <=> MsgRef(f, a, b)
        BY <2>1 DEF MsgRef
    <3>2. CASE \E i \in 1..n : f = fs[i]
      <4>1. PICK i \in 1..n : f = fs[i]
          BY <3>2
      <4>2. Held(f, "page", t, v + i - 1)
          BY <1>d, <4>1
      <4>3. ASSUME NEW k, NEW a, NEW b PROVE ~Ref(f, k, a, b)'
        <5>1. Ref(f, k, a, b) => k = "page" /\ a = t /\ b = v + i - 1
            BY <4>2 DEF Held
        <5>2. Ref(f, k, a, b)' => Ref(f, k, a, b)
            BY <1>4, <1>f, <3>1, Zenon DEF Ref
        <5>3. ~PageRef(f, t, v + i - 1)'
            BY <1>f, <4>1
        <5> QED
            BY <5>1, <5>2, <5>3 DEF Ref
      <4>4. f \notin used' /\ f \notin Base /\ f \notin leaked'
          BY <1>a, <1>c, <2>2, <4>1, <4>2 DEF Held
      <4> QED
          BY <4>3, <4>4, FrameLost
    <3>3. CASE ~\E i \in 1..n : f = fs[i]
      <4>1. \A a, b : PageRef(f, a, b)' <=> PageRef(f, a, b)
          BY <1>f, <3>3
      <4>2. \A k, a, b : Ref(f, k, a, b)' <=> Ref(f, k, a, b)
          BY <1>4, <3>1, <4>1, RefSame, Zenon
      <4>3. (f \in used' <=> f \in used) /\ (f \in leaked' <=> f \in leaked)
          BY <1>a, <1>c, <2>2, <3>3
      <4> QED
          BY <1>1, <4>2, <4>3, FrameSame
    <3> QED
        BY <3>2, <3>3
  <2>5. \A i \in DOMAIN queue' : queue'[i] # <<>>
      BY <2>1 DEF FInv
  <2> QED
      BY <1>3, <2>2, <2>3, <2>4, <2>5 DEF FInv
<1>6. CASE ~(Len(queue) >= MaxInFlight)
  <2>1. queue' = Append(queue, fs) /\ used' = used /\ hint' = hint /\ freeFrames' = freeFrames
      BY <1>0, <1>6 DEF pmm
  <2>2. queue \in Seq(Seq(Frame)) /\ Len(queue) \in Nat /\ MaxInFlight \in Nat
      BY <1>1, FramesAssumption DEF TypeOK
  <2>3. /\ queue' \in Seq(Seq(Frame)) /\ Len(queue') <= MaxInFlight /\ DOMAIN queue' = 1..m
        /\ \A i \in DOMAIN queue : queue'[i] = queue[i]
        /\ queue'[m] = fs /\ DOMAIN queue = 1..(m - 1)
      BY <1>c, <1>6, <2>1, <2>2
  <2>4. TypeOK'
      BY <1>1, <1>a, <1>b, <2>1, <2>3 DEF TypeOK
  <2>5. \A i \in 1..m : i \in DOMAIN queue \/ i = m
    <3>1. DOMAIN queue = 1..Len(queue)
        BY <2>2
    <3> QED
        BY <2>2, <3>1
  <2>6. m \notin DOMAIN queue /\ m \in DOMAIN queue' /\ DOMAIN queue \subseteq DOMAIN queue'
      BY <2>2, <2>3
  <2> HIDE DEF m
  <2>7. ASSUME NEW f \in Frame, NEW a, NEW b
        PROVE  MsgRef(f, a, b)' <=> MsgRef(f, a, b) \/ (a = m /\ b \in 1..n /\ f = fs[b])
    <3>1. CASE a = m
        BY <1>c, <2>3, <2>6, <3>1 DEF MsgRef
    <3>2. CASE a # m
        BY <2>3, <2>5, <2>6, <3>2 DEF MsgRef
    <3> QED
        BY <3>1, <3>2
  <2>8. ASSUME NEW f \in Frame PROVE FrameOK(f)'
    <3>1. CASE \E i \in 1..n : f = fs[i]
      <4>1. PICK i \in 1..n : f = fs[i]
          BY <3>1
      <4>2. Held(f, "page", t, v + i - 1)
          BY <1>d, <4>1
      <4>3. ASSUME NEW k, NEW a, NEW b
            PROVE  Ref(f, k, a, b)' <=> k = "message" /\ a = m /\ b = i
        <5>1. Ref(f, k, a, b) <=> k = "page" /\ a = t /\ b = v + i - 1
            BY <4>2 DEF Held
        <5>2. ~PageRef(f, t, v + i - 1)'
            BY <1>f, <4>1
        <5>3. PageRef(f, a, b)' => PageRef(f, a, b)
            BY <1>f, Zenon
        <5>4. MsgRef(f, a, b)' <=> MsgRef(f, a, b) \/ (a = m /\ b = i)
            BY <1>e, <2>7, <4>1
        <5> QED
            BY <1>4, <5>1, <5>2, <5>3, <5>4 DEF Ref
      <4>4. f \in used' /\ f \notin Base /\ f \notin leaked'
          BY <1>a, <2>1, <4>2 DEF Held
      <4> QED
          BY <4>3, <4>4, FrameTaken
    <3>2. CASE ~\E i \in 1..n : f = fs[i]
      <4>1. \A a, b : PageRef(f, a, b)' <=> PageRef(f, a, b)
          BY <1>f, <3>2
      <4>2. \A a, b : MsgRef(f, a, b)' <=> MsgRef(f, a, b)
          BY <2>7, <3>2
      <4>3. \A k, a, b : Ref(f, k, a, b)' <=> Ref(f, k, a, b)
          BY <1>4, <4>1, <4>2, RefSame, Zenon
      <4> QED
          BY <1>1, <1>a, <2>1, <4>3, FrameSame
    <3> QED
        BY <3>1, <3>2
  <2>9. \A i \in DOMAIN queue' : queue'[i] # <<>>
    <3>1. fs # <<>>
        BY <1>c
    <3>2. \A i \in DOMAIN queue : queue[i] # <<>>
        BY DEF FInv
    <3> QED
        BY <2>3, <2>5, <3>1, <3>2
  <2>10. freeFrames' = Cardinality(Frame \ used')
      BY <2>1 DEF FInv
  <2> QED
      BY <1>3, <2>4, <2>8, <2>9, <2>10 DEF FInv
<1> QED
    BY <1>5, <1>6

LEMMA SendHoleInv ==
    ASSUME FInv, NEW t \in Task, NEW v \in VPage, NEW n \in 1..MaxPages, SendHole(t, v, n)
    PROVE  FInv'
<1> DEFINE last == Least({w \in Span(v, n) : ~MappedAt(t, w)}) - 1
           P == [frame : Frame, exec : BOOLEAN] \cup {NoPage}
           Closed(p) == [p EXCEPT !.exec = FALSE]
<1>0. /\ call = Idle
      /\ pages' = [pages EXCEPT ![t] =
                       [w \in VPage |-> IF w \in v..last THEN Closed(@[w]) ELSE @[w]]]
      /\ UNCHANGED <<used, hint, freeFrames, root, tables, queue, call, leaked, torn>>
    BY DEF SendHole
<1> HIDE DEF last
<1>1. TypeOK /\ TaskOK /\ \A f \in Frame : FrameOK(f)
    BY DEF FInv
<1>2. \A p \in P : Closed(p) \in P /\ Closed(p).frame = p.frame /\ (p = NoPage => Closed(p) = NoPage)
  <2>1. Closed(NoPage) = NoPage
    <3>1. NoPage \in [frame : {NoFrame}, exec : BOOLEAN]
        BY DEF NoPage
    <3>2. /\ Closed(NoPage) \in [frame : {NoFrame}, exec : BOOLEAN]
          /\ Closed(NoPage).exec = FALSE
        BY <3>1, Zenon
    <3> HIDE DEF Closed
    <3> QED
        BY <3>2, Zenon DEF NoPage
  <2>2. ASSUME NEW p \in [frame : Frame, exec : BOOLEAN]
        PROVE  Closed(p) \in [frame : Frame, exec : BOOLEAN] /\ Closed(p).frame = p.frame
      BY Zenon
  <2> HIDE DEF Closed
  <2> QED
      BY <2>1, <2>2
<1>3. pages \in [Task -> [VPage -> P]]
    BY <1>1 DEF TypeOK
<1> HIDE DEF P, Closed
<1>4. pages' \in [Task -> [VPage -> P]]
    BY <1>0, <1>2, <1>3
<1>5. \A a \in Task, b \in VPage : pages'[a][b] \in {pages[a][b], Closed(pages[a][b])}
    BY <1>0, <1>3
<1>6. \A a \in Task, b \in VPage :
         /\ pages'[a][b].frame = pages[a][b].frame
         /\ pages[a][b] = NoPage => pages'[a][b] = NoPage
    BY <1>2, <1>3, <1>5
<1>7. TypeOK'
  <2>1. pages' \in [Task -> [VPage -> [frame : Frame, exec : BOOLEAN] \cup {NoPage}]]
      BY <1>4 DEF P
  <2> QED
      BY <1>0, <1>1, <2>1 DEF TypeOK
<1>8. ASSUME NEW f \in Frame PROVE FrameOK(f)'
  <2>1. /\ \A a : RootRef(f, a)' <=> RootRef(f, a)
        /\ \A a, b : TableRef(f, a, b)' <=> TableRef(f, a, b)
        /\ \A a, b : MsgRef(f, a, b)' <=> MsgRef(f, a, b)
        /\ \A a : HandRef(f, a)' <=> HandRef(f, a)
      BY <1>0 DEF RootRef, TableRef, MsgRef, HandRef
  <2>2. \A a, b : PageRef(f, a, b)' <=> PageRef(f, a, b)
      BY <1>6 DEF PageRef
  <2>3. \A k, a, b : Ref(f, k, a, b)' <=> Ref(f, k, a, b)
      BY <2>1, <2>2, RefSame, Zenon
  <2> QED
      BY <1>0, <1>1, <2>3, FrameSame
<1>9. TaskOK'
    BY <1>0, <1>1, <1>6 DEF TaskOK
<1>10. CallOK'
    BY <1>0 DEF CallOK, Idle
<1>11. /\ freeFrames' = Cardinality(Frame \ used')
       /\ \A m \in DOMAIN queue' : queue'[m] # <<>>
    BY <1>0, Zenon DEF FInv
<1> QED
    BY <1>7, <1>8, <1>9, <1>10, <1>11 DEF FInv

LEMMA RecvInv ==
    ASSUME FInv, NEW t \in Task, Recv(t)
    PROVE  FInv'
<1> DEFINE fs == Head(queue)
           n == Len(fs)
           fit == FitsAt(t, n)
           taken == [op |-> "install", task |-> t, va |-> Least(fit), frames |-> fs, done |-> 0]
<1>0. /\ call = Idle /\ root[t] # NoFrame /\ queue # <<>> /\ queue' = Tail(queue)
      /\ UNCHANGED <<root, tables, pages, leaked, torn>>
      /\ \/ FreeFrames(fs) /\ UNCHANGED call
         \/ fit # {} /\ call' = taken /\ UNCHANGED pmm
    BY DEF Recv
<1>1. TypeOK /\ TaskOK /\ \A f \in Frame : FrameOK(f)
    BY DEF FInv
<1>2. queue \in Seq(Seq(Frame)) /\ queue # <<>> /\ Len(queue) <= MaxInFlight /\ MaxInFlight \in Nat
    BY <1>0, <1>1, FramesAssumption DEF TypeOK
<1>3. /\ 1 \in DOMAIN queue /\ fs = queue[1] /\ fs \in Seq(Frame) /\ fs # <<>>
      /\ queue' \in Seq(Seq(Frame)) /\ Len(queue') <= MaxInFlight
      /\ \A a \in DOMAIN queue' : a \in Nat /\ a + 1 \in DOMAIN queue /\ queue'[a] = queue[a + 1]
      /\ \A a \in DOMAIN queue : a \in Nat /\ (a # 1 => a - 1 \in DOMAIN queue')
  <2>1. /\ 1 \in DOMAIN queue /\ fs = queue[1] /\ fs \in Seq(Frame)
        /\ queue' \in Seq(Seq(Frame)) /\ Len(queue') <= MaxInFlight
      BY <1>0, <1>2
  <2>2. fs # <<>>
      BY <2>1 DEF FInv
  <2>3. /\ Len(queue') = Len(queue) - 1 /\ DOMAIN queue' = 1..(Len(queue) - 1)
        /\ DOMAIN queue = 1..Len(queue) /\ Len(queue) \in Nat
        /\ \A a \in 1..(Len(queue) - 1) : queue'[a] = queue[a + 1]
      BY <1>0, <1>2
  <2>4. \A a \in DOMAIN queue' : a \in Nat /\ a + 1 \in DOMAIN queue /\ queue'[a] = queue[a + 1]
      BY <2>3
  <2>5. \A a \in DOMAIN queue : a \in Nat /\ (a # 1 => a - 1 \in DOMAIN queue')
      BY <2>3
  <2> QED
      BY <2>1, <2>2, <2>4, <2>5
<1> HIDE DEF fs
<1>4. n \in Nat /\ n > 0 /\ DOMAIN fs = 1..n /\ \A i \in 1..n : fs[i] \in Frame
    BY <1>3
<1>5. ASSUME NEW i \in 1..n PROVE Held(fs[i], "message", 1, i)
  <2>1. Ref(fs[i], "message", 1, i)
      BY <1>3, <1>4 DEF Ref, MsgRef
  <2> QED
      BY <1>1, <1>4, <2>1, RefHeld
<1>6. ASSUME NEW i \in 1..n, NEW j \in 1..n, fs[i] = fs[j] PROVE i = j
  <2>1. Held(fs[i], "message", 1, i) /\ Held(fs[i], "message", 1, j)
      BY <1>5, <1>6
  <2> QED
      BY <2>1 DEF Held
<1>7. ASSUME NEW f \in Frame
      PROVE  /\ \A a : RootRef(f, a)' <=> RootRef(f, a)
             /\ \A a, b : TableRef(f, a, b)' <=> TableRef(f, a, b)
             /\ \A a, b : PageRef(f, a, b)' <=> PageRef(f, a, b)
             /\ \A a : ~HandRef(f, a)
    BY <1>0 DEF RootRef, TableRef, PageRef, HandRef, Idle
<1>8. ASSUME NEW f \in Frame, NEW a, NEW b
      PROVE  MsgRef(f, a, b)' <=> a \in DOMAIN queue' /\ MsgRef(f, a + 1, b)
    BY <1>3 DEF MsgRef
\* The other messages move up by one place.
<1>9. ASSUME NEW f \in Frame, ~\E i \in 1..n : f = fs[i], \A a : ~HandRef(f, a)',
             f \in used' <=> f \in used
      PROVE  FrameOK(f)'
  <2>1. \A b : ~MsgRef(f, 1, b)
      BY <1>3, <1>4, <1>9 DEF MsgRef
  <2>2. f \in leaked' <=> f \in leaked
      BY <1>0
  <2>3. CASE Unheld(f)
    <3>1. ASSUME NEW k, NEW a, NEW b PROVE ~Ref(f, k, a, b)'
      <4>1. ~Ref(f, k, a, b) /\ ~Ref(f, k, a + 1, b)
          BY <2>3 DEF Unheld
      <4> QED
          BY <1>7, <1>8, <1>9, <4>1 DEF Ref
    <3>2. f \in used' <=> f \in Base \/ f \in leaked'
        BY <1>9, <2>2, <2>3 DEF Unheld
    <3> QED
        BY <3>1, <3>2, FrameLost
  <2>4. ASSUME NEW k, NEW a, NEW b, Held(f, k, a, b) PROVE FrameOK(f)'
    <3>1. f \in used' /\ f \notin Base /\ f \notin leaked'
        BY <1>9, <2>2, <2>4 DEF Held
    <3>2. Ref(f, k, a, b)
        BY <2>4 DEF Held
    <3>3. CASE k = "message"
      <4>1. MsgRef(f, a, b)
          BY <3>2, <3>3 DEF Ref
      <4>2. a \in DOMAIN queue /\ a \in Nat /\ a # 1
          BY <1>3, <2>1, <4>1 DEF MsgRef
      <4>3. a - 1 \in DOMAIN queue' /\ (a - 1) + 1 = a
          BY <1>3, <4>2
      <4>4. ASSUME NEW k2, NEW a2, NEW b2
            PROVE  Ref(f, k2, a2, b2)' <=> k2 = "message" /\ a2 = a - 1 /\ b2 = b
        <5>1. k2 # "message" => ~Ref(f, k2, a2, b2)'
          <6>1. k2 # "message" => ~Ref(f, k2, a2, b2)
              BY <2>4, <3>3 DEF Held
          <6> QED
              BY <1>7, <1>9, <6>1 DEF Ref
        <5>2. \A c : Ref(f, "message", c, b2) <=> c = a /\ b2 = b
            BY <2>4, <3>3 DEF Held
        <5>3. \A c : MsgRef(f, c, b2) <=> c = a /\ b2 = b
            BY <5>2 DEF Ref
        <5>4. MsgRef(f, a2, b2)' <=> a2 \in DOMAIN queue' /\ a2 + 1 = a /\ b2 = b
            BY <1>8, <5>3
        <5>5. a2 \in DOMAIN queue' => (a2 + 1 = a <=> a2 = a - 1)
          <6>1. a2 \in DOMAIN queue' => a2 \in Nat
              BY <1>3
          <6>2. a \in Nat
              BY <4>2
          <6> QED
              BY <6>1, <6>2
        <5>6. MsgRef(f, a2, b2)' <=> a2 = a - 1 /\ b2 = b
            BY <4>3, <5>4, <5>5
        <5> QED
            BY <5>1, <5>6 DEF Ref
      <4> QED
          BY <3>1, <4>4, FrameTaken
    <3>4. CASE k # "message"
      <4>1. \A a2, b2 : ~MsgRef(f, a2, b2)
        <5>1. \A a2, b2 : ~Ref(f, "message", a2, b2)
            BY <2>4, <3>4 DEF Held
        <5> QED
            BY <5>1 DEF Ref
      <4>2. \A a2, b2 : MsgRef(f, a2, b2)' <=> MsgRef(f, a2, b2)
          BY <1>8, <4>1
      <4>3. \A k2, a2, b2 : Ref(f, k2, a2, b2)' <=> Ref(f, k2, a2, b2)
          BY <1>7, <1>9, <4>2, RefSame, Zenon
      <4> QED
          BY <1>1, <1>9, <2>2, <4>3, FrameSame
    <3> QED
        BY <3>3, <3>4
  <2> QED
      BY <1>1, <2>3, <2>4 DEF FrameOK
<1>10. TaskOK' /\ \A m \in DOMAIN queue' : queue'[m] # <<>>
  <2>1. TaskOK'
      BY <1>0, <1>1 DEF TaskOK
  <2>2. \A m \in DOMAIN queue : queue[m] # <<>>
      BY DEF FInv
  <2> QED
      BY <1>3, <2>1, <2>2
<1>11. CASE FreeFrames(fs) /\ UNCHANGED call
  <2>1. /\ used' = used \ {fs[i] : i \in DOMAIN fs} /\ used' \subseteq Frame
        /\ hint' \in 0..NFrames /\ freeFrames' \in Nat
        /\ freeFrames' = Cardinality(Frame \ used')
    <3>1. \A i \in DOMAIN fs : fs[i] \in used
        BY <1>4, <1>5 DEF Held
    <3>2. \A i, j \in DOMAIN fs : fs[i] = fs[j] => i = j
        BY <1>4, <1>6
    <3> QED
        BY <1>3, <1>11, <3>1, <3>2, FreeAll, Zenon
  <2>2. TypeOK'
      BY <1>0, <1>1, <1>3, <1>11, <2>1, Zenon DEF TypeOK
  <2>3. CallOK'
      BY <1>0, <1>11 DEF CallOK, Idle
  <2>4. \A f, a : ~HandRef(f, a)'
      BY <1>0, <1>11, Zenon DEF HandRef, Idle
  <2>5. ASSUME NEW f \in Frame PROVE FrameOK(f)'
    <3>1. CASE \E i \in 1..n : f = fs[i]
      <4>1. PICK i \in 1..n : f = fs[i]
          BY <3>1
      <4>2. Held(f, "message", 1, i)
          BY <1>5, <4>1
      <4>3. ASSUME NEW k, NEW a, NEW b PROVE ~Ref(f, k, a, b)'
        <5>1. Ref(f, k, a, b) => k = "message"
            BY <4>2 DEF Held
        <5>2. Ref(f, "message", a + 1, b) => a + 1 = 1
            BY <4>2 DEF Held
        <5>3. MsgRef(f, a + 1, b) => a + 1 = 1
            BY <5>2 DEF Ref
        <5>4. a \in DOMAIN queue' => a \in Nat /\ a # 0
            BY <1>3
        <5>5. ~MsgRef(f, a, b)'
            BY <1>8, <5>3, <5>4
        <5> QED
            BY <1>7, <2>4, <5>1, <5>5 DEF Ref
      <4>4. f \notin used' /\ f \notin Base /\ f \notin leaked'
          BY <1>0, <1>4, <2>1, <4>1, <4>2 DEF Held
      <4> QED
          BY <4>3, <4>4, FrameLost
    <3>2. CASE ~\E i \in 1..n : f = fs[i]
      <4>1. f \in used' <=> f \in used
          BY <1>4, <2>1, <3>2
      <4> QED
          BY <1>9, <2>4, <3>2, <4>1
    <3> QED
        BY <3>1, <3>2
  <2> QED
      BY <1>10, <2>1, <2>2, <2>3, <2>5 DEF FInv
<1>12. CASE fit # {} /\ call' = taken /\ UNCHANGED pmm
  <2>1. used' = used /\ hint' = hint /\ freeFrames' = freeFrames
      BY <1>12 DEF pmm
  <2>2. Least(fit) \in fit
    <3>1. fit \subseteq Nat
        BY FramesAssumption DEF FitsAt, Window
    <3> QED
        BY <1>12, <3>1, LeastIs
  <2> DEFINE va == Least(fit)
  <2>3. /\ va \in Window /\ (va + n - 1) + n <= NPages + 1
        /\ \A w \in Span(va, n) : ~MappedAt(t, w)
      BY <2>2 DEF FitsAt
  <2> HIDE DEF va
  <2>4. call' = [op |-> "install", task |-> t, va |-> va, frames |-> fs, done |-> 0]
      BY <1>12 DEF va
  <2>5. call' \in [op : {"install"}, task : Task, va : Window, frames : Seq(Frame), done : Nat]
      BY <1>3, <2>3, <2>4
  <2>6. TypeOK'
      BY <1>0, <1>1, <1>3, <2>1, <2>5, Zenon DEF TypeOK
  <2>7. CallOK'
    <3>1. \A j \in 0..(n - 1) : va + j \in VPage /\ va + j \in Span(va, n)
        BY <1>4, <2>3, FramesAssumption DEF Window, VPage, Span
    <3>2. \A j \in 0..(n - 1) : va + j \in VPage /\ pages'[t][va + j] = NoPage
        BY <1>0, <2>3, <3>1, Zenon DEF MappedAt
    <3>3. /\ call'.op = "install" /\ call'.task = t /\ call'.done = 0
          /\ call'.frames = fs /\ call'.va = va
        BY <2>4
    <3>4. root'[t] # NoFrame
        BY <1>0
    <3> QED
        BY <1>4, <3>2, <3>3, <3>4 DEF CallOK
  <2>8. \A f, a : HandRef(f, a)' <=> a \in 1..n /\ fs[a] = f
      BY <2>4 DEF HandRef
  <2>9. ASSUME NEW f \in Frame PROVE FrameOK(f)'
    <3>1. CASE \E i \in 1..n : f = fs[i]
      <4>1. PICK i \in 1..n : f = fs[i]
          BY <3>1
      <4>2. Held(f, "message", 1, i)
          BY <1>5, <4>1
      <4>3. ASSUME NEW k, NEW a, NEW b
            PROVE  Ref(f, k, a, b)' <=> k = "hand" /\ a = i /\ b = 0
        <5>1. Ref(f, k, a, b) => k = "message"
            BY <4>2 DEF Held
        <5>2. Ref(f, "message", a + 1, b) => a + 1 = 1
            BY <4>2 DEF Held
        <5>3. MsgRef(f, a + 1, b) => a + 1 = 1
            BY <5>2 DEF Ref
        <5>4. a \in DOMAIN queue' => a \in Nat /\ a # 0
            BY <1>3
        <5>5. ~MsgRef(f, a, b)'
            BY <1>8, <5>3, <5>4
        <5>6. HandRef(f, a)' <=> a = i
            BY <1>6, <2>8, <4>1
        <5> QED
            BY <1>7, <5>1, <5>5, <5>6 DEF Ref
      <4>4. f \in used' /\ f \notin Base /\ f \notin leaked'
          BY <1>0, <2>1, <4>2 DEF Held
      <4>5. Held(f, "hand", i, 0)'
          BY <4>3, <4>4 DEF Held, Base
      <4> QED
          BY <4>5, Zenon DEF FrameOK
    <3>2. CASE ~\E i \in 1..n : f = fs[i]
      <4>1. \A a : ~HandRef(f, a)'
          BY <2>8, <3>2
      <4> QED
          BY <1>9, <2>1, <3>2, <4>1
    <3> QED
        BY <3>1, <3>2
  <2>10. freeFrames' = Cardinality(Frame \ used')
      BY <2>1 DEF FInv
  <2> QED
      BY <1>10, <2>6, <2>7, <2>9, <2>10 DEF FInv
<1> QED
    BY <1>0, <1>11, <1>12

\* Until the call is torn: the page that is mapped moves from the hand to the
\* address space, and a failure at the first page frees what is in the hand.
LEMMA InstallPageInv ==
    ASSUME FInv, InstallPage
    PROVE  torn' \/ FInv'
<1> DEFINE t == call.task
           d == call.done
           fs == call.frames
           n == Len(fs)
           va == call.va
           v == va + d
           g0 == AllocOne(used, hint)
           p0 == fs[d + 1]
           next == IF d + 1 = n THEN Idle ELSE [call EXCEPT !.done = @ + 1]
<1>0. call.op = "install" /\ UNCHANGED <<root, queue, leaked>>
    BY DEF InstallPage
<1>1. TypeOK /\ TaskOK /\ CallOK /\ \A f \in Frame : FrameOK(f)
    BY DEF FInv
<1>2. call \in [op : {"install"}, task : Task, va : Window, frames : Seq(Frame), done : Nat]
    BY <1>0, <1>1, InstallCall
<1>3. /\ t \in Task /\ d \in Nat /\ fs \in Seq(Frame) /\ va \in Window /\ va \in Nat
      /\ n \in Nat /\ DOMAIN fs = 1..n /\ \A i \in 1..n : fs[i] \in Frame
    BY <1>2, FramesAssumption DEF Window
<1>4. /\ root[t] # NoFrame /\ d < n
      /\ \A j \in d..(n - 1) : va + j \in VPage /\ pages[t][va + j] = NoPage
  <2>1. call # Idle
      BY <1>0 DEF Idle
  <2> QED
      BY <1>0, <1>1, <2>1 DEF CallOK
<1>5. v \in VPage /\ pages[t][v] = NoPage /\ d + 1 \in 1..n /\ p0 \in Frame
    BY <1>3, <1>4
<1>6. Region(v) \in Regions
    BY <1>5, RegionIn
<1>7. g0 # NoFrame => g0 \in Frame \ used
    BY AllocOneIs
<1>8. \A f, a : HandRef(f, a) <=> a \in (d + 1)..n /\ fs[a] = f
    BY <1>0 DEF HandRef
<1>9. ASSUME NEW i \in (d + 1)..n PROVE fs[i] \in Frame /\ Held(fs[i], "hand", i, 0)
  <2>1. i \in 1..n /\ fs[i] \in Frame
      BY <1>3
  <2>2. Ref(fs[i], "hand", i, 0)
      BY <1>8 DEF Ref
  <2> QED
      BY <1>1, <2>1, <2>2, RefHeld
<1>a. \/ /\ FreeFrames(fs) /\ torn' = (torn \/ d > 0) /\ call' = Idle
         /\ UNCHANGED <<tables, pages>>
      \/ /\ tables[t][Region(v)] = NoFrame /\ g0 # NoFrame /\ TakeFrames({g0}, g0)
         /\ tables' = [tables EXCEPT ![t][Region(v)] = g0]
         /\ pages' = Mapped(t, v, p0, FALSE)
         /\ call' = next /\ UNCHANGED torn
      \/ /\ pages' = Mapped(t, v, p0, FALSE)
         /\ call' = next /\ UNCHANGED <<used, hint, freeFrames, tables, torn>>
    BY DEF InstallPage, Mapped
<1>10. \/ next = Idle /\ d + 1 = n
       \/ /\ next \in [op : {"install"}, task : Task, va : Window, frames : Seq(Frame), done : Nat]
          /\ next.op = "install" /\ next.task = t /\ next.va = va /\ next.frames = fs
          /\ next.done = d + 1 /\ d + 1 # n
  <2>1. CASE d + 1 = n
      BY <2>1
  <2>2. CASE d + 1 # n
      BY <1>0, <1>2, <2>2
  <2> QED
      BY <2>1, <2>2
<1> HIDE DEF g0, p0, next, v, n, fs, t, va, d
<1>11. Idle.op = "none"
    BY DEF Idle
<1>12. p0 = fs[d + 1] /\ d + 1 \in (d + 1)..n /\ d \in Nat /\ n \in Nat
    BY <1>3, <1>5 DEF p0
<1>13. Held(p0, "hand", d + 1, 0)
    BY <1>9, <1>12
<1>b. CASE /\ FreeFrames(fs) /\ torn' = (torn \/ d > 0) /\ call' = Idle
           /\ UNCHANGED <<tables, pages>>
  <2>a. d > 0 => torn'
      BY <1>b, Zenon
  <2>b. d = 0 \/ d > 0
      BY <1>12
  <2>0. SUFFICES ASSUME d = 0 PROVE FInv'
      BY <2>a, <2>b, Zenon
  <2>1. \A i, j \in DOMAIN fs : fs[i] = fs[j] => i = j
    <3> SUFFICES ASSUME NEW i \in DOMAIN fs, NEW j \in DOMAIN fs, fs[i] = fs[j] PROVE i = j
        OBVIOUS
    <3>1. i \in (d + 1)..n /\ j \in (d + 1)..n
        BY <1>3, <2>0
    <3>2. Held(fs[i], "hand", i, 0) /\ Held(fs[i], "hand", j, 0)
        BY <1>9, <3>1
    <3> QED
        BY <3>2 DEF Held
  <2>2. \A i \in DOMAIN fs : i \in (d + 1)..n /\ Held(fs[i], "hand", i, 0)
    <3>1. \A i \in DOMAIN fs : i \in (d + 1)..n
        BY <1>3, <2>0
    <3> QED
        BY <1>9, <3>1
  <2>3. \A i \in DOMAIN fs : fs[i] \in used
      BY <2>2 DEF Held
  <2>4. /\ used' = used \ {fs[i] : i \in DOMAIN fs} /\ used' \subseteq Frame
        /\ hint' \in 0..NFrames /\ freeFrames' \in Nat
        /\ freeFrames' = Cardinality(Frame \ used')
      BY <1>3, <1>b, <2>1, <2>3, FreeAll, Zenon
  <2>5. torn' \in BOOLEAN
      BY <1>b
  <2>6. TypeOK'
      BY <1>0, <1>1, <1>b, <2>4, <2>5, Zenon DEF TypeOK
  <2>7. TaskOK' /\ CallOK'
    <3>1. TaskOK'
        BY <1>0, <1>1, <1>b DEF TaskOK
    <3>2. CallOK'
        BY <1>11, <1>b DEF CallOK
    <3> QED
        BY <3>1, <3>2
  <2>8. \A m \in DOMAIN queue' : queue'[m] # <<>>
      BY <1>0 DEF FInv
  <2>9. ASSUME NEW f \in Frame PROVE FrameOK(f)'
    <3>1. /\ \A a : RootRef(f, a)' <=> RootRef(f, a)
          /\ \A a, b : TableRef(f, a, b)' <=> TableRef(f, a, b)
          /\ \A a, b : PageRef(f, a, b)' <=> PageRef(f, a, b)
          /\ \A a, b : MsgRef(f, a, b)' <=> MsgRef(f, a, b)
        BY <1>0, <1>b DEF RootRef, TableRef, PageRef, MsgRef
    <3>2. \A a : ~HandRef(f, a)'
        BY <1>11, <1>b DEF HandRef
    <3>3. CASE \E i \in DOMAIN fs : f = fs[i]
      <4>1. PICK i \in DOMAIN fs : f = fs[i]
          BY <3>3
      <4>2. Held(f, "hand", i, 0)
          BY <2>2, <4>1
      <4>3. ASSUME NEW k, NEW a, NEW b PROVE ~Ref(f, k, a, b)'
        <5>1. Ref(f, k, a, b) => k = "hand"
            BY <4>2 DEF Held
        <5> QED
            BY <3>1, <3>2, <5>1 DEF Ref
      <4>4. f \notin used' /\ f \notin Base /\ f \notin leaked'
          BY <1>0, <2>4, <4>1, <4>2 DEF Held
      <4> QED
          BY <4>3, <4>4, FrameLost
    <3>4. CASE ~\E i \in DOMAIN fs : f = fs[i]
      <4>1. \A a : ~HandRef(f, a)
        <5>1. \A a \in (d + 1)..n : a \in DOMAIN fs
            BY <1>3
        <5> QED
            BY <1>8, <3>4, <5>1
      <4>2. \A k, a, b : Ref(f, k, a, b)' <=> Ref(f, k, a, b)
          BY <3>1, <3>2, <4>1, RefSame, Zenon
      <4>3. (f \in used' <=> f \in used) /\ (f \in leaked' <=> f \in leaked)
          BY <1>0, <2>4, <3>4
      <4> QED
          BY <1>1, <4>2, <4>3, FrameSame
    <3> QED
        BY <3>3, <3>4
  <2> QED
      BY <2>4, <2>6, <2>7, <2>8, <2>9 DEF FInv
\* The rest is common to the two branches that map the page.
<1>c. ASSUME pages' = Mapped(t, v, p0, FALSE), call' = next
      PROVE  /\ pages' \in [Task -> [VPage -> [frame : Frame, exec : BOOLEAN] \cup {NoPage}]]
             /\ \A a \in Task, b \in VPage : ~(a = t /\ b = v) => pages'[a][b] = pages[a][b]
             /\ \A f \in Frame : \A a, b :
                   PageRef(f, a, b)' <=> PageRef(f, a, b) \/ (a = t /\ b = v /\ f = p0)
             /\ \A f, a : HandRef(f, a)' <=> HandRef(f, a) /\ a # d + 1
  <2>1. TypeOK /\ t \in Task /\ v \in VPage /\ pages[t][v] = NoPage /\ p0 \in Frame /\ FALSE \in BOOLEAN
      BY <1>1, <1>3, <1>5
  <2>2. /\ pages' \in [Task -> [VPage -> [frame : Frame, exec : BOOLEAN] \cup {NoPage}]]
        /\ \A a \in Task, b \in VPage : ~(a = t /\ b = v) => pages'[a][b] = pages[a][b]
        /\ \A f \in Frame : \A a, b :
              PageRef(f, a, b)' <=> PageRef(f, a, b) \/ (a = t /\ b = v /\ f = p0)
      BY <1>c, <2>1, PageMapped, ZenonT(20)
  <2>3. ASSUME NEW f, NEW a PROVE HandRef(f, a)' <=> HandRef(f, a) /\ a # d + 1
    <3>1. CASE next = Idle /\ d + 1 = n
      <4>1. ~HandRef(f, a)'
          BY <1>11, <1>c, <3>1 DEF HandRef
      <4>2. a \in (d + 1)..n => a = d + 1
          BY <1>12, <3>1
      <4> QED
          BY <1>8, <4>1, <4>2
    <3>2. CASE /\ next.op = "install" /\ next.frames = fs /\ next.done = d + 1
      <4>1. HandRef(f, a)' <=> a \in ((d + 1) + 1)..n /\ fs[a] = f
          BY <1>c, <3>2 DEF HandRef, n
      <4>2. a \in ((d + 1) + 1)..n <=> a \in (d + 1)..n /\ a # d + 1
          BY <1>12
      <4> QED
          BY <1>8, <4>1, <4>2
    <3> QED
        BY <1>10, <3>1, <3>2
  <2> QED
      BY <2>2, <2>3
<1>d. ASSUME pages' = Mapped(t, v, p0, FALSE), call' = next,
             torn' = torn,
             tables' \in [Task -> [Regions -> Frame \cup {NoFrame}]],
             \A a \in Task, b \in Regions : a # t => tables'[a][b] = tables[a][b],
             used' \subseteq Frame, hint' \in 0..NFrames, freeFrames' \in Nat,
             freeFrames' = Cardinality(Frame \ used'),
             \A f \in Frame : FrameOK(f)'
      PROVE  FInv'
  <2>1. /\ pages' \in [Task -> [VPage -> [frame : Frame, exec : BOOLEAN] \cup {NoPage}]]
        /\ \A a \in Task, b \in VPage : ~(a = t /\ b = v) => pages'[a][b] = pages[a][b]
      BY <1>c, <1>d, Zenon
  <2>2. TypeOK'
      BY <1>0, <1>1, <1>10, <1>d, <2>1, Zenon DEF TypeOK
  <2>3. \A m \in DOMAIN queue' : queue'[m] # <<>>
      BY <1>0 DEF FInv
  <2>4. TaskOK'
    <3>1. root' = root /\ root[t] # NoFrame /\ TaskOK
        BY <1>0, <1>1, <1>4
    <3>2. \A a \in Task, b \in Regions : a # t => tables'[a][b] = tables[a][b]
        BY <1>d
    <3> QED
      <4>1. SUFFICES ASSUME NEW a \in Task, root'[a] = NoFrame
                     PROVE  /\ \A r \in Regions : tables'[a][r] = NoFrame
                            /\ \A w \in VPage : pages'[a][w] = NoPage
          BY DEF TaskOK
      <4>2. a # t /\ root[a] = NoFrame
          BY <3>1, <4>1
      <4>3. /\ \A r \in Regions : tables[a][r] = NoFrame
            /\ \A w \in VPage : pages[a][w] = NoPage
          BY <3>1, <4>2 DEF TaskOK
      <4> QED
          BY <2>1, <3>2, <4>2, <4>3
  <2>5. CallOK'
    <3>1. CASE next = Idle
        BY <1>11, <1>d, <3>1, Zenon DEF CallOK
    <3>2. CASE /\ next.op = "install" /\ next.task = t /\ next.va = va /\ next.frames = fs
               /\ next.done = d + 1 /\ d + 1 # n
      <4>1. ASSUME NEW j \in (d + 1)..(n - 1)
            PROVE  va + j \in VPage /\ pages'[t][va + j] = NoPage
        <5>1. j \in d..(n - 1) /\ va + j # v
            BY <1>3, <1>12 DEF v
        <5> QED
            BY <1>3, <1>4, <2>1, <5>1, Zenon
      <4>2. d + 1 < n
          BY <1>4, <1>12, <3>2
      <4>3. call'.op = "install" /\ call'.task = t /\ call'.va = va /\ call'.frames = fs /\ call'.done = d + 1
          BY <1>d, <3>2
      <4>4. root'[t] # NoFrame
          BY <1>0, <1>4
      <4> QED
          BY <4>1, <4>2, <4>3, <4>4 DEF CallOK, n
    <3> QED
        BY <1>10, <3>1, <3>2
  <2> QED
      BY <1>d, <2>2, <2>3, <2>4, <2>5 DEF FInv
<1>e. ASSUME NEW f \in Frame
      PROVE  /\ \A a : RootRef(f, a)' <=> RootRef(f, a)
             /\ \A a, b : MsgRef(f, a, b)' <=> MsgRef(f, a, b)
             /\ HandRef(f, d + 1) <=> f = p0
  <2>1. /\ \A a : RootRef(f, a)' <=> RootRef(f, a)
        /\ \A a, b : MsgRef(f, a, b)' <=> MsgRef(f, a, b)
      BY <1>0 DEF RootRef, MsgRef
  <2>2. HandRef(f, d + 1) <=> f = p0
      BY <1>8, <1>12
  <2> QED
      BY <2>1, <2>2
\* The frame that is mapped.
<1>f. ASSUME NEW f \in Frame, f = p0,
             pages' = Mapped(t, v, p0, FALSE), call' = next,
             \A a, b : TableRef(f, a, b)' => TableRef(f, a, b), f \in used'
      PROVE  FrameOK(f)'
  <2>1. ASSUME NEW k, NEW a, NEW b PROVE Ref(f, k, a, b)' <=> k = "page" /\ a = t /\ b = v
    <3>1. Ref(f, k, a, b) <=> k = "hand" /\ a = d + 1 /\ b = 0
        BY <1>13, <1>f DEF Held
    <3>2. PageRef(f, a, b)' <=> PageRef(f, a, b) \/ (a = t /\ b = v)
      <4>1. \A h \in Frame : \A x, y :
               PageRef(h, x, y)' <=> PageRef(h, x, y) \/ (x = t /\ y = v /\ h = p0)
          BY <1>c, <1>f, Zenon
      <4> QED
          BY <1>f, <4>1
    <3>3. HandRef(f, a)' <=> HandRef(f, a) /\ a # d + 1
        BY <1>c, <1>f, Zenon
    <3>4. (RootRef(f, a)' <=> RootRef(f, a)) /\ (MsgRef(f, a, b)' <=> MsgRef(f, a, b))
        BY <1>e
    <3> QED
        BY <1>f, <3>1, <3>2, <3>3, <3>4 DEF Ref
  <2>2. f \in used' /\ f \notin Base /\ f \notin leaked'
      BY <1>0, <1>13, <1>f DEF Held
  <2> QED
      BY <2>1, <2>2, FrameTaken
<1>g. CASE /\ tables[t][Region(v)] = NoFrame /\ g0 # NoFrame /\ TakeFrames({g0}, g0)
           /\ tables' = [tables EXCEPT ![t][Region(v)] = g0]
           /\ pages' = Mapped(t, v, p0, FALSE)
           /\ call' = next /\ UNCHANGED torn
  <2>1. g0 \in Frame \ used /\ g0 # p0
      BY <1>7, <1>13, <1>g DEF Held
  <2>2. /\ used' = used \cup {g0} /\ used' \subseteq Frame
        /\ hint' \in 0..NFrames /\ freeFrames' \in Nat
        /\ freeFrames' = Cardinality(Frame \ used')
      BY <1>g, <2>1, TakeOne
  <2>3. /\ tables' \in [Task -> [Regions -> Frame \cup {NoFrame}]]
        /\ \A a \in Task, b \in Regions : a # t => tables'[a][b] = tables[a][b]
        /\ \A f \in Frame : \A a, b :
              TableRef(f, a, b)' <=> TableRef(f, a, b) \/ (a = t /\ b = Region(v) /\ f = g0)
    <3>1. /\ TypeOK /\ t \in Task /\ Region(v) \in Regions /\ tables[t][Region(v)] = NoFrame
          /\ g0 \in Frame /\ tables' = [tables EXCEPT ![t][Region(v)] = g0]
        BY <1>1, <1>3, <1>6, <1>g, <2>1
    <3> QED
        BY <3>1, TableMade, Zenon
  <2>4. /\ \A f \in Frame : \A a, b :
              PageRef(f, a, b)' <=> PageRef(f, a, b) \/ (a = t /\ b = v /\ f = p0)
        /\ \A f, a : HandRef(f, a)' <=> HandRef(f, a) /\ a # d + 1
      BY <1>c, <1>g
  <2>5. ASSUME NEW f \in Frame PROVE FrameOK(f)'
    <3>1. CASE f = p0
      <4>1. \A a, b : TableRef(f, a, b)' => TableRef(f, a, b)
          BY <2>1, <2>3, <3>1
      <4>2. f \in used'
          BY <1>13, <2>2, <3>1 DEF Held
      <4> QED
          BY <1>f, <1>g, <3>1, <4>1, <4>2
    <3>2. CASE f = g0
      <4>1. /\ f \notin Base /\ f \notin leaked
            /\ \A k, a, b : ~Ref(f, k, a, b)
          BY <1>1, <2>1, <3>2, FreeUnheld
      <4>2. ASSUME NEW k, NEW a, NEW b
            PROVE  Ref(f, k, a, b)' <=> k = "table" /\ a = t /\ b = Region(v)
        <5>1. ~Ref(f, k, a, b)
            BY <4>1
        <5> QED
            BY <1>e, <2>1, <2>3, <2>4, <3>2, <5>1 DEF Ref
      <4>3. f \in used' /\ f \notin leaked' /\ f \notin Base
          BY <1>0, <2>2, <3>2, <4>1
      <4> QED
          BY <4>2, <4>3, FrameTaken
    <3>3. CASE f # p0 /\ f # g0
      <4>1. /\ \A a, b : TableRef(f, a, b)' <=> TableRef(f, a, b)
            /\ \A a, b : PageRef(f, a, b)' <=> PageRef(f, a, b)
            /\ \A a : HandRef(f, a)' <=> HandRef(f, a)
          BY <1>e, <2>3, <2>4, <3>3
      <4>2. \A k, a, b : Ref(f, k, a, b)' <=> Ref(f, k, a, b)
          BY <1>e, <4>1, RefSame, Zenon
      <4> QED
          BY <1>0, <1>1, <2>2, <3>3, <4>2, FrameSame
    <3> QED
        BY <3>1, <3>2, <3>3
  <2> QED
      BY <1>d, <1>g, <2>2, <2>3, <2>5
<1>h. CASE /\ pages' = Mapped(t, v, p0, FALSE)
           /\ call' = next /\ UNCHANGED <<used, hint, freeFrames, tables, torn>>
  <2>1. /\ \A f \in Frame : \A a, b :
              PageRef(f, a, b)' <=> PageRef(f, a, b) \/ (a = t /\ b = v /\ f = p0)
        /\ \A f, a : HandRef(f, a)' <=> HandRef(f, a) /\ a # d + 1
      BY <1>c, <1>h
  <2>2. \A f, a, b : TableRef(f, a, b)' <=> TableRef(f, a, b)
      BY <1>h DEF TableRef
  <2>3. ASSUME NEW f \in Frame PROVE FrameOK(f)'
    <3>1. CASE f = p0
      <4>1. f \in used'
          BY <1>13, <1>h, <3>1 DEF Held
      <4> QED
          BY <1>f, <1>h, <2>2, <3>1, <4>1
    <3>2. CASE f # p0
      <4>1. /\ \A a, b : TableRef(f, a, b)' <=> TableRef(f, a, b)
            /\ \A a, b : PageRef(f, a, b)' <=> PageRef(f, a, b)
            /\ \A a : HandRef(f, a)' <=> HandRef(f, a)
          BY <1>e, <2>1, <2>2, <3>2
      <4>2. \A k, a, b : Ref(f, k, a, b)' <=> Ref(f, k, a, b)
          BY <1>e, <4>1, RefSame, Zenon
      <4> QED
          BY <1>0, <1>1, <1>h, <4>2, FrameSame
    <3> QED
        BY <3>1, <3>2
  <2>4. /\ tables' \in [Task -> [Regions -> Frame \cup {NoFrame}]]
        /\ used' \subseteq Frame /\ hint' \in 0..NFrames /\ freeFrames' \in Nat
        /\ freeFrames' = Cardinality(Frame \ used')
      BY <1>1, <1>h, Zenon DEF TypeOK, FInv
  <2> QED
      BY <1>d, <1>h, <2>3, <2>4
<1> QED
    BY <1>a, <1>b, <1>g, <1>h, Zenon

----------------------------------------------------------------------------
(* The invariant *)

LEMMA InitInv == Init => FInv
<1> SUFFICES ASSUME Init PROVE FInv
    OBVIOUS
<1>1. used = Base /\ Base \subseteq Frame /\ NoFrame \notin Frame
    BY BaseFrames DEF Init, Base
<1>2. freeFrames = Cardinality(Frame \ used) /\ freeFrames \in Nat
    BY <1>1, Finite DEF Init, Base
<1>3. /\ root = [t \in Task |-> NoFrame]
      /\ tables = [t \in Task |-> [r \in Regions |-> NoFrame]]
      /\ pages = [t \in Task |-> [v \in VPage |-> NoPage]]
      /\ queue = <<>> /\ call = Idle /\ leaked = {} /\ torn = FALSE /\ hint = 0
    BY DEF Init
<1>4. TypeOK
  <2>1. used \subseteq Frame /\ leaked \subseteq Frame /\ torn \in BOOLEAN
      BY <1>1, <1>3, Zenon
  <2>6. hint \in 0..NFrames
      BY <1>3, FramesAssumption
  <2>2. root \in [Task -> Frame \cup {NoFrame}]
      BY <1>3
  <2>3. tables \in [Task -> [Regions -> Frame \cup {NoFrame}]]
      BY <1>3
  <2>4. pages \in [Task -> [VPage -> [frame : Frame, exec : BOOLEAN] \cup {NoPage}]]
      BY <1>3
  <2>5. queue \in Seq(Seq(Frame)) /\ Len(queue) <= MaxInFlight
      BY <1>3, FramesAssumption
  <2> QED
      BY <1>2, <1>3, <2>1, <2>2, <2>3, <2>4, <2>5, <2>6 DEF TypeOK
<1>5. ASSUME NEW f \in Frame PROVE FrameOK(f)
  <2>1. NoPage.frame = NoFrame /\ Idle.op = "none"
      BY DEF NoPage, Idle
  <2>2. \A a, b : ~RootRef(f, a) /\ ~TableRef(f, a, b) /\ ~PageRef(f, a, b)
      BY <1>1, <1>3, <2>1 DEF RootRef, TableRef, PageRef
  <2>3. \A a, b : ~MsgRef(f, a, b) /\ ~HandRef(f, a)
    <3>1. DOMAIN queue = {} /\ call.op # "install"
        BY <1>3, <2>1
    <3> QED
        BY <3>1, Zenon DEF MsgRef, HandRef
  <2>4. \A k, a, b : ~Ref(f, k, a, b)
      BY <2>2, <2>3 DEF Ref
  <2> QED
      BY <1>1, <1>3, <2>4 DEF FrameOK, Unheld
<1>6. TaskOK /\ CallOK
    BY <1>3, Zenon DEF TaskOK, CallOK, Idle
<1> QED
    BY <1>2, <1>3, <1>4, <1>5, <1>6 DEF FInv

\* Nothing clears `torn', and until it is set every step keeps the invariant.
LEMMA NextInv == (torn \/ FInv) /\ [Next]_vars => (torn \/ FInv)'
<1>1. ASSUME torn, Next PROVE torn'
  <2>1. CASE InstallPage
      BY <1>1, <2>1, Zenon DEF InstallPage
  <2>2. CASE SpawnPage
      BY <1>1, <2>2, Zenon DEF SpawnPage, SpawnFails
  <2>3. ASSUME NEW t \in Task, Spawn(t) \/ Recv(t) PROVE torn'
      BY <1>1, <2>3, Zenon DEF Spawn, Recv
  <2>4. ASSUME NEW t \in Task, NEW v \in VPage, NEW n \in 1..MaxPages,
               Send(t, v, n) \/ SendHole(t, v, n) PROVE torn'
      BY <1>1, <2>4, Zenon DEF Send, SendHole
  <2> QED
      BY <1>1, <2>1, <2>2, <2>3, <2>4 DEF Next
<1>2. ASSUME FInv, Next PROVE torn' \/ FInv'
  <2>1. ASSUME NEW t \in Task, NEW v \in VPage, NEW n \in 1..MaxPages, v + n - 1 <= NPages,
               Send(t, v, n) \/ SendHole(t, v, n) PROVE FInv'
      BY <1>2, <2>1, SendInv, SendHoleInv
  <2>2. ASSUME NEW t \in Task, Spawn(t) \/ Recv(t) PROVE FInv'
      BY <1>2, <2>2, SpawnInv, RecvInv
  <2>3. CASE SpawnPage
      BY <1>2, <2>3, SpawnPageInv
  <2>4. CASE InstallPage
      BY <1>2, <2>4, InstallPageInv
  <2> QED
      BY <1>2, <2>1, <2>2, <2>3, <2>4 DEF Next
<1>3. ASSUME FInv, UNCHANGED vars PROVE FInv'
  <2>1. /\ used' = used /\ hint' = hint /\ freeFrames' = freeFrames /\ root' = root
        /\ tables' = tables /\ pages' = pages /\ queue' = queue /\ call' = call
        /\ leaked' = leaked /\ torn' = torn
      BY <1>3 DEF vars
  <2>2. TypeOK' /\ TaskOK' /\ CallOK'
      BY <1>3, <2>1 DEF FInv, TypeOK, TaskOK, CallOK
  <2>3. ASSUME NEW f \in Frame PROVE FrameOK(f)'
    <3>1. ASSUME NEW k, NEW a, NEW b PROVE Ref(f, k, a, b)' <=> Ref(f, k, a, b)
      <4>1. RootRef(f, a)' <=> RootRef(f, a)
          BY <2>1, Zenon DEF RootRef
      <4>2. TableRef(f, a, b)' <=> TableRef(f, a, b)
          BY <2>1, Zenon DEF TableRef
      <4>3. PageRef(f, a, b)' <=> PageRef(f, a, b)
          BY <2>1, Zenon DEF PageRef
      <4>4. MsgRef(f, a, b)' <=> MsgRef(f, a, b)
          BY <2>1, Zenon DEF MsgRef
      <4>5. HandRef(f, a)' <=> HandRef(f, a)
          BY <2>1, Zenon DEF HandRef
      <4> QED
          BY <4>1, <4>2, <4>3, <4>4, <4>5, Zenon DEF Ref
    <3> QED
        BY <1>3, <2>1, <3>1, FrameSame, Zenon DEF FInv
  <2> QED
      BY <1>3, <2>1, <2>2, <2>3 DEF FInv
<1>4. torn /\ UNCHANGED vars => torn'
    BY DEF vars
<1> QED
    BY <1>1, <1>2, <1>3, <1>4, Zenon

LEMMA Invariant == Spec => [](torn \/ FInv)
<1>1. Init => torn \/ FInv
    BY InitInv
<1> QED
    BY <1>1, NextInv, PTL DEF Spec

----------------------------------------------------------------------------
(* What it says of the places *)

\* The place that a reference stands for.
PlaceOf(k, a, b) == IF k = "root" THEN <<k, a>>
                    ELSE IF k = "hand" THEN <<k, a - call.done>> ELSE <<k, a, b>>

LEMMA HandIs ==
    ASSUME TypeOK
    PROVE  /\ call.op # "install" => Hand = <<>> /\ DOMAIN Hand = {}
           /\ call.op = "install" =>
                 /\ call.done \in Nat /\ Len(call.frames) \in Nat
                 /\ DOMAIN Hand = 1..(Len(call.frames) - call.done)
                 /\ \A i \in DOMAIN Hand : Hand[i] = call.frames[call.done + i]
<1>1. CASE call.op # "install"
    BY <1>1 DEF Hand
<1>2. CASE call.op = "install"
  <2>1. call.frames \in Seq(Frame) /\ call.done \in Nat /\ Len(call.frames) \in Nat
      BY <1>2, InstallCall
  <2>2. Hand = SubSeq(call.frames, call.done + 1, Len(call.frames))
      BY <1>2 DEF Hand
  <2>3. CASE call.done + 1 <= Len(call.frames)
    <3>1. Len(Hand) = Len(call.frames) - call.done /\ DOMAIN Hand = 1..(Len(call.frames) - call.done)
        BY <2>1, <2>2, <2>3, TailIs, Zenon
    <3>2. \A i \in 1..(Len(call.frames) - call.done) : Hand[i] = call.frames[call.done + i]
        BY <2>1, <2>2, <2>3, TailIs, Zenon
    <3> QED
        BY <1>2, <2>1, <3>1, <3>2
  <2>4. CASE ~(call.done + 1 <= Len(call.frames))
    <3>1. Hand = <<>> /\ 1..(Len(call.frames) - call.done) = {}
        BY <2>1, <2>2, <2>4
    <3> QED
        BY <1>2, <2>1, <3>1
  <2> QED
      BY <2>3, <2>4
<1> QED
    BY <1>1, <1>2

LEMMA AtIs ==
    ASSUME NEW a, NEW b
    PROVE  /\ At(<<"root", a>>) = root[a] /\ At(<<"table", a, b>>) = tables[a][b]
           /\ At(<<"page", a, b>>) = pages[a][b].frame
           /\ At(<<"message", a, b>>) = queue[a][b] /\ At(<<"hand", a>>) = Hand[a]
    BY DEF At

LEMMA PlaceParts ==
    ASSUME NEW p
    PROVE  p \in Place <=>
              \/ p \in {"root"} \X Task
              \/ p \in {"table"} \X Task \X Regions
              \/ p \in {"page"} \X Task \X VPage
              \/ \E m \in DOMAIN queue : p \in {"message"} \X {m} \X DOMAIN queue[m]
              \/ p \in {"hand"} \X DOMAIN Hand
<1>1. p \in UNION {{"message"} \X {m} \X DOMAIN queue[m] : m \in DOMAIN queue} <=>
         \E m \in DOMAIN queue : p \in {"message"} \X {m} \X DOMAIN queue[m]
    BY Zenon
<1> DEFINE R == {"root"} \X Task
           T == {"table"} \X Task \X Regions
           P == {"page"} \X Task \X VPage
           M == UNION {{"message"} \X {m} \X DOMAIN queue[m] : m \in DOMAIN queue}
           H == {"hand"} \X DOMAIN Hand
<1>3. p \in Place <=> p \in R \/ p \in T \/ p \in P \/ p \in M \/ p \in H
    BY Zenon DEF Place
<1> HIDE DEF R, T, P, M, H
<1> QED
    BY <1>1, <1>3, Zenon DEF R, T, P, M, H

LEMMA PlaceIs ==
    ASSUME NEW p \in Place
    PROVE  \/ \E a \in Task : p = <<"root", a>>
           \/ \E a \in Task, b \in Regions : p = <<"table", a, b>>
           \/ \E a \in Task, b \in VPage : p = <<"page", a, b>>
           \/ \E a \in DOMAIN queue : \E b \in DOMAIN queue[a] : p = <<"message", a, b>>
           \/ \E a \in DOMAIN Hand : p = <<"hand", a>>
<1>1. CASE p \in {"root"} \X Task
    BY <1>1
<1>2. CASE p \in {"table"} \X Task \X Regions
    BY <1>2
<1>3. CASE p \in {"page"} \X Task \X VPage
    BY <1>3
<1>4. ASSUME NEW a \in DOMAIN queue, p \in {"message"} \X {a} \X DOMAIN queue[a]
      PROVE  \E b \in DOMAIN queue[a] : p = <<"message", a, b>>
    BY <1>4
<1>5. CASE p \in {"hand"} \X DOMAIN Hand
    BY <1>5
<1> QED
    BY <1>1, <1>2, <1>3, <1>4, <1>5, PlaceParts, Zenon

LEMMA PlaceRef ==
    ASSUME FInv, NEW p \in Place, At(p) # NoFrame
    PROVE  At(p) \in Frame /\ \E k, a, b : Ref(At(p), k, a, b) /\ p = PlaceOf(k, a, b)
<1>0. TypeOK
    BY DEF FInv
<1>1. ASSUME NEW a \in Task, p = <<"root", a>>
      PROVE  At(p) \in Frame /\ Ref(At(p), "root", a, 0) /\ p = PlaceOf("root", a, 0)
  <2>1. At(p) = root[a]
      BY <1>1, AtIs, Zenon
  <2> QED
      BY <1>0, <1>1, <2>1, Zenon DEF TypeOK, Ref, RootRef, PlaceOf
<1>2. ASSUME NEW a \in Task, NEW b \in Regions, p = <<"table", a, b>>
      PROVE  At(p) \in Frame /\ Ref(At(p), "table", a, b) /\ p = PlaceOf("table", a, b)
  <2>1. At(p) = tables[a][b]
      BY <1>2, AtIs, Zenon
  <2>2. tables[a][b] \in Frame \cup {NoFrame}
      BY <1>0, TableFacts
  <2>3. At(p) \in Frame
      BY <2>1, <2>2
  <2> QED
      BY <1>2, <2>1, <2>3 DEF Ref, TableRef, PlaceOf
<1>3. ASSUME NEW a \in Task, NEW b \in VPage, p = <<"page", a, b>>
      PROVE  At(p) \in Frame /\ Ref(At(p), "page", a, b) /\ p = PlaceOf("page", a, b)
  <2>1. At(p) = pages[a][b].frame
      BY <1>3, AtIs, Zenon
  <2>2. At(p) \in Frame
      BY <1>0, <2>1, PageFacts
  <2> QED
      BY <1>3, <2>1, <2>2 DEF Ref, PageRef, PlaceOf
<1>4. ASSUME NEW a \in DOMAIN queue, NEW b \in DOMAIN queue[a], p = <<"message", a, b>>
      PROVE  At(p) \in Frame /\ Ref(At(p), "message", a, b) /\ p = PlaceOf("message", a, b)
  <2>1. At(p) = queue[a][b]
      BY <1>4, AtIs, Zenon
  <2>2. queue \in Seq(Seq(Frame))
      BY <1>0 DEF TypeOK
  <2>3. queue[a] \in Seq(Frame)
      BY <2>2
  <2>4. queue[a][b] \in Frame
      BY <2>3
  <2> QED
      BY <1>4, <2>1, <2>4 DEF Ref, MsgRef, PlaceOf
<1>5. ASSUME NEW a \in DOMAIN Hand, p = <<"hand", a>>
      PROVE  /\ At(p) \in Frame /\ Ref(At(p), "hand", call.done + a, 0)
             /\ p = PlaceOf("hand", call.done + a, 0)
  <2>1. /\ call.op = "install" /\ call.done \in Nat /\ Len(call.frames) \in Nat
        /\ a \in 1..(Len(call.frames) - call.done) /\ Hand[a] = call.frames[call.done + a]
      BY <1>0, HandIs
  <2>2. At(p) = call.frames[call.done + a]
      BY <1>5, <2>1, AtIs, Zenon
  <2>3. /\ call.done + a \in (call.done + 1)..Len(call.frames)
        /\ call.done + a \in 1..Len(call.frames) /\ (call.done + a) - call.done = a
      BY <2>1
  <2>4. call.frames \in Seq(Frame)
      BY <1>0, <2>1, InstallCall
  <2>5. At(p) \in Frame
      BY <2>2, <2>3, <2>4
  <2> QED
      BY <1>5, <2>1, <2>2, <2>3, <2>5 DEF Ref, HandRef, PlaceOf
<1> DEFINE Goal == At(p) \in Frame /\ \E k, a, b : Ref(At(p), k, a, b) /\ p = PlaceOf(k, a, b)
<1>6. ASSUME NEW a \in Task, p = <<"root", a>> PROVE Goal
    BY <1>1, <1>6, Zenon
<1>7. ASSUME NEW a \in Task, NEW b \in Regions, p = <<"table", a, b>> PROVE Goal
    BY <1>2, <1>7, Zenon
<1>8. ASSUME NEW a \in Task, NEW b \in VPage, p = <<"page", a, b>> PROVE Goal
    BY <1>3, <1>8, Zenon
<1>9. ASSUME NEW a \in DOMAIN queue, NEW b \in DOMAIN queue[a], p = <<"message", a, b>> PROVE Goal
    BY <1>4, <1>9, Zenon
<1>10. ASSUME NEW a \in DOMAIN Hand, p = <<"hand", a>> PROVE Goal
    BY <1>5, <1>10, Zenon
<1> HIDE DEF Goal
<1>11. Goal
    BY <1>6, <1>7, <1>8, <1>9, <1>10, PlaceIs
<1> QED
    BY <1>11 DEF Goal

LEMMA RefPlace ==
    ASSUME FInv, NEW f, NEW k, NEW a, NEW b, Ref(f, k, a, b)
    PROVE  \E p \in Place : At(p) = f
<1>0. TypeOK
    BY DEF FInv
<1>1. CASE k = "root" /\ RootRef(f, a)
  <2>1. <<"root", a>> \in Place /\ At(<<"root", a>>) = f
      BY <1>1, AtIs, PlaceParts, Zenon DEF RootRef
  <2> QED
      BY <2>1
<1>2. CASE k = "table" /\ TableRef(f, a, b)
  <2>1. <<"table", a, b>> \in Place /\ At(<<"table", a, b>>) = f
      BY <1>2, AtIs, PlaceParts, Zenon DEF TableRef
  <2> QED
      BY <2>1
<1>3. CASE k = "page" /\ PageRef(f, a, b)
  <2>1. <<"page", a, b>> \in Place /\ At(<<"page", a, b>>) = f
      BY <1>3, AtIs, PlaceParts, Zenon DEF PageRef
  <2> QED
      BY <2>1
<1>4. CASE k = "message" /\ MsgRef(f, a, b)
  <2>1. <<"message", a, b>> \in Place /\ At(<<"message", a, b>>) = f
      BY <1>4, AtIs, PlaceParts, Zenon DEF MsgRef
  <2> QED
      BY <2>1
<1>5. CASE k = "hand" /\ HandRef(f, a)
  <2>1. /\ call.op = "install" /\ call.done \in Nat /\ Len(call.frames) \in Nat
        /\ DOMAIN Hand = 1..(Len(call.frames) - call.done)
        /\ \A i \in DOMAIN Hand : Hand[i] = call.frames[call.done + i]
        /\ a \in (call.done + 1)..Len(call.frames) /\ call.frames[a] = f
      BY <1>0, <1>5, HandIs DEF HandRef
  <2>2. a - call.done \in DOMAIN Hand /\ call.done + (a - call.done) = a
    <3> DEFINE d == call.done
               n == Len(call.frames)
    <3>1. d \in Nat /\ n \in Nat /\ a \in (d + 1)..n /\ DOMAIN Hand = 1..(n - d)
        BY <2>1
    <3> HIDE DEF d, n
    <3>2. a - d \in 1..(n - d) /\ d + (a - d) = a
        BY <3>1
    <3> QED
        BY <3>1, <3>2, Zenon DEF d
  <2>3. <<"hand", a - call.done>> \in Place /\ At(<<"hand", a - call.done>>) = f
      BY <2>1, <2>2, AtIs, PlaceParts, Zenon
  <2> QED
      BY <2>3
<1> QED
    BY <1>1, <1>2, <1>3, <1>4, <1>5 DEF Ref

\* Until an install_pages is torn, no frame has two holders: whatever is sent,
\* dropped at a full port, refused or delivered, and wherever memory runs out,
\* no two of the roots, page tables, mapped pages, queued messages and the
\* message that sys_recv is mapping refer to the same frame.
THEOREM HeldOnceHolds == Spec => []HeldOnce
<1>1. ASSUME FInv, NEW p \in Place, NEW q \in Place, At(p) = At(q), At(p) # NoFrame PROVE p = q
  <2>1. PICK k, a, b : Ref(At(p), k, a, b) /\ p = PlaceOf(k, a, b)
      BY <1>1, PlaceRef
  <2>2. PICK k2, a2, b2 : Ref(At(p), k2, a2, b2) /\ q = PlaceOf(k2, a2, b2)
      BY <1>1, PlaceRef
  <2>3. FrameOK(At(p))
      BY <1>1, PlaceRef DEF FInv
  <2>4. Held(At(p), k, a, b)
      BY <2>1, <2>3, RefHeld
  <2>5. k2 = k /\ a2 = a /\ b2 = b
      BY <2>2, <2>4, Zenon DEF Held
  <2> QED
      BY <2>1, <2>2, <2>5, Zenon
<1>2. torn \/ FInv => HeldOnce
    BY <1>1, Zenon DEF HeldOnce
<1> QED
    BY <1>2, Invariant, PTL

\* Until an install_pages is torn, the bitmap marks exactly the frames that are
\* held, leaked or taken at boot, and no frame is two of these: no frame that
\* somebody holds can be handed out again, and none is lost on its way.
THEOREM BitmapExactHolds == Spec => []BitmapExact
<1> DEFINE held == {At(p) : p \in Place} \ {NoFrame}
<1>1. ASSUME FInv
      PROVE  /\ used = Reserved \cup Heap \cup leaked \cup held
             /\ held \cap (Reserved \cup Heap \cup leaked) = {}
  <2>1. used \subseteq Frame /\ leaked \subseteq Frame /\ \A f \in Frame : FrameOK(f)
      BY <1>1, Zenon DEF FInv, TypeOK
  <2>2. Reserved \cup Heap = Base /\ Base \subseteq Frame /\ NoFrame \notin Frame
      BY BaseFrames DEF Base
  <2>3. ASSUME NEW f PROVE f \in held <=> f \in Frame /\ \E k, a, b : Ref(f, k, a, b)
    <3>1. ASSUME f \in held PROVE f \in Frame /\ \E k, a, b : Ref(f, k, a, b)
      <4>1. PICK p \in Place : f = At(p) /\ At(p) # NoFrame
          BY <3>1
      <4> QED
          BY <1>1, <4>1, PlaceRef
    <3>2. ASSUME f \in Frame, NEW k, NEW a, NEW b, Ref(f, k, a, b) PROVE f \in held
      <4>1. \E p \in Place : At(p) = f
          BY <1>1, <3>2, RefPlace
      <4> QED
          BY <2>2, <3>2, <4>1
    <3> QED
        BY <3>1, <3>2
  <2> HIDE DEF held
  <2>4. \A f \in Frame :
           /\ f \in used <=> f \in Base \/ f \in leaked \/ f \in held
           /\ f \in held => f \notin Base /\ f \notin leaked
    <3> SUFFICES ASSUME NEW f \in Frame
                 PROVE  /\ f \in used <=> f \in Base \/ f \in leaked \/ f \in held
                        /\ f \in held => f \notin Base /\ f \notin leaked
        OBVIOUS
    <3>1. FrameOK(f) /\ (f \in held <=> \E k, a, b : Ref(f, k, a, b))
        BY <2>1, <2>3
    <3>2. CASE Unheld(f)
        BY <3>1, <3>2 DEF Unheld
    <3>3. ASSUME NEW k, NEW a, NEW b, Held(f, k, a, b)
          PROVE  f \in used /\ f \in held /\ f \notin Base /\ f \notin leaked
        BY <3>1, <3>3 DEF Held
    <3> QED
        BY <3>1, <3>2, <3>3 DEF FrameOK
  <2>5. held \subseteq Frame
      BY <2>3
  <2>6. \A f : f \in Reserved \cup Heap \cup leaked <=> f \in Base \/ f \in leaked
      BY <2>2
  <2> DEFINE fixed == Reserved \cup Heap \cup leaked
  <2>7. /\ fixed \subseteq Frame
        /\ \A f \in Frame :
              /\ f \in used <=> f \in fixed \/ f \in held
              /\ f \in held => f \notin fixed
      BY <2>1, <2>2, <2>4, <2>6
  <2> HIDE DEF fixed
  <2>8. used = fixed \cup held /\ held \cap fixed = {}
    <3>1. used \subseteq Frame
        BY <2>1
    <3>2. \A f : f \in used <=> f \in fixed \/ f \in held
        BY <2>5, <2>7, <3>1, Zenon
    <3>3. \A f : ~(f \in held /\ f \in fixed)
        BY <2>5, <2>7, Zenon
    <3> QED
        BY <3>2, <3>3
  <2> QED
      BY <2>8, Zenon DEF fixed
<1>2. torn \/ FInv => BitmapExact
    BY <1>1, Zenon DEF BitmapExact
<1> QED
    BY <1>2, Invariant, PTL

\* Until an install_pages is torn, FREE_FRAMES is the number of frames that the
\* bitmap has free, although every path adds and subtracts on its own.
THEOREM FreeCountExactHolds == Spec => []FreeCountExact
<1>1. torn \/ FInv => FreeCountExact
    BY Zenon DEF FInv, FreeCountExact
<1> QED
    BY <1>1, Invariant, PTL

----------------------------------------------------------------------------
(* The loop of alloc_one.  Its recursion has the solution below, and no other. *)

Turns == 0..(NFrames + 1)
Index == 0..NFrames
Wrap(p) == IF p >= NFrames THEN 0 ELSE p

\* One more turn of the loop, when g has the result of the turns after it.
OneTurn(u, start, g, k) ==
    [p \in Index |-> IF k = 0 THEN Loops
                     ELSE IF Wrap(p) \notin u THEN Wrap(p)
                     ELSE IF Wrap(p) + 1 = start THEN NoFrame
                     ELSE g[k - 1][Wrap(p) + 1]]

\* The frame that turn j looks at, from frame q on; the turns at which the loop
\* would return, and what it returns at the first of them.
Looked(q, j) == IF q + j < NFrames THEN q + j ELSE q + j - NFrames
Stops(u, start, q, k) == {j \in 0..(k - 1) : Looked(q, j) \notin u \/ Looked(q, j) + 1 = start}
Found(u, start, q, k) ==
    LET f == Looked(q, Least(Stops(u, start, q, k)))
    IN  IF Stops(u, start, q, k) = {} THEN Loops ELSE IF f \notin u THEN f ELSE NoFrame
Scan(u, start) == [k \in Turns |-> [p \in Index |-> Found(u, start, Wrap(p), k)]]

LEMMA LoopIs ==
    ASSUME NEW u, NEW start
    PROVE  AllocLoop(u, start)
             = (CHOOSE g : g = [k \in Turns |-> OneTurn(u, start, g, k)])[NFrames + 1][start]
    BY Zenon DEF AllocLoop, OneTurn, Turns, Index, Wrap

LEMMA WrapIs == \A p \in Index : Wrap(p) \in Frame /\ Wrap(p) + 1 \in Index /\ NFrames \in Nat \ {0}
<1>1. NFrames \in Nat \ {0}
  <2>1. NFrames \in Nat /\ \E f : f \in 0..(NFrames - 1)
      BY FramesAssumption, Zenon DEF Frame
  <2> QED
      BY <2>1
<1> QED
    BY <1>1 DEF Wrap, Index, Frame

\* From the next frame on, the loop is one turn ahead.
LEMMA LookedNext ==
    ASSUME NEW q \in Frame, NEW j \in 0..(NFrames - 1), NFrames \in Nat \ {0}
    PROVE  Looked(q, j + 1) = Looked(Wrap(q + 1), j)
    BY DEF Looked, Wrap, Frame

LEMMA FoundNext ==
    ASSUME NEW u, NEW start, NEW q \in Frame, NEW k \in 1..(NFrames + 1), NFrames \in Nat \ {0}
    PROVE  Found(u, start, q, k)
             = IF q \notin u THEN q ELSE IF q + 1 = start THEN NoFrame
               ELSE Found(u, start, Wrap(q + 1), k - 1)
<1> DEFINE S == Stops(u, start, q, k)
           R == Stops(u, start, Wrap(q + 1), k - 1)
           Stop(f) == f \notin u \/ f + 1 = start
<1>1. Looked(q, 0) = q /\ 0 \in 0..(k - 1) /\ q \in Nat
    BY DEF Looked, Frame
<1>2. S = {j \in 0..(k - 1) : Stop(Looked(q, j))} /\ R = {j \in 0..(k - 1 - 1) : Stop(Looked(Wrap(q + 1), j))}
    BY DEF Stops
<1>3. S \subseteq Nat /\ R \subseteq Nat
    BY DEF Stops
<1>4. CASE Stop(q)
  <2>1. 0 \in S
      BY <1>1, <1>2, <1>4
  <2>2. Least(S) \in S /\ Least(S) <= 0
      BY <1>3, <2>1, LeastIs
  <2>3. Least(S) = 0
      BY <1>3, <2>2
  <2> QED
      BY <1>1, <1>4, <2>1, <2>3 DEF Found
<1>5. CASE ~Stop(q)
  <2>1. ASSUME NEW j \in 0..(k - 1 - 1)
        PROVE  /\ j + 1 \in 0..(k - 1) /\ j \in 0..(NFrames - 1)
               /\ Looked(q, j + 1) = Looked(Wrap(q + 1), j)
    <3>1. j + 1 \in 0..(k - 1) /\ j \in 0..(NFrames - 1)
        OBVIOUS
    <3> QED
        BY <3>1, LookedNext
  <2>2. ASSUME NEW j \in R PROVE j + 1 \in S
      BY <1>2, <2>1
  <2>3. ASSUME NEW j \in S PROVE j # 0 /\ j - 1 \in R /\ j = (j - 1) + 1
    <3>1. j \in 0..(k - 1) /\ Stop(Looked(q, j))
        BY <1>2
    <3>2. j # 0
        BY <1>1, <1>5, <3>1
    <3>3. j - 1 \in 0..(k - 1 - 1) /\ (j - 1) + 1 = j
        BY <3>1, <3>2
    <3>4. Looked(q, (j - 1) + 1) = Looked(Wrap(q + 1), j - 1)
        BY <2>1, <3>3
    <3> QED
        BY <1>2, <3>1, <3>2, <3>3, <3>4
  <2>4. CASE S = {}
    <3>1. R = {}
        BY <2>2, <2>4
    <3> QED
        BY <1>5, <2>4, <3>1 DEF Found
  <2>5. CASE S # {}
    <3> DEFINE a == Least(S)
               b == Least(R)
    <3>1. R # {}
        BY <2>3, <2>5
    <3>2. /\ a \in S /\ \A y \in S : a <= y
          /\ b \in R /\ \A y \in R : b <= y
        BY <1>3, <2>5, <3>1, LeastIs
    <3> HIDE DEF a, b
    <3>3. a <= b + 1 /\ b <= a - 1 /\ a \in Nat /\ b \in Nat
        BY <1>3, <2>2, <2>3, <3>2
    <3>4. a = b + 1 /\ b \in 0..(k - 1 - 1)
        BY <1>2, <3>2, <3>3
    <3>5. Looked(q, a) = Looked(Wrap(q + 1), b)
        BY <2>1, <3>4
    <3> HIDE DEF S, R
    <3>6. Found(u, start, q, k) = IF Looked(q, a) \notin u THEN Looked(q, a) ELSE NoFrame
        BY <2>5, Zenon DEF Found, S, a
    <3>7. Found(u, start, Wrap(q + 1), k - 1)
            = IF Looked(Wrap(q + 1), b) \notin u THEN Looked(Wrap(q + 1), b) ELSE NoFrame
        BY <3>1, Zenon DEF Found, R, b
    <3> QED
        BY <1>5, <3>5, <3>6, <3>7
  <2> QED
      BY <2>4, <2>5
<1> QED
    BY <1>4, <1>5

LEMMA ScanIs ==
    ASSUME NEW u, NEW start
    PROVE  Scan(u, start) = [k \in Turns |-> OneTurn(u, start, Scan(u, start), k)]
<1> DEFINE g == Scan(u, start)
<1>1. ASSUME NEW k \in Turns, NEW p \in Index PROVE g[k][p] = OneTurn(u, start, g, k)[p]
  <2>0. /\ g[k][p] = Found(u, start, Wrap(p), k)
        /\ Wrap(p) \in Frame /\ Wrap(p) + 1 \in Index /\ NFrames \in Nat \ {0}
      BY WrapIs DEF Scan
  <2> DEFINE q == Wrap(p)
  <2>1. CASE k = 0
    <3>1. Stops(u, start, q, k) = {}
        BY <2>1 DEF Stops
    <3> QED
        BY <2>0, <2>1, <3>1 DEF Found, OneTurn
  <2>2. CASE k # 0
    <3>1. k \in 1..(NFrames + 1) /\ k - 1 \in Turns
        BY <2>0, <2>2 DEF Turns
    <3>2. g[k - 1][q + 1] = Found(u, start, Wrap(q + 1), k - 1)
        BY <2>0, <3>1 DEF Scan
    <3> HIDE DEF q, g
    <3>3. Found(u, start, q, k)
             = IF q \notin u THEN q ELSE IF q + 1 = start THEN NoFrame
               ELSE Found(u, start, Wrap(q + 1), k - 1)
        BY <2>0, <3>1, FoundNext DEF q
    <3>4. OneTurn(u, start, g, k)[p]
             = IF q \notin u THEN q ELSE IF q + 1 = start THEN NoFrame ELSE g[k - 1][q + 1]
        BY <2>2, Zenon DEF OneTurn, q
    <3> QED
        BY <2>0, <3>2, <3>3, <3>4 DEF q
  <2> QED
      BY <2>1, <2>2
<1>2. ASSUME NEW k \in Turns PROVE g[k] = OneTurn(u, start, g, k)
  <2>1. g[k] = [p \in Index |-> Found(u, start, Wrap(p), k)]
      BY DEF Scan
  <2> HIDE DEF g
  <2> QED
      BY <1>1, <2>1 DEF OneTurn
<1>3. g = [k \in Turns |-> g[k]]
    BY DEF Scan
<1> HIDE DEF g
<1> QED
    BY <1>2, <1>3 DEF g

\* ... and no other: two solutions would differ first at some number of turns.
LEMMA ScanOnly ==
    ASSUME NEW u, NEW start, NEW g, g = [k \in Turns |-> OneTurn(u, start, g, k)],
           NEW h, h = [k \in Turns |-> OneTurn(u, start, h, k)]
    PROVE  g = h
<1> DEFINE D == {k \in Turns : g[k] # h[k]}
<1>0. NFrames \in Nat \ {0}
    BY WrapIs, FramesAssumption DEF Index
<1>1. CASE D = {}
    BY <1>1
<1>2. CASE D # {}
  <2> DEFINE k == Least(D)
  <2>1. D \subseteq Nat
      BY DEF Turns
  <2>2. k \in D /\ \A y \in D : k <= y
      BY <1>2, <2>1, LeastIs
  <2> HIDE DEF k
  <2>3. k \in Turns /\ g[k] # h[k] /\ k \in Nat
      BY <2>1, <2>2
  <2>4. g[k] = OneTurn(u, start, g, k) /\ h[k] = OneTurn(u, start, h, k)
      BY <2>3, Zenon
  <2>5. k # 0
      BY <2>3, <2>4 DEF OneTurn
  <2>6. k - 1 \in Turns /\ ~(k <= k - 1)
      BY <1>0, <2>3, <2>5 DEF Turns
  <2>7. g[k - 1] = h[k - 1]
      BY <2>2, <2>6
  <2>8. OneTurn(u, start, g, k) = OneTurn(u, start, h, k)
      BY <2>7, Zenon DEF OneTurn
  <2> QED
      BY <2>3, <2>4, <2>8
<1> QED
    BY <1>1, <1>2

\* The first turn at which the loop returns, given the turn a that returns f.
LEMMA FoundAt ==
    ASSUME NEW u, NEW start, NEW q, NEW a \in 0..NFrames, NFrames \in Nat,
           Looked(q, a) \notin u,
           \A j \in 0..(a - 1) : Looked(q, j) \in u /\ Looked(q, j) + 1 # start
    PROVE  Found(u, start, q, NFrames + 1) = Looked(q, a)
<1> DEFINE S == Stops(u, start, q, NFrames + 1)
<1>1. S \subseteq Nat /\ a \in S
    BY DEF Stops
<1>2. Least(S) \in S /\ Least(S) <= a
    BY <1>1, LeastIs
<1>3. \A j \in S : j \in Nat /\ ~(j \in 0..(a - 1))
    BY DEF Stops
<1>4. Least(S) = a
    BY <1>2, <1>3
<1> QED
    BY <1>1, <1>4 DEF Found

\* From every hint but 0, and from 0 when a frame is free, the loop of alloc_one
\* ends and finds the first free frame from the hint on, round the end.
LEMMA LoopFinds ==
    ASSUME NEW u, NEW start \in Index, start = 0 => Frame \ u # {}
    PROVE  AllocLoop(u, start) = AllocOne(u, start)
<1> DEFINE q == Wrap(start)
           N == NFrames
           free == Frame \ u
           from == {f \in free : f >= start}
<1>0. N \in Nat \ {0} /\ start \in 0..N /\ q \in 0..(N - 1) /\ Frame = 0..(N - 1)
    BY WrapIs DEF Index, Frame
<1>1. AllocLoop(u, start) = Found(u, start, q, N + 1)
  <2> DEFINE Solves(g) == g = [k \in Turns |-> OneTurn(u, start, g, k)]
  <2>1. Solves(Scan(u, start))
      BY ScanIs
  <2>2. Solves(CHOOSE g : Solves(g))
    <3> HIDE DEF Solves
    <3> QED
      BY <2>1, Zenon
  <2>3. (CHOOSE g : Solves(g)) = Scan(u, start)
    <3>1. ASSUME NEW g, NEW h, Solves(g), Solves(h) PROVE g = h
      <4>1. /\ g = [k \in Turns |-> OneTurn(u, start, g, k)]
            /\ h = [k \in Turns |-> OneTurn(u, start, h, k)]
          BY <3>1, Zenon
      <4> QED
          BY <4>1, ScanOnly
    <3> HIDE DEF Solves
    <3> QED
        BY <2>1, <2>2, <3>1, Zenon
  <2>4. AllocLoop(u, start) = (CHOOSE g : Solves(g))[N + 1][start]
      BY LoopIs, Zenon
  <2>5. N + 1 \in Turns /\ start \in Index
      BY <1>0 DEF Turns
  <2>6. Scan(u, start)[N + 1][start] = Found(u, start, q, N + 1)
      BY <2>5 DEF Scan
  <2> QED
      BY <2>3, <2>4, <2>6, Zenon
<1>2. q = IF start = N THEN 0 ELSE start
    BY <1>0 DEF Wrap
<1>3. free \subseteq Nat /\ from \subseteq Nat
    BY <1>0
<1> HIDE DEF q, free
<1>4. CASE from # {}
  <2> DEFINE f == Least(from)
  <2>1. f \in from /\ \A y \in from : f <= y
      BY <1>3, <1>4, LeastIs
  <2> HIDE DEF f
  <2>2. f \in Frame /\ f \notin u /\ f >= start
      BY <2>1 DEF free
  <2>3. q = start /\ f - start \in 0..N /\ Looked(q, f - start) = f
      BY <1>0, <1>2, <2>2 DEF Looked
  <2>4. ASSUME NEW j \in 0..(f - start - 1) PROVE Looked(q, j) \in u /\ Looked(q, j) + 1 # start
    <3>1. Looked(q, j) = start + j /\ start + j \in Frame /\ start + j >= start /\ start + j < f
        BY <1>0, <2>2, <2>3 DEF Looked
    <3>2. start + j \notin from
        BY <1>0, <2>1, <2>2, <3>1
    <3>3. start + j \in u
        BY <3>1, <3>2 DEF free
    <3> QED
        BY <1>0, <3>1, <3>3
  <2>5. Found(u, start, q, N + 1) = f
      BY <1>0, <2>2, <2>3, <2>4, FoundAt
  <2>6. AllocOne(u, start) = f
      BY <1>4, Zenon DEF AllocOne, f, free
  <2> QED
      BY <1>1, <2>5, <2>6
<1>5. CASE from = {} /\ free # {}
  <2> DEFINE f == Least(free)
             a == IF start = N THEN f ELSE f + N - start
  <2>1. f \in free /\ \A y \in free : f <= y
      BY <1>3, <1>5, LeastIs, Zenon
  <2> HIDE DEF f
  <2>2. f \in Frame /\ f \notin u /\ f < start
      BY <1>0, <1>5, <2>1 DEF free
  <2>3. a \in 0..N /\ Looked(q, a) = f
      BY <1>0, <1>2, <2>2 DEF Looked
  <2>4. ASSUME NEW j \in 0..(a - 1) PROVE Looked(q, j) \in u /\ Looked(q, j) + 1 # start
    <3>1. Looked(q, j) \in Frame
        BY <1>0, <1>2, <2>2 DEF Looked
    <3>2. (Looked(q, j) >= start \/ Looked(q, j) < f) /\ Looked(q, j) + 1 # start
        BY <1>0, <1>2, <2>2 DEF Looked
    <3>3. Looked(q, j) \notin free
        BY <1>0, <1>5, <2>1, <2>2, <3>1, <3>2
    <3> QED
        BY <3>1, <3>2, <3>3 DEF free
  <2> HIDE DEF a
  <2>5. Found(u, start, q, N + 1) = f
      BY <1>0, <2>2, <2>3, <2>4, FoundAt
  <2>6. AllocOne(u, start) = f
      BY <1>5, Zenon DEF AllocOne, f, free
  <2> QED
      BY <1>1, <2>5, <2>6
<1>6. CASE free = {}
  <2> DEFINE S == Stops(u, start, q, N + 1)
  <2>1. start # 0 /\ from = {}
      BY <1>6 DEF free
  <2>2. ASSUME NEW j \in 0..N PROVE Looked(q, j) \in u
    <3>1. Looked(q, j) \in Frame
        BY <1>0 DEF Looked
    <3> QED
        BY <1>6, <3>1 DEF free
  <2>3. N - 1 \in 0..N /\ Looked(q, N - 1) + 1 = start
      BY <1>0, <1>2, <2>1 DEF Looked
  <2>4. S \subseteq 0..N /\ S \subseteq Nat /\ S # {}
      BY <1>0, <2>3 DEF Stops
  <2>5. Least(S) \in 0..N
      BY <2>4, LeastIs
  <2>6. Found(u, start, q, N + 1) = NoFrame
      BY <2>2, <2>4, <2>5 DEF Found
  <2>7. AllocOne(u, start) = NoFrame
      BY <1>6, <2>1, Zenon DEF AllocOne, free
  <2> QED
      BY <1>1, <2>6, <2>7
<1> QED
    BY <1>4, <1>5, <1>6

----------------------------------------------------------------------------
(* The types, after a torn install too.  FREE_FRAMES may then count a frame
   twice, so that it is at least the number of free frames; and the hint is 0
   only when there is one, because a search from 0 of a full memory never ends. *)

PmmOK ==
    /\ used \subseteq Frame /\ hint \in 0..NFrames /\ freeFrames \in Nat
    /\ freeFrames >= Cardinality(Frame \ used)
    /\ hint = 0 => used # Frame
InstallOK ==
    call.op = "install" =>
        call.done < Len(call.frames) /\ call.va + Len(call.frames) - 1 <= NPages
TInv == TypeOK /\ PmmOK /\ InstallOK /\ \A m \in DOMAIN queue : queue[m] # <<>>

LEMMA TakeOneOK ==
    ASSUME PmmOK, NEW f \in Frame \ used, TakeFrames({f}, f)
    PROVE  PmmOK'
<1>1. used' = used \cup {f} /\ hint' = f + 1 /\ freeFrames' = freeFrames - Cardinality({f})
    BY DEF TakeFrames
<1>2. used \in SUBSET Frame /\ freeFrames \in Nat /\ freeFrames >= Cardinality(Frame \ used)
    BY DEF PmmOK
<1>3. Cardinality(Frame \ used') = Cardinality(Frame \ used) - Cardinality({f})
    BY <1>1, <1>2, CountTake, Zenon
<1>4. used' \in SUBSET Frame
    BY <1>1, <1>2
<1>5. Cardinality(Frame \ used') \in Nat /\ Cardinality(Frame \ used) \in Nat /\ Cardinality({f}) \in Nat
    BY <1>2, <1>4, Finite
<1>6. hint' \in 0..NFrames /\ hint' # 0
    BY <1>1, FramesAssumption DEF Frame
<1>7. freeFrames' \in Nat /\ freeFrames' >= Cardinality(Frame \ used')
    BY <1>1, <1>2, <1>3, <1>5
<1>8. PmmOK' <=> /\ used' \subseteq Frame /\ hint' \in 0..NFrames /\ freeFrames' \in Nat
                 /\ freeFrames' >= Cardinality(Frame \ used')
                 /\ hint' = 0 => used' # Frame
    BY DEF PmmOK, Frame
<1> QED
    BY <1>4, <1>6, <1>7, <1>8

LEMMA TakeTwoOK ==
    ASSUME PmmOK, NEW f \in Frame \ used, NEW g \in Frame \ (used \cup {f}), TakeFrames({f, g}, g)
    PROVE  PmmOK'
<1>1. used' = used \cup {f, g} /\ hint' = g + 1 /\ freeFrames' = freeFrames - Cardinality({f, g})
    BY DEF TakeFrames
<1>2. used \in SUBSET Frame /\ freeFrames \in Nat /\ freeFrames >= Cardinality(Frame \ used)
    BY DEF PmmOK
<1>3. Cardinality(Frame \ used') = Cardinality(Frame \ used) - Cardinality({f, g})
    BY <1>1, <1>2, CountTakeTwo, Zenon
<1>4. used' \in SUBSET Frame
    BY <1>1, <1>2
<1>5. /\ Cardinality(Frame \ used') \in Nat /\ Cardinality(Frame \ used) \in Nat
      /\ Cardinality({f, g}) \in Nat
    BY <1>2, <1>4, Finite
<1>6. hint' \in 0..NFrames /\ hint' # 0
    BY <1>1, FramesAssumption DEF Frame
<1>7. freeFrames' \in Nat /\ freeFrames' >= Cardinality(Frame \ used')
    BY <1>1, <1>2, <1>3, <1>5
<1>8. PmmOK' <=> /\ used' \subseteq Frame /\ hint' \in 0..NFrames /\ freeFrames' \in Nat
                 /\ freeFrames' >= Cardinality(Frame \ used')
                 /\ hint' = 0 => used' # Frame
    BY DEF PmmOK, Frame
<1> QED
    BY <1>4, <1>6, <1>7, <1>8

\* Whatever is freed, once or twice.
LEMMA FreeOK ==
    ASSUME PmmOK, NEW fs \in Seq(Frame), FreeFrames(fs)
    PROVE  PmmOK'
<1> DEFINE gone == {fs[i] : i \in DOMAIN fs}
<1>1. /\ used' = used \ gone /\ hint' = Least(gone \cup {hint})
      /\ freeFrames' = freeFrames + Len(fs)
    BY Zenon DEF FreeFrames
<1>2. used \in SUBSET Frame /\ freeFrames \in Nat /\ freeFrames >= Cardinality(Frame \ used)
    BY DEF PmmOK
<1>3. gone \in SUBSET Frame /\ Len(fs) \in Nat /\ DOMAIN fs = 1..Len(fs)
    OBVIOUS
<1>4. Cardinality(gone) <= Len(fs)
  <2>1. fs \in [1..Len(fs) -> gone]
      BY <1>3
  <2>2. fs \in Surjection(1..Len(fs), gone)
      BY <1>3, <2>1 DEF Surjection
  <2>3. ExistsSurjection(1..Len(fs), gone)
      BY <2>2 DEF ExistsSurjection
  <2> HIDE DEF gone
  <2> QED
      BY <1>3, <2>3, FS_SurjCardinalityBound
<1> HIDE DEF gone
<1>5. /\ Cardinality(Frame \ used') <= Cardinality(Frame \ used) + Cardinality(gone)
      /\ Cardinality(gone) \in Nat /\ Cardinality(Frame \ used) \in Nat
      /\ Cardinality(Frame \ used') \in Nat
  <2>1. Frame \ used' = (Frame \ used) \cup gone
      BY <1>1, <1>3
  <2>2. (Frame \ used) \cap gone \in SUBSET Frame /\ Frame \ used \in SUBSET Frame
      BY <1>3
  <2>3. /\ IsFiniteSet(Frame \ used) /\ IsFiniteSet(gone) /\ Cardinality(gone) \in Nat
        /\ Cardinality(Frame \ used) \in Nat /\ Cardinality((Frame \ used) \cap gone) \in Nat
      BY <1>3, <2>2, Finite
  <2>4. Cardinality((Frame \ used) \cup gone)
          = Cardinality(Frame \ used) + Cardinality(gone) - Cardinality((Frame \ used) \cap gone)
      BY <2>3, FS_Union
  <2>5. Cardinality(Frame \ used') = Cardinality((Frame \ used) \cup gone)
      BY <2>1, Zenon
  <2>6. Cardinality(Frame \ used') \in Nat
      BY Finite
  <2> QED
      BY <2>3, <2>4, <2>5, <2>6
<1>6. freeFrames' \in Nat /\ freeFrames' >= Cardinality(Frame \ used')
    BY <1>1, <1>2, <1>3, <1>4, <1>5
<1>7. hint \in 0..NFrames /\ Frame \subseteq 0..NFrames /\ (hint = 0 => used # Frame)
    BY FramesAssumption DEF PmmOK, Frame
<1>8. hint' \in gone \cup {hint}
  <2>1. gone \cup {hint} \subseteq 0..NFrames
      BY <1>3, <1>7
  <2>2. gone \cup {hint} \subseteq Nat /\ gone \cup {hint} # {}
      BY <2>1, FramesAssumption
  <2> QED
      BY <1>1, <2>2, LeastIs
<1>9. hint' \in 0..NFrames /\ (hint' = 0 => used' # Frame)
  <2>1. CASE hint' = hint
      BY <1>1, <1>2, <1>7, <2>1, Zenon
  <2>2. CASE hint' \in gone
      BY <1>1, <1>3, <1>7, <2>2
  <2> QED
      BY <1>8, <2>1, <2>2
<1>10. PmmOK' <=> /\ used' \subseteq Frame /\ hint' \in 0..NFrames /\ freeFrames' \in Nat
                  /\ freeFrames' >= Cardinality(Frame \ used')
                  /\ hint' = 0 => used' # Frame
    BY DEF PmmOK, Frame
<1>11. used' \subseteq Frame
    BY <1>1, <1>2
<1> QED
    BY <1>6, <1>9, <1>10, <1>11

LEMMA PmmSame == ASSUME PmmOK, UNCHANGED pmm PROVE PmmOK'
    BY DEF PmmOK, pmm, Frame

PageTypes == [Task -> [VPage -> [frame : Frame, exec : BOOLEAN] \cup {NoPage}]]
TableTypes == [Task -> [Regions -> Frame \cup {NoFrame}]]
CallTypes ==
    {Idle} \cup [op : {"spawn"}, task : Task, page : Image]
           \cup [op : {"install"}, task : Task, va : Window, frames : Seq(Frame), done : Nat]

LEMMA TypeIs ==
    /\ TypeOK <=> /\ used \subseteq Frame /\ hint \in 0..NFrames /\ freeFrames \in Nat
                  /\ root \in [Task -> Frame \cup {NoFrame}] /\ tables \in TableTypes
                  /\ pages \in PageTypes /\ queue \in Seq(Seq(Frame)) /\ Len(queue) <= MaxInFlight
                  /\ call \in CallTypes /\ leaked \subseteq Frame /\ torn \in BOOLEAN
    /\ TypeOK' <=> /\ used' \subseteq Frame /\ hint' \in 0..NFrames /\ freeFrames' \in Nat
                   /\ root' \in [Task -> Frame \cup {NoFrame}] /\ tables' \in TableTypes
                   /\ pages' \in PageTypes /\ queue' \in Seq(Seq(Frame)) /\ Len(queue') <= MaxInFlight
                   /\ call' \in CallTypes /\ leaked' \subseteq Frame /\ torn' \in BOOLEAN
<1>1. \A x : x \in CallTypes <=>
          \/ x = Idle
          \/ x \in [op : {"spawn"}, task : Task, page : Image]
          \/ x \in [op : {"install"}, task : Task, va : Window, frames : Seq(Frame), done : Nat]
    BY Zenon DEF CallTypes
<1>2. call \in CallTypes <=>
          \/ call = Idle
          \/ call \in [op : {"spawn"}, task : Task, page : Image]
          \/ call \in [op : {"install"}, task : Task, va : Window, frames : Seq(Frame), done : Nat]
    BY <1>1, Zenon
<1>3. call' \in CallTypes <=>
          \/ call' = Idle
          \/ call' \in [op : {"spawn"}, task : Task, page : Image]
          \/ call' \in [op : {"install"}, task : Task, va : Window, frames : Seq(Frame), done : Nat]
    BY <1>1, Zenon
<1> QED
    BY <1>2, <1>3, Zenon DEF TypeOK, PageTypes, TableTypes, Frame, Idle, Image, Window, VPage, Regions,
                             Region, NoPage, NoFrame

LEMMA PagePut ==
    ASSUME pages \in PageTypes, NEW t \in Task, NEW v \in VPage, NEW p \in Frame, NEW x \in BOOLEAN,
           pages' = [pages EXCEPT ![t][v] = [frame |-> p, exec |-> x]]
    PROVE  pages' \in PageTypes
<1> DEFINE Page == [frame : Frame, exec : BOOLEAN] \cup {NoPage}
<1>1. [frame |-> p, exec |-> x] \in Page
    OBVIOUS
<1> HIDE DEF Page
<1>2. pages \in [Task -> [VPage -> Page]]
    BY DEF PageTypes, Page
<1>3. pages' \in [Task -> [VPage -> Page]]
    BY <1>1, <1>2
<1> QED
    BY <1>3 DEF PageTypes, Page

LEMMA TablePut ==
    ASSUME tables \in TableTypes, NEW t \in Task, NEW r \in Regions, NEW g \in Frame,
           tables' = [tables EXCEPT ![t][r] = g]
    PROVE  tables' \in TableTypes
<1>1. tables \in [Task -> [Regions -> Frame \cup {NoFrame}]] /\ g \in Frame \cup {NoFrame}
    BY DEF TableTypes
<1> QED
    BY <1>1 DEF TableTypes

LEMMA SpawnTypes ==
    ASSUME TInv, NEW t \in Task, Spawn(t)
    PROVE  TInv'
<1> DEFINE f == AllocOne(used, hint)
<1>1. /\ f # NoFrame /\ TakeFrames({f}, f) /\ root' = [root EXCEPT ![t] = f]
      /\ call' = [op |-> "spawn", task |-> t, page |-> 1]
      /\ UNCHANGED <<tables, pages, queue, leaked, torn>>
    BY DEF Spawn
<1>2. f \in Frame \ used
    BY <1>1, AllocOneIs
<1> HIDE DEF f
<1>3. PmmOK'
    BY <1>1, <1>2, TakeOneOK DEF TInv
<1>4. used' \subseteq Frame /\ hint' \in 0..NFrames /\ freeFrames' \in Nat
    BY <1>3 DEF PmmOK, Frame
<1>5. call' \in CallTypes /\ call'.op = "spawn"
    BY <1>1, FramesAssumption DEF CallTypes, Image
<1>6. root' \in [Task -> Frame \cup {NoFrame}]
  <2>1. root \in [Task -> Frame \cup {NoFrame}]
      BY DEF TInv, TypeOK
  <2> QED
      BY <1>1, <1>2, <2>1
<1>7. TypeOK'
    BY <1>1, <1>4, <1>5, <1>6, TypeIs, Zenon DEF TInv
<1>8. InstallOK'
    BY <1>5 DEF InstallOK
<1> QED
    BY <1>1, <1>3, <1>7, <1>8 DEF TInv

LEMMA SpawnPageTypes ==
    ASSUME TInv, SpawnPage
    PROVE  TInv'
<1> DEFINE t == call.task
           v == call.page
           f == AllocOne(used, hint)
           g == AllocOne(used \cup {f}, f + 1)
           next == IF v = ImagePages THEN Idle ELSE [call EXCEPT !.page = v + 1]
<1>0. PmmOK /\ pages \in PageTypes /\ tables \in TableTypes /\ leaked \subseteq Frame
    BY TypeIs DEF TInv
<1>1. t \in Task /\ v \in VPage /\ v \in Image /\ call \in [op : {"spawn"}, task : Task, page : Image]
  <2>1. call \in CallTypes /\ call.op = "spawn"
      BY TypeIs DEF TInv, SpawnPage
  <2>2. call \in [op : {"spawn"}, task : Task, page : Image]
      BY <2>1 DEF CallTypes, Idle
  <2> QED
      BY <2>2, FramesAssumption DEF Image, VPage
<1>2. next \in CallTypes /\ (next.op = "install" => FALSE)
  <2>1. CASE v = ImagePages
      BY <2>1 DEF CallTypes, Idle
  <2>2. CASE v # ImagePages
    <3>1. v + 1 \in Image
        BY <1>1, <2>2, FramesAssumption DEF Image
    <3>2. [call EXCEPT !.page = v + 1] \in [op : {"spawn"}, task : Task, page : Image]
        BY <1>1, <3>1
    <3> QED
        BY <2>2, <3>2 DEF CallTypes
  <2> QED
      BY <2>1, <2>2
<1>3. f # NoFrame => f \in Frame \ used
    BY AllocOneIs
<1>4. g # NoFrame => g \in Frame \ (used \cup {f})
    BY AllocOneIs
<1>5. Region(v) \in Regions
    BY <1>1 DEF Regions
<1> HIDE DEF t, v, f, g, next
<1>6. ASSUME NEW fs \in SUBSET Frame, SpawnFails(t, fs)
      PROVE  /\ root' \in [Task -> Frame \cup {NoFrame}] /\ tables' \in TableTypes /\ pages' \in PageTypes
             /\ call' = Idle /\ call' \in CallTypes /\ leaked' \subseteq Frame /\ UNCHANGED <<queue, torn>>
  <2>1. /\ leaked' = leaked \cup Owned(t) \cup fs /\ root' = [root EXCEPT ![t] = NoFrame]
        /\ tables' = [tables EXCEPT ![t] = [r \in Regions |-> NoFrame]]
        /\ pages' = [pages EXCEPT ![t] = [w \in VPage |-> NoPage]] /\ call' = Idle
        /\ UNCHANGED <<queue, torn>>
      BY <1>6 DEF SpawnFails
  <2>2. root \in [Task -> Frame \cup {NoFrame}]
      BY DEF TInv, TypeOK
  <2>3. Owned(t) \subseteq Frame
    <3>1. \A r \in Regions : tables[t][r] \in Frame \cup {NoFrame}
        BY <1>1, TableFacts DEF TInv
    <3>2. \A w \in VPage : pages[t][w].frame \in Frame \cup {NoFrame}
        BY <1>1, PageFacts DEF TInv
    <3> QED
        BY <1>1, <2>2, <3>1, <3>2 DEF Owned
  <2>4. root' \in [Task -> Frame \cup {NoFrame}]
      BY <1>1, <2>1, <2>2
  <2>5. tables' \in TableTypes
      BY <1>0, <1>1, <2>1 DEF TableTypes
  <2>6. pages' \in PageTypes
      BY <1>0, <1>1, <2>1 DEF PageTypes
  <2>7. Idle \in CallTypes
      BY DEF CallTypes
  <2> QED
      BY <1>0, <1>6, <2>1, <2>3, <2>4, <2>5, <2>6, <2>7
<1>7. \/ /\ f = NoFrame /\ SpawnFails(t, {}) /\ UNCHANGED pmm
      \/ /\ f # NoFrame /\ tables[t][Region(v)] = NoFrame /\ g = NoFrame
         /\ TakeFrames({f}, f) /\ SpawnFails(t, {f})
      \/ /\ f # NoFrame /\ tables[t][Region(v)] = NoFrame /\ g # NoFrame
         /\ TakeFrames({f, g}, g)
         /\ tables' = [tables EXCEPT ![t][Region(v)] = g]
         /\ pages' = [pages EXCEPT ![t][v] = [frame |-> f, exec |-> v \in ExecPages]]
         /\ call' = next
         /\ UNCHANGED <<root, queue, leaked, torn>>
      \/ /\ f # NoFrame /\ tables[t][Region(v)] # NoFrame
         /\ TakeFrames({f}, f)
         /\ pages' = [pages EXCEPT ![t][v] = [frame |-> f, exec |-> v \in ExecPages]]
         /\ call' = next
         /\ UNCHANGED <<root, tables, queue, leaked, torn>>
    BY Zenon DEF SpawnPage, t, v, f, g, next
<1>8. PmmOK'
    BY <1>0, <1>3, <1>4, <1>7, PmmSame, TakeOneOK, TakeTwoOK
<1>9. /\ root' \in [Task -> Frame \cup {NoFrame}] /\ tables' \in TableTypes /\ pages' \in PageTypes
      /\ call' \in CallTypes /\ call'.op # "install" /\ leaked' \subseteq Frame /\ UNCHANGED <<queue, torn>>
  <2>1. CASE \E fs \in SUBSET Frame : SpawnFails(t, fs)
      BY <1>6, <2>1 DEF Idle
  <2>2. CASE /\ f # NoFrame /\ call' = next /\ UNCHANGED <<root, queue, leaked, torn>>
             /\ pages' = [pages EXCEPT ![t][v] = [frame |-> f, exec |-> v \in ExecPages]]
             /\ \/ tables' = tables
                \/ g # NoFrame /\ tables' = [tables EXCEPT ![t][Region(v)] = g]
    <3>1. f \in Frame /\ (v \in ExecPages) \in BOOLEAN
        BY <1>3, <2>2
    <3>2. pages' \in PageTypes
        BY <1>0, <1>1, <2>2, <3>1, PagePut, Zenon
    <3>3. tables' \in TableTypes
        BY <1>0, <1>1, <1>4, <1>5, <2>2, TablePut
    <3>4. root \in [Task -> Frame \cup {NoFrame}]
        BY DEF TInv, TypeOK
    <3> QED
        BY <1>0, <1>2, <2>2, <3>2, <3>3, <3>4
  <2>3. CASE f = NoFrame /\ SpawnFails(t, {})
      BY <2>1, <2>3
  <2>4. CASE f # NoFrame /\ SpawnFails(t, {f})
      BY <1>3, <2>1, <2>4
  <2> QED
      BY <1>7, <2>2, <2>3, <2>4, Zenon
<1>10. used' \subseteq Frame /\ hint' \in 0..NFrames /\ freeFrames' \in Nat
    BY <1>8 DEF PmmOK, Frame
<1>11. TypeOK'
    BY <1>9, <1>10, TypeIs, Zenon DEF TInv
<1>12. InstallOK'
    BY <1>9 DEF InstallOK
<1> QED
    BY <1>8, <1>9, <1>11, <1>12 DEF TInv

LEMMA SendTypes ==
    ASSUME TInv, NEW t \in Task, NEW v \in VPage, NEW n \in 1..MaxPages, v + n - 1 <= NPages,
           Send(t, v, n)
    PROVE  TInv'
<1> DEFINE fs == [i \in 1..n |-> pages[t][v + i - 1].frame]
<1>0. /\ call = Idle /\ \A w \in Span(v, n) : MappedAt(t, w)
      /\ pages' = [pages EXCEPT ![t] =
                      [w \in VPage |-> IF w \in Span(v, n) THEN NoPage ELSE @[w]]]
      /\ \/ FreeFrames(fs) /\ UNCHANGED queue
         \/ ~(Len(queue) >= MaxInFlight) /\ queue' = Append(queue, fs) /\ UNCHANGED pmm
      /\ UNCHANGED <<root, tables, call, leaked, torn>>
    BY DEF Send
<1>1. /\ TypeOK /\ PmmOK /\ pages \in PageTypes /\ queue \in Seq(Seq(Frame)) /\ Len(queue) <= MaxInFlight
      /\ \A m \in DOMAIN queue : queue[m] # <<>>
    BY TypeIs DEF TInv
<1>2. n \in Nat /\ n > 0 /\ v \in Nat /\ NPages \in Nat /\ MaxInFlight \in Nat
    BY FramesAssumption DEF VPage
<1>3. ASSUME NEW i \in 1..n PROVE pages[t][v + i - 1].frame \in Frame
  <2>1. v + i - 1 \in Span(v, n) /\ v + i - 1 \in VPage
      BY <1>2 DEF Span, VPage
  <2>2. pages[t][v + i - 1] # NoPage
      BY <1>0, <2>1 DEF MappedAt
  <2> QED
      BY <1>1, <2>1, <2>2, PageFacts
<1>4. fs \in Seq(Frame) /\ fs # <<>>
  <2>1. fs \in [1..n -> Frame]
      BY <1>3
  <2>2. DOMAIN fs # {}
      BY <1>2
  <2> HIDE DEF fs
  <2>3. fs \in Seq(Frame)
      BY <1>2, <2>1
  <2> QED
      BY <2>2, <2>3
<1> HIDE DEF fs
<1>5. PmmOK'
    BY <1>0, <1>1, <1>4, FreeOK, PmmSame
<1>6. pages' \in PageTypes
  <2> DEFINE P == [frame : Frame, exec : BOOLEAN] \cup {NoPage}
  <2>1. pages \in [Task -> [VPage -> P]] /\ NoPage \in P
      BY <1>1 DEF PageTypes
  <2> HIDE DEF P
  <2>2. pages' \in [Task -> [VPage -> P]]
      BY <1>0, <2>1
  <2> QED
      BY <2>2 DEF PageTypes, P
<1>7. queue' \in Seq(Seq(Frame)) /\ Len(queue') <= MaxInFlight /\ \A m \in DOMAIN queue' : queue'[m] # <<>>
  <2>1. CASE queue' = queue
      BY <1>1, <2>1
  <2>2. CASE ~(Len(queue) >= MaxInFlight) /\ queue' = Append(queue, fs)
    <3>1. /\ queue' \in Seq(Seq(Frame)) /\ Len(queue') = Len(queue) + 1 /\ Len(queue) \in Nat
          /\ DOMAIN queue' = 1..(Len(queue) + 1) /\ DOMAIN queue = 1..Len(queue)
        BY <1>1, <1>4, <2>2
    <3>2. \A m \in 1..(Len(queue) + 1) : queue'[m] = IF m \in 1..Len(queue) THEN queue[m] ELSE fs
        BY <1>1, <1>4, <2>2
    <3> QED
        BY <1>1, <1>2, <1>4, <2>2, <3>1, <3>2
  <2> QED
      BY <1>0, <2>1, <2>2
<1>8. used' \subseteq Frame /\ hint' \in 0..NFrames /\ freeFrames' \in Nat
    BY <1>5 DEF PmmOK, Frame
<1>9. TypeOK'
    BY <1>0, <1>1, <1>6, <1>7, <1>8, TypeIs, Zenon
<1>10. InstallOK'
    BY <1>0, Zenon DEF InstallOK, Idle
<1> QED
    BY <1>5, <1>7, <1>9, <1>10 DEF TInv

LEMMA SendHoleTypes ==
    ASSUME TInv, NEW t \in Task, NEW v \in VPage, NEW n \in 1..MaxPages, v + n - 1 <= NPages,
           SendHole(t, v, n)
    PROVE  TInv'
<1> DEFINE holes == {w \in Span(v, n) : ~MappedAt(t, w)}
           hole == Least(holes)
<1>0. /\ call = Idle /\ holes # {}
      /\ pages' = [pages EXCEPT ![t] =
                      [w \in VPage |-> IF w \in v..(hole - 1) THEN [@[w] EXCEPT !.exec = FALSE]
                                       ELSE @[w]]]
      /\ UNCHANGED <<used, hint, freeFrames, root, tables, queue, call, leaked, torn>>
    BY DEF SendHole
<1>1. /\ TypeOK /\ PmmOK /\ pages \in PageTypes
      /\ \A m \in DOMAIN queue : queue[m] # <<>>
    BY TypeIs DEF TInv
<1>2. n \in Nat /\ v \in Nat /\ holes \subseteq Nat
    BY DEF VPage, Span
<1>3. hole \in Span(v, n) /\ \A w \in holes : hole <= w
    BY <1>0, <1>2, LeastIs
<1>4. ASSUME NEW w \in v..(hole - 1) PROVE pages[t][w] # NoPage
  <2>1. w \in Span(v, n) /\ ~(hole <= w)
      BY <1>2, <1>3 DEF Span
  <2> QED
      BY <1>3, <2>1 DEF MappedAt
<1> HIDE DEF hole, holes
<1> DEFINE P == [frame : Frame, exec : BOOLEAN] \cup {NoPage}
<1>5. ASSUME NEW w \in VPage, w \in v..(hole - 1) PROVE [pages[t][w] EXCEPT !.exec = FALSE] \in P
  <2>1. pages[t][w] \in [frame : Frame, exec : BOOLEAN]
      BY <1>1, <1>4, <1>5, PageFacts
  <2> QED
      BY <2>1, Zenon
<1>6. pages \in [Task -> [VPage -> P]]
    BY <1>1 DEF PageTypes
<1> HIDE DEF P
<1>7. [w \in VPage |-> IF w \in v..(hole - 1) THEN [pages[t][w] EXCEPT !.exec = FALSE]
                       ELSE pages[t][w]] \in [VPage -> P]
    BY <1>5, <1>6
<1>8. pages' \in [Task -> [VPage -> P]]
    BY <1>0, <1>6, <1>7
<1>9. pages' \in PageTypes
    BY <1>8 DEF PageTypes, P
<1>10. TypeOK'
    BY <1>0, <1>1, <1>9, TypeIs, Zenon
<1>11. InstallOK' /\ PmmOK'
  <2>1. InstallOK'
      BY <1>0, Zenon DEF InstallOK, Idle
  <2> QED
      BY <1>0, <1>1, <2>1, PmmSame DEF pmm
<1> QED
    BY <1>0, <1>1, <1>10, <1>11 DEF TInv

LEMMA RecvTypes ==
    ASSUME TInv, NEW t \in Task, Recv(t)
    PROVE  TInv'
<1> DEFINE fs == Head(queue)
           n == Len(fs)
           fit == FitsAt(t, n)
           taken == [op |-> "install", task |-> t, va |-> Least(fit), frames |-> fs, done |-> 0]
<1>0. /\ call = Idle /\ queue # <<>> /\ queue' = Tail(queue)
      /\ UNCHANGED <<root, tables, pages, leaked, torn>>
      /\ \/ FreeFrames(fs) /\ UNCHANGED call
         \/ fit # {} /\ call' = taken /\ UNCHANGED pmm
    BY Zenon DEF Recv
<1>1. /\ TypeOK /\ PmmOK /\ queue \in Seq(Seq(Frame)) /\ Len(queue) <= MaxInFlight /\ MaxInFlight \in Nat
      /\ \A m \in DOMAIN queue : queue[m] # <<>>
    BY TypeIs, FramesAssumption, Zenon DEF TInv
<1>2. /\ fs \in Seq(Frame) /\ fs # <<>> /\ queue' \in Seq(Seq(Frame)) /\ Len(queue') <= MaxInFlight
      /\ \A m \in DOMAIN queue' : queue'[m] # <<>>
  <2>1. 1 \in DOMAIN queue /\ fs = queue[1] /\ fs \in Seq(Frame)
      BY <1>0, <1>1
  <2>2. /\ queue' \in Seq(Seq(Frame)) /\ Len(queue') = Len(queue) - 1 /\ Len(queue) \in Nat
        /\ DOMAIN queue' = 1..(Len(queue) - 1) /\ DOMAIN queue = 1..Len(queue)
        /\ \A m \in 1..(Len(queue) - 1) : queue'[m] = queue[m + 1]
      BY <1>0, <1>1
  <2>3. \A m \in DOMAIN queue' : m + 1 \in DOMAIN queue /\ queue'[m] = queue[m + 1]
      BY <2>2
  <2>4. Len(queue') <= MaxInFlight
      BY <1>1, <2>2
  <2>5. \A m \in DOMAIN queue' : queue'[m] # <<>>
      BY <1>1, <2>3, Zenon
  <2>6. fs # <<>>
      BY <1>1, <2>1, Zenon
  <2> HIDE DEF fs
  <2> QED
      BY <2>1, <2>2, <2>4, <2>5, <2>6, Zenon
<1> HIDE DEF fs
<1>3. n \in Nat /\ n > 0 /\ Window \subseteq Nat /\ NPages \in Nat
    BY <1>2, FramesAssumption DEF Window
<1>4. fit # {} => Least(fit) \in fit
  <2>1. fit \subseteq Nat
      BY <1>3, Zenon DEF FitsAt
  <2> QED
      BY <2>1, LeastIs
<1>5. fit # {} => Least(fit) \in Window /\ Least(fit) + n - 1 <= NPages
  <2>1. \A x \in fit : x \in Window /\ (x + n - 1) + n <= NPages + 1
      BY DEF FitsAt
  <2>2. ASSUME NEW x \in fit PROVE x + n - 1 <= NPages
    <3>1. ASSUME NEW a \in Nat, NEW b \in Nat, b > 0, (a + b - 1) + b <= NPages + 1
          PROVE  a + b - 1 <= NPages
        BY <1>3, <3>1
    <3>2. x \in Nat /\ (x + n - 1) + n <= NPages + 1
        BY <1>3, <2>1, Zenon
    <3> HIDE DEF n, fit
    <3> QED
        BY <1>3, <3>1, <3>2
  <2> QED
      BY <1>4, <2>1, <2>2
<1>6. /\ fit # {} => taken \in CallTypes
      /\ taken.op = "install" /\ taken.va = Least(fit) /\ taken.frames = fs /\ taken.done = 0
  <2>1. fit # {} => taken \in [op : {"install"}, task : Task, va : Window, frames : Seq(Frame), done : Nat]
      BY <1>2, <1>5, Zenon
  <2> QED
      BY <2>1, Zenon DEF CallTypes
<1> HIDE DEF fit, taken
<1>7. PmmOK'
    BY <1>0, <1>1, <1>2, FreeOK, PmmSame
<1>8. call' \in CallTypes /\ InstallOK'
  <2>1. CASE call' = call
    <3>1. call' = Idle /\ call'.op # "install"
        BY <1>0, <2>1 DEF Idle
    <3> QED
        BY <3>1 DEF CallTypes, InstallOK
  <2>2. CASE fit # {} /\ call' = taken
    <3>1. call'.va = Least(fit) /\ call'.frames = fs /\ call'.done = 0
        BY <1>6, <2>2
    <3>2. call'.done < Len(call'.frames) /\ call'.va + Len(call'.frames) - 1 <= NPages
        BY <1>3, <1>5, <2>2, <3>1
    <3> QED
        BY <1>6, <2>2, <3>2 DEF InstallOK
  <2> QED
      BY <1>0, <2>1, <2>2
<1>9. used' \subseteq Frame /\ hint' \in 0..NFrames /\ freeFrames' \in Nat
    BY <1>7 DEF PmmOK, Frame
<1>10. TypeOK'
    BY <1>0, <1>1, <1>2, <1>8, <1>9, TypeIs, Zenon
<1> QED
    BY <1>2, <1>7, <1>8, <1>10 DEF TInv

\* A page is mapped, with or without a new page table; or the message, in which
\* there may be frames that are mapped already, is freed.
LEMMA InstallPageTypes ==
    ASSUME TInv, InstallPage
    PROVE  TInv'
<1> DEFINE t == call.task
           v == call.va + call.done
           g == AllocOne(used, hint)
           f == call.frames[call.done + 1]
           next == IF call.done + 1 = Len(call.frames) THEN Idle
                   ELSE [call EXCEPT !.done = @ + 1]
<1>1. /\ TypeOK /\ PmmOK /\ pages \in PageTypes /\ tables \in TableTypes /\ torn \in BOOLEAN
      /\ InstallOK /\ call.op = "install"
    BY TypeIs DEF TInv, InstallPage
<1>2. call \in [op : {"install"}, task : Task, va : Window, frames : Seq(Frame), done : Nat]
    BY <1>1, InstallCall
<1>3. /\ t \in Task /\ call.va \in Window /\ call.frames \in Seq(Frame) /\ call.done \in Nat
      /\ Len(call.frames) \in Nat /\ call.done < Len(call.frames)
      /\ call.va + Len(call.frames) - 1 <= NPages
    BY <1>1, <1>2 DEF InstallOK
<1>4. v \in VPage /\ f \in Frame
  <2>1. v \in VPage
      BY <1>3, FramesAssumption DEF Window, VPage
  <2>2. call.done + 1 \in 1..Len(call.frames)
      BY <1>3
  <2> QED
      BY <1>3, <2>1, <2>2
<1>5. Region(v) \in Regions
    BY <1>4 DEF Regions
<1>6. next \in CallTypes /\ (next.op = "install" =>
          next.done < Len(next.frames) /\ next.va + Len(next.frames) - 1 <= NPages)
  <2>1. CASE call.done + 1 = Len(call.frames)
      BY <2>1 DEF CallTypes, Idle
  <2>2. CASE call.done + 1 # Len(call.frames)
    <3>1. next = [call EXCEPT !.done = @ + 1]
        BY <2>2
    <3>2. next \in [op : {"install"}, task : Task, va : Window, frames : Seq(Frame), done : Nat]
        BY <1>2, <1>3, <3>1
    <3>3. next.done = call.done + 1 /\ next.frames = call.frames /\ next.va = call.va
        BY <1>2, <3>1
    <3> HIDE DEF next
    <3>4. next.done < Len(next.frames) /\ next.va + Len(next.frames) - 1 <= NPages
        BY <1>3, <2>2, <3>3
    <3> QED
        BY <3>2, <3>4 DEF CallTypes
  <2> QED
      BY <2>1, <2>2
<1>7. g # NoFrame => g \in Frame \ used
    BY AllocOneIs
<1> HIDE DEF t, v, f, g, next
<1>8. /\ \/ /\ FreeFrames(call.frames) /\ torn' = (torn \/ call.done > 0) /\ call' = Idle
            /\ UNCHANGED <<tables, pages>>
         \/ /\ g # NoFrame /\ TakeFrames({g}, g) /\ tables' = [tables EXCEPT ![t][Region(v)] = g]
            /\ pages' = [pages EXCEPT ![t][v] = [frame |-> f, exec |-> FALSE]]
            /\ call' = next /\ UNCHANGED torn
         \/ /\ pages' = [pages EXCEPT ![t][v] = [frame |-> f, exec |-> FALSE]]
            /\ call' = next /\ UNCHANGED <<used, hint, freeFrames, tables, torn>>
      /\ UNCHANGED <<root, queue, leaked>>
    BY Zenon DEF InstallPage, t, v, f, g, next
<1>9. PmmOK'
  <2>1. CASE FreeFrames(call.frames)
      BY <1>1, <1>3, <2>1, FreeOK
  <2>2. CASE g # NoFrame /\ TakeFrames({g}, g)
      BY <1>1, <1>7, <2>2, TakeOneOK
  <2>3. CASE UNCHANGED <<used, hint, freeFrames>>
      BY <1>1, <2>3, PmmSame DEF pmm
  <2> QED
      BY <1>8, <2>1, <2>2, <2>3
<1>10. pages' \in PageTypes /\ tables' \in TableTypes /\ torn' \in BOOLEAN
  <2>1. FALSE \in BOOLEAN
      OBVIOUS
  <2>2. pages' = [pages EXCEPT ![t][v] = [frame |-> f, exec |-> FALSE]] => pages' \in PageTypes
      BY <1>1, <1>3, <1>4, <2>1, PagePut, Zenon DEF t
  <2>3. g # NoFrame /\ tables' = [tables EXCEPT ![t][Region(v)] = g] => tables' \in TableTypes
      BY <1>1, <1>3, <1>5, <1>7, TablePut, Zenon DEF t
  <2>4. (torn \/ call.done > 0) \in BOOLEAN
      OBVIOUS
  <2> QED
      BY <1>1, <1>8, <2>2, <2>3, <2>4, Zenon
<1>11. call' \in CallTypes /\ InstallOK'
  <2>1. CASE call' = Idle
    <3>1. call' \in CallTypes /\ call'.op # "install"
        BY <2>1 DEF CallTypes, Idle
    <3> QED
        BY <3>1 DEF InstallOK
  <2>2. CASE call' = next
      BY <1>6, <2>2 DEF InstallOK
  <2> QED
      BY <1>8, <2>1, <2>2
<1>12. used' \subseteq Frame /\ hint' \in 0..NFrames /\ freeFrames' \in Nat
    BY <1>9 DEF PmmOK, Frame
<1>13. TypeOK'
    BY <1>1, <1>8, <1>10, <1>11, <1>12, TypeIs, Zenon
<1> QED
    BY <1>8, <1>9, <1>11, <1>13 DEF TInv

\* alloc_one starts with hint 0 and, for the heap left one, a free frame.
LEMMA TypesInit == Init => TInv
<1> SUFFICES ASSUME Init PROVE TInv
    OBVIOUS
<1>1. used = Base /\ Base \subseteq Frame /\ Frame \ Base # {}
    BY BaseFrames, BootAssumption DEF Init, Base
<1>2. freeFrames = Cardinality(Frame \ used) /\ freeFrames \in Nat
    BY <1>1, Finite DEF Init, Base
<1>3. /\ root = [t \in Task |-> NoFrame]
      /\ tables = [t \in Task |-> [r \in Regions |-> NoFrame]]
      /\ pages = [t \in Task |-> [v \in VPage |-> NoPage]]
      /\ queue = <<>> /\ call = Idle /\ leaked = {} /\ torn = FALSE /\ hint = 0
    BY DEF Init
<1>4. root \in [Task -> Frame \cup {NoFrame}] /\ tables \in TableTypes /\ pages \in PageTypes
    BY <1>3 DEF TableTypes, PageTypes
<1>5. queue \in Seq(Seq(Frame)) /\ Len(queue) <= MaxInFlight /\ hint \in 0..NFrames /\ DOMAIN queue = {}
    BY <1>3, FramesAssumption
<1>6. call \in CallTypes /\ call.op # "install" /\ leaked \subseteq Frame /\ torn \in BOOLEAN
    BY <1>3, Zenon DEF CallTypes, Idle
<1>7. TypeOK
    BY <1>1, <1>2, <1>4, <1>5, <1>6, TypeIs
<1>8. PmmOK
    BY <1>1, <1>2, <1>5 DEF PmmOK
<1> QED
    BY <1>5, <1>6, <1>7, <1>8 DEF TInv, InstallOK

LEMMA TypesNext == TInv /\ [Next]_vars => TInv'
<1> SUFFICES ASSUME TInv, [Next]_vars PROVE TInv'
    OBVIOUS
<1>1. ASSUME NEW t \in Task, Spawn(t) PROVE TInv'
    BY <1>1, SpawnTypes
<1>2. ASSUME NEW t \in Task, NEW v \in VPage, NEW n \in 1..MaxPages, v + n - 1 <= NPages, Send(t, v, n)
      PROVE  TInv'
    BY <1>2, SendTypes
<1>3. ASSUME NEW t \in Task, NEW v \in VPage, NEW n \in 1..MaxPages, v + n - 1 <= NPages,
             SendHole(t, v, n)
      PROVE  TInv'
    BY <1>3, SendHoleTypes
<1>4. ASSUME NEW t \in Task, Recv(t) PROVE TInv'
    BY <1>4, RecvTypes
<1>5. CASE SpawnPage
    BY <1>5, SpawnPageTypes
<1>6. CASE InstallPage
    BY <1>6, InstallPageTypes
<1>7. CASE UNCHANGED vars
  <2>1. UNCHANGED <<used, hint, freeFrames, root, tables, pages, queue, call, leaked, torn>>
      BY <1>7 DEF vars
  <2>2. PmmOK'
      BY <2>1, PmmSame DEF TInv, pmm
  <2>3. TypeOK'
      BY <2>1, TypeIs, Zenon DEF TInv
  <2>4. InstallOK'
      BY <2>1 DEF TInv, InstallOK
  <2> QED
      BY <2>1, <2>2, <2>3, <2>4 DEF TInv
<1> QED
    BY <1>1, <1>2, <1>3, <1>4, <1>5, <1>6, <1>7, Zenon DEF Next

LEMMA TypesInvariant == Spec => []TInv
    BY TypesInit, TypesNext, PTL DEF Spec

\* Every variable keeps its type, and with them the facts the code relies on
\* without a check: FREE_FRAMES never wraps below 0 ("fetch_sub", pmm.rs), the
\* hint stays within the bitmap, and an install stays within the window; all of
\* it after a torn install as well.
THEOREM FrameTypesHold == Spec => []TypeOK
<1>1. TInv => TypeOK
    BY DEF TInv
<1> QED
    BY <1>1, TypesInvariant, PTL

\* In every reachable state the loop of alloc_one ends and finds the first free
\* frame from the hint on, going round once, or nothing when none is free: for
\* every memory size and after a torn install too.
THEOREM ScanFindsFrameHolds == Spec => []ScanFindsFrame
<1>1. ASSUME TInv PROVE ScanFindsFrame
  <2>1. hint \in Index /\ (hint = 0 => Frame \ used # {})
      BY <1>1, Zenon DEF TInv, PmmOK, Index
  <2> QED
      BY <2>1, LoopFinds DEF ScanFindsFrame
<1> QED
    BY <1>1, TypesInvariant, PTL

=============================================================================
