------------------------------- MODULE Frames -------------------------------
(***************************************************************************)
(* Physical frames and who holds them: mm/pmm.rs, mm/vmm.rs, the loader of *)
(* user/mod.rs and fs/elf.rs, and the pages that sys_send takes out of one *)
(* address space and sys_recv maps into another (ipc/syscalls.rs, port.rs).*)
(*                                                                         *)
(* A page table is one level deep here.  The chain below a PML4 entry is   *)
(* one frame per region of PtSpan pages: the text (from 4 MiB) and the     *)
(* stack (below 2 GiB) of every task already need the upper levels that    *)
(* cover the IPC window.                                                   *)
(*                                                                         *)
(* System calls are atomic (see Sched).  The two that allocate in a loop   *)
(* take one step for each turn of it, and `call' keeps everybody else out  *)
(* meanwhile.                                                              *)
(***************************************************************************)
EXTENDS Integers, Sequences, FiniteSets

CONSTANTS NFrames,        \* Pmm::total_pfns
          Usable,         \* the frames of the usable memory regions
          HeapPages,      \* HEAP_SIZE in pages
          Task,
          ImagePages,     \* pages 1..ImagePages of a task are text, data, stack
          ExecPages,      \* the ones mapped executable
          NPages,         \* pages ImagePages+1..NPages are the IPC window
          PtSpan,         \* pages under one page table
          MaxPages,       \* bound: pages in a message
          MaxInFlight     \* messages queued in the port

Frame   == 0..(NFrames - 1)
NoFrame == -1
Loops   == -2          \* a search that never ends
VPage   == 1..NPages
Image   == 1..ImagePages
Window  == (ImagePages + 1)..NPages
Region(v) == (v - 1) \div PtSpan
Regions == {Region(v) : v \in VPage}

----------------------------------------------------------------------------
(* pmm.rs.  `used' is the set of frames whose bit is set. *)

Least(S) == CHOOSE x \in S : \A y \in S : x <= y

\* alloc_one: the first free frame from the hint on, round the end.
AllocOne(u, h) ==
    LET free == Frame \ u
        from == {f \in free : f >= h}
    IN  IF from # {} THEN Least(from) ELSE IF free # {} THEN Least(free) ELSE NoFrame

\* Faulty variant of AllocLoop: the index wraps before it meets the start.
AllocLoop_WrapsFirst(u, start) ==
    LET turn[k \in 0..(NFrames + 1)] == [p \in 0..NFrames |->
          LET pfn == IF p >= NFrames THEN 0 ELSE p
          IN  IF k = 0 THEN Loops
              ELSE IF pfn \notin u THEN pfn
              ELSE IF (pfn + 1) % NFrames = start THEN NoFrame
              ELSE turn[k - 1][(pfn + 1) % NFrames]]
    IN  turn[NFrames + 1][start]

\* The loop it is written as.  A search that looks at more frames than there
\* are goes round for ever.
AllocLoop(u, start) ==
    LET turn[k \in 0..(NFrames + 1)] == [p \in 0..NFrames |->
          LET pfn == IF p >= NFrames THEN 0 ELSE p
          IN  IF k = 0 THEN Loops
              ELSE IF pfn \notin u THEN pfn
              ELSE IF pfn + 1 = start THEN NoFrame
              ELSE turn[k - 1][pfn + 1]]
    IN  turn[NFrames + 1][start]

\* alloc_contig: the first run of n free frames.
AllocContig(u, n) ==
    Least({f \in Frame : f + n <= NFrames /\ \A i \in f..(f + n - 1) : i \notin u})

\* The bits set by init: memory that is not usable, frame 0 and the bitmap,
\* which sits at the start of the first usable region.
Reserved == (Frame \ Usable) \cup {0, Least(Usable)}
Heap == LET base == AllocContig(Reserved, HeapPages) IN base..(base + HeapPages - 1)

ASSUME FramesAssumption ==
    /\ NFrames \in Nat /\ Usable \subseteq Frame /\ Usable # {} /\ HeapPages \in Nat \ {0}
    /\ ImagePages \in Nat \ {0} /\ ExecPages \subseteq Image
    /\ NPages \in Nat /\ NPages > ImagePages
    /\ PtSpan \in Nat \ {0} /\ MaxPages \in Nat \ {0} /\ MaxInFlight \in Nat \ {0}

\* The heap found its run ("expect", heap.rs:19) and left a frame.
ASSUME BootAssumption ==
    Heap \subseteq Frame \ Reserved /\ Frame \ (Reserved \cup Heap) # {}

VARIABLES used,       \* Pmm::bitmap
          hint,       \* Pmm::next_hint
          freeFrames, \* FREE_FRAMES
          root,       \* AddressSpace::pml4_phys of each task
          tables,     \* the page tables of each task
          pages,      \* what they map
          queue,      \* the page lists of the messages in the port
          call,       \* the system call that is in its loop
          leaked,     \* frames that nothing refers to any more
          torn        \* an install_pages has failed after its first page

vars == <<used, hint, freeFrames, root, tables, pages, queue, call, leaked, torn>>
pmm  == <<used, hint, freeFrames>>

NoPage == [frame |-> NoFrame, exec |-> FALSE]
Idle   == [op |-> "none"]

----------------------------------------------------------------------------
Init ==
    /\ used = Reserved \cup Heap
    /\ hint = 0
    /\ freeFrames = Cardinality(Frame \ (Reserved \cup Heap))
    /\ root = [t \in Task |-> NoFrame]
    /\ tables = [t \in Task |-> [r \in Regions |-> NoFrame]]
    /\ pages = [t \in Task |-> [v \in VPage |-> NoPage]]
    /\ queue = <<>>
    /\ call = Idle
    /\ leaked = {}
    /\ torn = FALSE

\* Faulty variant of TakeFrames: the hint skips a frame.
TakeFrames_SkipsOne(fs, f) ==
    /\ used' = used \cup fs
    /\ hint' = f + 2
    /\ freeFrames' = freeFrames - Cardinality(fs)

\* alloc_frame hands out every frame of the set fs (one or two frames here),
\* the last one being f.
TakeFrames(fs, f) ==
    /\ used' = used \cup fs
    /\ hint' = f + 1
    /\ freeFrames' = freeFrames - Cardinality(fs)

\* Faulty variant of FreeFrames: FREE_FRAMES counts the message, not its frames.
FreeFrames_CountsOne(fs) ==
    LET gone == {fs[i] : i \in DOMAIN fs}
    IN  /\ used' = used \ gone
        /\ hint' = Least(gone \cup {hint})
        /\ freeFrames' = freeFrames + 1

\* free_frame, once for every element of the sequence fs.
FreeFrames(fs) ==
    LET gone == {fs[i] : i \in DOMAIN fs}
    IN  /\ used' = used \ gone
        /\ hint' = Least(gone \cup {hint})
        /\ freeFrames' = freeFrames + Len(fs)

----------------------------------------------------------------------------
(* spawn_from_path *)

Owned(t) == ({root[t]} \cup {tables[t][r] : r \in Regions}
                       \cup {pages[t][v].frame : v \in VPage}) \ {NoFrame}

\* new_user.  Without a free frame nothing happens.
Spawn(t) ==
    LET f == AllocOne(used, hint)
    IN  /\ call = Idle /\ root[t] = NoFrame
        /\ f # NoFrame
        /\ TakeFrames({f}, f)
        /\ root' = [root EXCEPT ![t] = f]
        /\ call' = [op |-> "spawn", task |-> t, page |-> 1]
        /\ UNCHANGED <<tables, pages, queue, leaked, torn>>

\* An AddressSpace has no Drop: what was mapped so far, and the frames in fs,
\* stay allocated ("M1 is happy to leak on OOM", vmm.rs:154).
SpawnFails(t, fs) ==
    /\ leaked' = leaked \cup Owned(t) \cup fs
    /\ root' = [root EXCEPT ![t] = NoFrame]
    /\ tables' = [tables EXCEPT ![t] = [r \in Regions |-> NoFrame]]
    /\ pages' = [pages EXCEPT ![t] = [v \in VPage |-> NoPage]]
    /\ call' = Idle
    /\ UNCHANGED <<queue, torn>>

\* One turn of map_anon: a frame for the page, then one for its table.
SpawnPage ==
    /\ call.op = "spawn"
    /\ LET t == call.task
           v == call.page
           f == AllocOne(used, hint)
           g == AllocOne(used \cup {f}, f + 1)
           next == IF v = ImagePages THEN Idle ELSE [call EXCEPT !.page = v + 1]
           page == [frame |-> f, exec |-> v \in ExecPages]
       IN  \/ /\ f = NoFrame
              /\ SpawnFails(t, {}) /\ UNCHANGED pmm
           \/ /\ f # NoFrame /\ tables[t][Region(v)] = NoFrame /\ g = NoFrame
              /\ TakeFrames({f}, f) /\ SpawnFails(t, {f})
           \/ /\ f # NoFrame /\ tables[t][Region(v)] = NoFrame /\ g # NoFrame
              /\ TakeFrames({f, g}, g)
              /\ tables' = [tables EXCEPT ![t][Region(v)] = g]
              /\ pages' = [pages EXCEPT ![t][v] = page]
              /\ call' = next
              /\ UNCHANGED <<root, queue, leaked, torn>>
           \/ /\ f # NoFrame /\ tables[t][Region(v)] # NoFrame
              /\ TakeFrames({f}, f)
              /\ pages' = [pages EXCEPT ![t][v] = page]
              /\ call' = next
              /\ UNCHANGED <<root, tables, queue, leaked, torn>>

----------------------------------------------------------------------------
(* sys_send: steal_pages and try_push *)

Span(v, n) == v..(v + n - 1)
MappedAt(t, v) == pages[t][v] # NoPage

\* Faulty variant of Send: the sender keeps its mapping.
Send_KeepsPages(t, v, n) ==
    LET fs == [i \in 1..n |-> pages[t][v + i - 1].frame]
    IN  /\ call = Idle /\ root[t] # NoFrame
        /\ \A w \in Span(v, n) : MappedAt(t, w)
        /\ IF Len(queue) >= MaxInFlight
           THEN FreeFrames(fs) /\ UNCHANGED queue
           ELSE queue' = Append(queue, fs) /\ UNCHANGED pmm
        /\ UNCHANGED <<root, tables, pages, call, leaked, torn>>

\* Faulty variant of Send: a message dropped at a full port keeps its frames.
Send_LeaksDropped(t, v, n) ==
    LET fs == [i \in 1..n |-> pages[t][v + i - 1].frame]
    IN  /\ call = Idle /\ root[t] # NoFrame
        /\ \A w \in Span(v, n) : MappedAt(t, w)
        /\ pages' = [pages EXCEPT ![t] =
                        [w \in VPage |-> IF w \in Span(v, n) THEN NoPage ELSE @[w]]]
        /\ IF Len(queue) >= MaxInFlight
           THEN UNCHANGED queue
           ELSE queue' = Append(queue, fs)
        /\ UNCHANGED <<used, hint, freeFrames, root, tables, call, leaked, torn>>

\* Every page of the range is mapped.  The message takes the frames; a full
\* port drops it, and Drop frees them.
Send(t, v, n) ==
    LET fs == [i \in 1..n |-> pages[t][v + i - 1].frame]
    IN  /\ call = Idle /\ root[t] # NoFrame
        /\ \A w \in Span(v, n) : MappedAt(t, w)
        /\ pages' = [pages EXCEPT ![t] =
                        [w \in VPage |-> IF w \in Span(v, n) THEN NoPage ELSE @[w]]]
        /\ IF Len(queue) >= MaxInFlight
           THEN FreeFrames(fs) /\ UNCHANGED queue
           ELSE queue' = Append(queue, fs) /\ UNCHANGED pmm
        /\ UNCHANGED <<root, tables, call, leaked, torn>>

\* The range has a hole (EFAULT).  The pages before the first hole have been
\* taken and are mapped again, always writable and not executable.
SendHole(t, v, n) ==
    LET hole == Least({w \in Span(v, n) : ~MappedAt(t, w)})
    IN  /\ call = Idle /\ root[t] # NoFrame
        /\ \E w \in Span(v, n) : ~MappedAt(t, w)
        /\ pages' = [pages EXCEPT ![t] =
                        [w \in VPage |-> IF w \in v..(hole - 1) THEN [@[w] EXCEPT !.exec = FALSE]
                                         ELSE @[w]]]
        /\ UNCHANGED <<used, hint, freeFrames, root, tables, queue, call, leaked, torn>>

----------------------------------------------------------------------------
(* sys_recv: find_user_vm_range and install_pages *)

\* The loop stops as soon as n pages from the current one on would pass the
\* end of the window, wherever the run it is counting began.
FitsAt(t, n) ==
    {v \in Window : /\ (v + n - 1) + n <= NPages + 1
                    /\ \A w \in Span(v, n) : ~MappedAt(t, w)}

\* The message is dropped when its capabilities find no room (E2BIG) or its pages
\* no range (ENOMEM).
Recv(t) ==
    LET fs  == Head(queue)
        fit == FitsAt(t, Len(fs))
    IN  /\ call = Idle /\ root[t] # NoFrame
        /\ queue # <<>>
        /\ queue' = Tail(queue)
        /\ \/ FreeFrames(fs) /\ UNCHANGED call
           \/ /\ fit # {}
              /\ call' = [op |-> "install", task |-> t, va |-> Least(fit), frames |-> fs, done |-> 0]
              /\ UNCHANGED pmm
        /\ UNCHANGED <<root, tables, pages, leaked, torn>>

\* One turn of install_pages.  When map_4k finds no frame for a page table the
\* call returns ENOMEM, and the message, dropped, frees all of its frames,
\* those already mapped included.
InstallPage ==
    /\ call.op = "install"
    /\ LET t == call.task
           v == call.va + call.done
           g == AllocOne(used, hint)
           page == [frame |-> call.frames[call.done + 1], exec |-> FALSE]
           next == IF call.done + 1 = Len(call.frames) THEN Idle
                   ELSE [call EXCEPT !.done = @ + 1]
       IN  \/ /\ tables[t][Region(v)] = NoFrame /\ g = NoFrame
              /\ FreeFrames(call.frames)
              /\ torn' = (torn \/ call.done > 0)
              /\ call' = Idle
              /\ UNCHANGED <<tables, pages>>
           \/ /\ tables[t][Region(v)] = NoFrame /\ g # NoFrame
              /\ TakeFrames({g}, g)
              /\ tables' = [tables EXCEPT ![t][Region(v)] = g]
              /\ pages' = [pages EXCEPT ![t][v] = page]
              /\ call' = next
              /\ UNCHANGED torn
           \/ /\ tables[t][Region(v)] # NoFrame
              /\ pages' = [pages EXCEPT ![t][v] = page]
              /\ call' = next
              /\ UNCHANGED <<used, hint, freeFrames, tables, torn>>
    /\ UNCHANGED <<root, queue, leaked>>

----------------------------------------------------------------------------
Next ==
    \/ \E t \in Task :
         \/ Spawn(t)
         \/ \E v \in VPage : \E n \in 1..MaxPages :
              v + n - 1 <= NPages /\ (Send(t, v, n) \/ SendHole(t, v, n))
         \/ Recv(t)
    \/ SpawnPage
    \/ InstallPage

Spec == Init /\ [][Next]_vars

----------------------------------------------------------------------------
(* Properties *)

TypeOK ==
    /\ used \subseteq Frame /\ hint \in 0..NFrames /\ freeFrames \in Nat
    /\ root \in [Task -> Frame \cup {NoFrame}]
    /\ tables \in [Task -> [Regions -> Frame \cup {NoFrame}]]
    /\ pages \in [Task -> [VPage -> [frame : Frame, exec : BOOLEAN] \cup {NoPage}]]
    /\ queue \in Seq(Seq(Frame)) /\ Len(queue) <= MaxInFlight
    /\ \/ call = Idle
       \/ call \in [op : {"spawn"}, task : Task, page : Image]
       \/ call \in [op : {"install"}, task : Task, va : Window, frames : Seq(Frame), done : Nat]
    /\ leaked \subseteq Frame
    /\ torn \in BOOLEAN

\* The places that refer to a frame, and the frame each refers to.
Hand == IF call.op = "install" THEN SubSeq(call.frames, call.done + 1, Len(call.frames)) ELSE <<>>
Place == ({"root"} \X Task) \cup ({"table"} \X Task \X Regions)
         \cup ({"page"} \X Task \X VPage)
         \cup (UNION {{"message"} \X {m} \X DOMAIN queue[m] : m \in DOMAIN queue})
         \cup ({"hand"} \X DOMAIN Hand)
At(pl) == CASE pl[1] = "root"    -> root[pl[2]]
            [] pl[1] = "table"   -> tables[pl[2]][pl[3]]
            [] pl[1] = "page"    -> pages[pl[2]][pl[3]].frame
            [] pl[1] = "message" -> queue[pl[2]][pl[3]]
            [] pl[1] = "hand"    -> Hand[pl[2]]

\* Until an install_pages is torn, no frame has two holders, whatever is sent,
\* dropped, refused or delivered and wherever memory runs out ...
HeldOnce == torn \/ \A p, q \in Place : At(p) = At(q) /\ At(p) # NoFrame => p = q

\* ... and the bitmap marks exactly the frames that are held, leaked or were
\* taken at boot; in particular no mapped frame is free to be handed out
\* again, and no frame is lost on the way from one address space to another.
BitmapExact ==
    LET held == {At(p) : p \in Place} \ {NoFrame}
    IN  torn \/ /\ used = Reserved \cup Heap \cup leaked \cup held
                /\ held \cap (Reserved \cup Heap \cup leaked) = {}

\* FREE_FRAMES counts the free frames.
FreeCountExact == torn \/ freeFrames = Cardinality(Frame \ used)

\* The loop of alloc_one ends, and finds a frame if and only if one is free;
\* it is the first one from the hint on.  (The loop compares with its start
\* after the increment, so a search from hint 0 of a full memory never ends.)
ScanFindsFrame == AllocLoop(used, hint) = AllocOne(used, hint)

\* A frame that some address space maps is not free.  ("The frames now live in
\* the receiver's PT.  Prevent double-free", ipc/syscalls.rs:290.)
MappedIsUsed == \A t \in Task, v \in VPage : MappedAt(t, v) => pages[t][v].frame \in used

\* A send that is refused leaves the caller's address space as it was.
\* ("Transactional: if any page in the range is unmapped, the already-stolen
\* pages are re-mapped and an error is returned", vmm.rs:269.)
StealTransactional ==
    [][\A t \in Task, v \in VPage, n \in 1..MaxPages :
          v + n - 1 <= NPages /\ SendHole(t, v, n) => pages' = pages]_vars

=============================================================================
