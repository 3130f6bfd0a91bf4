# personaOS in TLA+

A verification development for personaOS: TLA+ modules of its kernel, TLC
configurations that check them on small instances, and TLAPS proofs of their
safety properties for every value of the constants. `PROJECT.json` maps every definition to the lines it models
and lists components, runs, mutants, findings, hazards and theorems.

## The system

personaOS is a single-CPU x86-64 kernel in Rust with capability-based message
passing, its own file system and a handful of user programs.

| part | code | module |
|---|---|---|
| scheduler, process calls | `kernel/src/sched/`, `kernel/src/syscall.rs` | `Sched`, `SchedProofs` |
| capabilities, ports, registry | `kernel/src/ipc/` | `Ipc`, `IpcProofs` |
| frames, address spaces, page transfer | `kernel/src/mm/`, `kernel/src/user/mod.rs`, `ipc/syscalls.rs` | `Frames`, `FramesProofs` |
| PondFS | `kernel/src/fs/pondfs/`, `tools/mkpondfs/` | `PondFs`, `PondFsSteps`, `PondFsProofs` |
| VFS, fd tables, ramfs, file calls | `kernel/src/fs/mod.rs`, `fs/ramfs.rs`, `syscall.rs` | `Vfs`, abstract `FileSystem`, `VfsProofs` |
| NVMe driver, block layer | `kernel/src/drivers/nvme/`, `drivers/block.rs` | `Nvme`, abstract `BlockDevice`, `DriverProofs` |
| e1000 driver, DHCP | `kernel/src/drivers/e1000.rs` | `E1000`, `DriverProofs` |
| keyboard, terminal input | `kernel/src/drivers/ps2.rs`, `fs/mod.rs` | `Ps2`, `SessionProofs` |
| Spring, Reflection, desktop programs, services, shell | `user/*`, `libs/lily` | `Session`, `SessionProofs` |
| audio, PCI, serial, framebuffer | `kernel/src/drivers/` | not modelled |
| CPU set-up, interrupts, boot | `kernel/src/arch/`, `main.rs`, `bootloader/` | initial states only |
| libpersona, skipstone | `libs/` | not modelled |

How they interact: the user programs reach the kernel through system calls
only. `sys_recv` and `sys_waitpid` are the two that sleep; both use the wait
queues of the scheduler, under different keys. A message carries words, caps
and pages: the caps go from one cap table through a port to another (`Ipc`),
the pages go from one page table through the same port to another (`Frames`).
The file calls walk the mount table to PondFS or to the memory file system.
PondFS sits on the block device of the NVMe driver and keeps the CPU until the
device has answered: it uses `BlockDevice`, which `Nvme` implements. The user
programs use `ipc_recv` and `waitpid` in the way `Session` has them: a receive
that waits for a message is `ReceiverReturns` of `Ipc`, a wait for a child is
`WaitpidReturns` of `Sched`.

### What a step is

A system call enters with interrupts masked (`arch/x86_64/syscall.rs` masks IF)
and there is one CPU, so nothing runs between two statements of a call unless
the call gives the CPU away in `schedule()`. In every kernel module a call is
therefore one action, cut only where the code calls the scheduler (`Waitpid` and
`Resume`, `Recv` and `RecvResume`). The timer interrupts user mode and the idle
loop (`Tick`). Two modules use finer steps because something else can happen
inside a call: in `PondFs` the machine can lose power and the disk can refuse a
write between two blocks, and in `Frames` the two calls that allocate in a loop
take a step per turn, with all other calls kept out meanwhile. The drivers poll a
device that runs beside them, so in `Nvme` and `E1000` a step is one turn of a
polling loop, or what the driver does between two accesses that the device can
see. In `Session` a step is one system call of one program.

## The modules

**Sched**: `RUN_QUEUE`, `CURRENT`, `WAIT_QUEUES`, `TASKS` and the fields of
`Task` that scheduling looks at. Actions: `Tick`, `Yield`, `Spawn`, `Exit`,
`Kill`, `Waitpid`, `Resume`. `Schedule(q, prev, st)` is `schedule()` as a
function of the queue, the previous task and the states; `WakeQueues` is
`wake_all`, whose `swap_remove` makes the order of the woken tasks depend on the
history of the wait queue and is taken to be any order. Stacks and address
spaces do not appear: `switch_context` either runs the task that `CURRENT`
names or the kernel is lost.

**Ipc**: cap tables, ports, the registry, and which task is inside `sys_recv`.
Actions: `PortCreate`, `CapDrop`, `CapDup`, `Send`, `SendRefused`, `Recv`,
`RecvResume`, `Publish`, `Lookup`. A message is the sequence of its caps. The
scheduler appears as what it promises: a parked task does nothing until its key
is woken.

**Frames**: the frame bitmap with hint and free count, the page table of every
task, the page lists of queued messages. Actions: `Spawn` and `SpawnPage` (load a
program), `Send`, `SendHole` (`steal_pages`, with and without an unmapped page in
the range), `Recv` and `InstallPage`. A `Recv` may free the pages at once: there is
no range for them, or the receiver has left no room for the caps that came with
them. `AllocLoop` is the loop of `alloc_one` as
it is written, `AllocOne` what it is meant to find.

**PondFs**: bitmap, inode table and data blocks on the disk; bitmap and inode
cache in memory; the call under way. `Create` and `WriteAt` begin a call,
`WriteNewInode`, `AllocBlock`, `ZeroBlock`, `WriteBlock` and `Commit` write one
block each, in the order of the code; `IoError` refuses the block that is due;
`Crash` loses memory and mounts again. `made` and `allowed` are history: the
entries whose create has returned, and what each unit of a file may hold.
`Unlink` of an existing file ends in a state in which nothing but a crash is
possible, because that is what the code does. `AllocBlock` brings one byte of the
bitmap to the disk (`ByteOf`): a bit that a refused write has left in memory only
gets there when a later block takes a bit of the same byte. File data and entries
are units that do not cross blocks; on a real disk an entry may. The root is the
only directory here: no call makes another, and each is written by the same code.

**Vfs**: the inodes of ramfs, `MOUNTS`, the `FdTable` of one task. Actions:
`Open` (with `CreateFile`), `Read`, `Write`, `Lseek`, `Fstat`, `Close`, and `BadFd` for
any of them on a descriptor that is not open. Paths are sequences of characters,
because `resolve_mount` compares text before `lookup` splits it into names;
`Covers`, `ResolveMount`, `LookupPath` and `SplitParent` are those functions, and
`Walk` is the loop of `lookup`, character by character: at each slash, and at the
end, the component before it (`Component`) is looked up unless it is empty.
Boot mounts ramfs at `/boot` and either PondFS or the same ramfs at `/`; both are
initial states. What the two hold then is the constant `Image`, any two trees of
directories and files (`ImageAssumption`): `put_file` makes the directories that a
file needs, and mkpondfs copies a tree as it is, so a disk has `/bin`, `/sbin` and
`/etc`. No system call makes or removes a directory; files can be made in all of
them. PondFS appears with inodes that behave as those of ramfs do, but for the size
of its directories; its failures are in `PondFs`.
**FileSystem** is the promise: files by tree and words, in directories that stay
what they are, and descriptors with an offset; no mounts, walks or inodes.

**Nvme**: bring-up from `init_from_pci` to the I/O queue pair, then `read_blocks`
and `write_blocks`. `Submit` and `Poll` are the two halves of `submit_sync`, shared
by `AdminSubmit`/`AdminDone` and `Begin`/`Return`. The controller (`SetReady`,
`Execute`, `Answer`) is external: it takes commands in order, may fail any of
them, and answers when it likes. `held` are the frames the driver has allocated.
**BlockDevice** is the promise: a call is performed at one moment between its
begin and its return, or fails.

**E1000**: both descriptor rings with the card's registers, `configure` with the
loops of `send_packet` and `poll_offer` turn by turn, and `LAST_INFO`. Card and
network (`Transmit`, `Receive`) are external and bring any frame at any time; a
DHCP message for this machine comes only after a discover went out. An offer may
hold any address, 0.0.0.0 included, because the parser does not look at it.

**Ps2**: the set-1 decoder with its full tables, the two rings of bytes
(`ByteQueue`), the poll of the compositor and the read of the terminal. Every byte
carries the number of its key press, which the code does not have, so that a
property can tell equal bytes apart.

**Session**: Spring's script over all programs of the manifest, each of which may
be missing or fail to start; the services, Reflection and its clients, Depth and
the shell. Ports are queues with the limit of `port.rs`. Failures that cannot
happen in this system are left out: `ipc_port_create` has no error, the frame
buffer is always there when a program runs, and Spring's name is published before
the first program starts.

Calls that fail before they change anything are left out everywhere but in `Vfs`,
where the error is what the property is about.

## The runs

| run | checks | states |
|---|---|---|
| `sched` | `TypeOK`, `Placement`, `NoLostWakeup`, `NoOvertaking`, `DeadIsFinal`, `StarvationFree`, `WaitpidReturns` | 7 500 |
| `ipc_safety` | `TypeOK`, `UniqueRecv`, `UniqueRegistrar`, `SoleReceiver`, `ParkedPortEmpty` | 416 000 |
| `frames` | `TypeOK`, `HeldOnce`, `BitmapExact`, `FreeCountExact`, `ScanFindsFrame` | 52 000 |
| `pondfs` | `TypeOK`, `BlocksOwned`, `NoDangling`, `DirectoryDurable` | 508 000 |
| `files` | `DataDurable`, `NoHoles`, `IsFileSystem` | 485 000 |
| `parts` | `PartsTypeOK`; `Nvme`: `AnswerIsOwn`, `FramesBalanced`, `IsBlockDevice`, `CallReturns`; `E1000`: `RxRing`, `SendingOrStuck`, `InfoCurrent`, `ConfigureReturns`; `Ps2`: `NoLeak`, `LineAsEdited`; `Session`: `ReadyIsOwn`, `DrawnInOrder`, `TerminalAlone`, `SessionEnds`; `Ipc`: `ReceiverReturns` | 233 000 |

`parts` and `files` are unions: a variable chosen at the start says which of several
components that share no variable runs, and the others rest. A counterexample
of one component is a counterexample of the union and the other way round; the
fairness of a component is asked for only while it is the one that runs.

What they show, beyond the names:

* `IsBlockDevice` and `IsFileSystem` are refinements (`INSTANCE ... WITH`, the
  abstract specification as the property). The first says that a read or a write
  takes effect whole, at the moment the controller executes it, whatever the rings
  and phase bits go through; the second that however a path is written and
  through whichever mount and directories it leads, a read returns what was last
  written to the file of that name, and that a file is made exactly where its
  path has a directory for it. `FileSystem` has one rule that a reader may not expect and
  that the code needs: `//boot/x` does not lead to the mount at `/boot`, because
  the comparison with the mount point is made before slashes are merged.
* `SendingOrStuck` and `SessionEnds` name the one case in which the good outcome
  fails to come: after a transmission was given up and then completed late,
  `tx_tail` lags behind `TDT` and the next packets are not sent; and when
  surface-demo cannot be started, Reflection is never told to stop and Spring
  waits for it for ever. No doc promises otherwise, so these are not findings.
* `NoLeak` is about key presses, not bytes: a key that the compositor has taken is
  not read by the terminal. The converse does not hold. When the terminal has read a
  key the compositor's queue still has it, and as the code compares bytes, taking it
  from there drops a later, equal key from the terminal's queue.
* `InfoCurrent` does not say that a configured interface has an address, because an
  offer of 0.0.0.0 is accepted.

Six more runs end in a counterexample, each a place where the code does not do
what a comment or the changelog says:

| run | property | what the code does |
|---|---|---|
| `sched_kill` | `DeadIsFinal` | a task killed while it is parked stays in `WAIT_QUEUES`; the next wake-up of its key makes it run again |
| `ipc_refused` | `RefusedSendKeepsCaps` | a send refused because of its pages returns the caps under new ids |
| `frames_oom` | `MappedIsUsed` | `install_pages` that fails halfway leaves mappings of frames that are then freed |
| `frames_steal` | `StealTransactional` | the rollback of `steal_pages` takes the execute permission away |
| `pondfs_create` | `CreatedIsListed` | a create that fails after the directory got size 0 empties the directory in memory |
| `pondfs_unlink` | `UnlinkReturns` | `unlink` takes the file system lock twice |

The passing runs leave these cases out on purpose and say so: `sched` kills only
tasks that are not parked (`KillStates`), `frames` stops at a torn install
(`NotTorn`), `NoDangling` and `DirectoryDurable` hold until a create has been
torn (`torn`).

### Bounds

* `MCSched`: five tasks, two exit codes. Idle, Spring and three more give a
  parent with two children and a grandchild, and a run queue long enough for
  `swap_remove` in its middle. Ids are never reused, so the bound on spawns is
  also what makes the instance finite.
* `Ipc_safety`: two tasks, two ports, three cap ids each, one message of at most
  two caps per port. That covers a cap that is created, duplicated, sent,
  received under a new id and sent back, and a full port. A task that has used
  up its ids makes no further caps, so the run does not check for deadlock.
  The part of `Ipc` in `parts` has one port that holds two messages. `ScanLimit` stands for the 32
  of `sys_name`.
* `MCFrames`: sixteen frames, five of them taken at boot; two tasks with two image
  pages each use ten of the others and leave one. Messages have up to two pages,
  the port holds two of them, the window has three pages and each page its own
  page table, so that a page delivered may need a frame. The loader and the
  receiver both meet an empty allocator in the middle of their loops.
* `MCPondFs`: three blocks, two to a byte of the bitmap, four file inodes, two pointers per inode, one unit
  per block, three names: the disk fills up, the directory outgrows its
  pointers, and there are inodes left to create files after a failed create.
  `MCFiles` has one file of two blocks of two units and writes of up to three
  units, so that writes cover parts of blocks, cross them and leave gaps.
  Crashes and refused writes are not bounded.
* `Vfs` in `MCFiles`: two descriptors in all (they are never reused), files of up to
  two bytes, calls that move one byte, seeks by -1 and 1 from all three
  origins. The paths are the ones that tell a right path walk from a wrong one: a
  file below each mount, a name that begins like the mount point, the mount point
  with a trailing slash, a doubled slash before it, a file used as a
  directory, and below a directory of the disk a file that is there and one that is
  not. That directory does not exist when ramfs is at `/`, so the same paths are
  refused then. The byte written differs from those that the files hold at first and
  from the zero of a gap.
* `Nvme` in `MCParts`: rings of two entries on both queues, so that every call
  wraps or is about to, two command ids, two blocks of two bytes, a frame of one
  block and buffers of up to two blocks, so that every refusal happens. Transfers
  of several blocks are covered by `DriverProofs`, as all other sizes are.
* `E1000`: three receive and two transmit descriptors, two turns for each of the
  polling loops, counters that saturate at two; offers of an address and of
  0.0.0.0.
* `Ps2`: queues of two bytes, a line of three, four bytes per read; a letter,
  backspace, enter, escape, both edges of shift and the prefix of extended
  keys.
* `Session`: ports of seven messages instead of sixteen, which the six clients and
  the shutdown just fill; eight runs of vfsd from the shell, one more than
  Spring's port holds.

Symmetry is over the names and data of `PondFs` and the tasks of `Frames`, of which
only invariants are checked. `MCFiles` also has `IsFileSystem`, which is about `Vfs`
alone; no value that is permuted occurs there.

### Fairness

`Sched`'s `FairSpec` has strong fairness of `Tick`: the LAPIC timer is periodic,
and a tick that falls into a system call is pending when the call returns to
user mode, so no sequence of calls can keep it out. `Resume` is weakly fair: it
is kernel code that runs once its task has the CPU. System calls are taken to
end; the one that may not is a read from the terminal, which spins with
interrupts off until a key arrives. `Ipc`'s `FairSpec` gives `RecvResume` weak
fairness, which is `StarvationFree` of `Sched` seen from there. Nothing is
assumed about user programs there.

In `parts`: the NVMe driver polls without a limit and is weakly fair, and so is the
controller, without which no call could return (`CallReturns` says so). In `E1000`
only the driver's own steps are fair; card and network may do nothing for ever.
In `Session` the programs together are weakly fair: as long as one of them can make
a call, one does. That is less than `StarvationFree` of `Sched` gives to each of
them. The user leaves the shell at some time; a user who goes on running programs
is bounded by `MaxRuns`.

## The proofs

`SchedProofs` shows `Spec => []SchedInv` for any number of tasks, with
`SchedInv == TypeOK /\ Placement /\ NoLostWakeup`, from `SchedAssumption` and
`IdleSafe` (idle is not among the tasks killed). None of the three parts is
inductive alone. `Exit` and `Waitpid` need a runnable task other than the
caller, which is idle, alive and queued by `Placement`; `NoLostWakeup` needs
`Placement` to know that a blocked task has its entry under its own key, so that
the wake-up of its parent's key by a dying child reaches it; and `Placement`
needs that no task is queued twice for `swap_remove` to remove all of it. The
proof has lemmas on the queue operators (`ConcatQueues`, `RemoveTaskProperties`,
`ScheduleProperties`, `WakeProperties`) and one lemma per action. The theorems
hold for a kill in any state, parked included: a dead task that wakes up is
back on the run queue, in order; what is broken then is `DeadIsFinal`.
`TypeCorrect`, `PlacementHolds` and `NoLostWakeupHolds` follow.

Two action properties rest on `SchedInv`. `Orderly` says what any step does:
it keeps the order of the run queue, revives a dead task only through an entry that a
wait queue still has for it, and adds such entries for parked tasks only.
`NoOvertakingHolds` needs only this. `DeadIsFinalHolds` adds the invariant
`ParkedAlive` (entries of wait queues are of parked tasks), which is preserved as
long as no parked task is killed (`"Blocked" \notin KillStates`); `sched_kill`
shows that this hypothesis cannot be left out.

`IpcProofs` shows the same for `Ipc` from `IpcAssumption`: types and bounds,
`UniqueRecv`, `UniqueRegistrar`, `SoleReceiver` and `ParkedPortEmpty`, for any
tasks, names, number of ports, table size and message size. The core is that
every action moves caps or makes caps without RECV: `AtMostOne(L)` (no two caps
of `L` in all tables and queued messages) is shown to be
preserved by installing, removing and moving caps of `L`, once for the RECV caps
of a port and once for the registrar. A new port's RECV cap is the first one
because no cap names a port that has not been created (`OldPorts`), which is the
strengthening the proof adds. `SoleReceiver` follows from `UniqueRecv` because a
task inside `sys_recv` makes no other call and so keeps its cap.

`DriverProofs` shows for `Nvme`, from `NvmeAssumption`, for every depth of the rings, number of
command ids, size of blocks, frames and disk, that the driver takes no
completion but its own (`AnswersAreOwn`), that its frames are balanced
(`FramesAreBalanced`) and that it implements the block device
(`ImplementsBlockDevice`). The phase bit alone says nothing about the entry it
stands in, so the inductive invariant `IInv` describes a whole ring: at most one
command is under way, it is in one of three stages (submitted, executed,
answered), and the entries of the completion ring before the controller's place
have its current phase while the others have the opposite one (`Ring`). The driver
expects the controller's phase, or has just one entry to take before it does; an
entry with the expected phase at the head can then only be the answer that was
written last. `Control` ties the queue that is waited on to the stage of bring-up and
`HeldExact` the frames to both. For the refinement the call is performed in
`Execute`; all other steps begin or end a call or change nothing that
`BlockDevice` has.

`FramesProofs` shows `HeldOnceHolds`, `BitmapExactHolds` and `FreeCountExactHolds`
for every size of memory, number of tasks and layout of pages, from
`FramesAssumption` and `BootAssumption` (boot found its heap and left a frame). The
invariant is `torn \/ FInv`: after a torn install nothing is claimed, which is
how the three properties are stated as well. `FInv` gives every frame
exactly one account (`FrameOK`): it is free, taken at boot or leaked and nothing
refers to it, or it is used and exactly one root, table, page, message or list in
the hands of a receiver does. The properties are not inductive alone because
the two calls with a loop are cut in the middle: `CallOK` says which pages such a
call has still to map, and that they are unmapped, so that mapping one drops no
reference. The free count follows a cardinality, changed by one frame at a time.

Two more theorems have no `torn` in them. `FrameTypesHold` rests on `TInv`, which
is weaker than `FInv` and kept by every step, those after a torn install included.
`ScanFindsFrameHolds` says that the loop of `alloc_one` does what `AllocOne` says.
The loop is a recursive function of the turns left and the place reached, and the
prover has no induction over it; instead `Scan` states what the function is (the
first free frame from a place on, unless the search comes back to its start before
it) and the proof shows that no place can be the least one where the two differ.
The loop of the code would not end on a full memory with the hint at 0, because it
compares after it has moved on; the theorem therefore needs, and `TInv` has, that
the hint is 0 only while a frame is free.

`PondFsSteps` and `PondFsProofs` show, from `PondAssumption` and `EmptyAssumption`
(zeros are not an entry), for disks, blocks, inodes and writes of every size and
any number of crashes and refused writes: `TypeHolds`, `BlocksOwnedHolds`,
`NoHolesHolds`, `NoDanglingHolds`, `DirectoryDurableHolds` and `DataDurableHolds`.
They share one inductive invariant, `PInv`. The difficulty is that a file has two
states, on the disk and as the cache has it, and a call in between. `Owned` says
that blocks belong to one place, counting both states; `Filled`, that
both have a block for every unit below their size; `CallBlocks` and `CallNew`, how far
the call under way has got, so that what `Commit` is about to publish is already on
the disk; `DirOK` and `DirCall`, the same for the directory until a create has been
torn; `DataOK`, that the units of both states hold values that `allowed` has.
The proof has one lemma per step of a call, and one for `IoError` and `Crash`.

`VfsProofs` shows `ImplementsFileSystem` from `VfsAssumption` and `ImageAssumption`:
for all trees of directories and files that boot may leave, all paths, however
they are written, every name of the mount point, all bytes, seeks and sizes of a
call, the calls do to mounts, inodes and descriptors what `FileSystem` does to
files. Most of it is about paths. The walk is a recursive function; by the least
place where it could fail there is exactly one function of its kind
(`WalkExists`, `WalkIs`), and between two places where components end it stays where
it is. What `split` yields is then tied to the `Words` of `FileSystem`: the components
that are not empty are the words of the path behind the mount point (`EndIsWord`,
`WordIsEnd`), and `Spelt`, which lists them, is a recursion over the same places. At
each of them the walk stands at the inode of the words so far, or at an error if
there is none (`Leads`, `StepIs`); so at the end it has found what `FileOf` names
(`LookupIs`). A file is created only if the walk of the whole
path said `NotFound`; the parent is a path to the same tree and has
all the words but the last (`ParentIs`, `ParentSpelt`), so that it leads to a directory
exactly if `FileSystem` has one there. The inductive invariant `VInv` says
that the mount table is the one boot has made (`MountsOK`), that the inodes are two
trees, in which a child has the words of its directory and one more and no two
inodes have the same (`Table`), which makes the mapping of inodes to names one to one,
that the directories are those of the image (`DirsOK`), and that
descriptors refer to inodes that exist (`SlotsOK`). `Finite` says that directories are
finite, for the size of those of PondFS. `Least` (a set of numbers has a least
one) is a hypothesis of the lemmas on walks, which `LeastIs` discharges at the end:
the library of theorems is instantiated only there, because the provers get slow
with it. `Chars` is `STRING` with the slash spelt out, because no prover knows it to
be a string.

For `E1000`, `DriverProofs` shows, from `NetSizes` (rings with at least one receive
and two transmit descriptors, loops that turn at least once): `RxRingHolds`, `SendingOrStuckHolds`, `InfoCurrentHolds`. `RxInv`
adds to `RxRing` that the card has not come round to the descriptor that
`poll_offer` has read and not yet given back. `TxInv` says that driver and card go round
the ring in step until a wait is given up. `InfoInv` follows the `NetInfo` that
`configure` prepares, and knows that an offer is there only if a discover went out.

`SessionProofs` has what `parts` checks of the keyboard and of the programs. For
`Ps2`: `NoLeakHolds` for queues of at least one byte, with the invariant that the terminal's queue is a suffix of the compositor's, key
press by key press (`Suffix`): if a key that the compositor takes is in the
terminal's queue at all, it is at its head; and `LineAsEditedHolds` for buffers of at least one byte
(a read into none returns at once). The line is edited by a stack, and `LineAsEdited`
says which keys survive by counting texts and backspaces after them. The
invariant `Edits` joins the two: the surviving key with `d` more texts than
backspaces from it on is the `d`-th byte from the end of the line, every place has
such a key, and later keys are nearer to the end.

For `Session`, from `SessionSizes` (the constants are numbers), for ports of every size
and whatever can be started: `ReadyIsOwnHolds` and `TerminalAloneHolds`, and
`DrawnInOrderHolds` for ports of at least seven messages, which is what six clients
and the shutdown need and less than the sixteen of the kernel. `SInv` numbers
Spring's script by turns and says that a program before its turn was not started,
one after it is over (but for Reflection, left once for its clients), and that
Spring's port is empty but for the one message it waits for. `DInv` says that what
is drawn and what waits in Reflection's port are together, in the order of the
script, the messages of the clients that have sent theirs, the shutdown last.

The types of the parts are theorems too: `NvmeTypes`, `NetTypes`, `SessionTypes` and
`KbdTypes`. For the keyboard the invariant is `KInv`, the types together with `Suffix`
and `LineInv`, from which the shape of the queues and of the line follows. For the
others the types are part of the invariants above. `PartSizes` in `MCParts` evaluates
the hypotheses on the constants of the run.

Only model-checked: liveness (`StarvationFree`, `WaitpidReturns`, `ReceiverReturns`,
`CallReturns`, `ConfigureReturns`, `SessionEnds`), which is out of the reach of the
prover; and `PartsTypeOK` as one formula of `PartsSpec`. `PartsSpec` lets one part run
and the others stand still, and `PartsTypeOK` is the conjunction of their types; each
conjunct is proved for the specification of its part, but a module with the lemmas
of all four at once is too large for the provers. Every other property of a passing
run is a theorem.

## Observations

Behaviour met while modelling that contradicts no doc and is therefore no
finding, but that a reader of the code may want to know:

* `send_packet` that gives up leaves `tx_tail` behind `TDT` (`SendingOrStuck`), and
  `configure` uses one constant transaction id, so that an offer to an earlier
  call answers a later one.
* The release of an extended key sets the flag again that its press has cleared,
  and the next ordinary key is swallowed (`Decode`).
* A read from the terminal spins inside a system call with interrupts off.
* `waitpid` never forgets a child; `kill` of a dead task changes its exit code.
* `//boot/x` is looked up in the file system of `/`. A write of no bytes behind
  the end of a file makes the file longer, in both file systems.
* A RECV cap sent to its own port is lost with it. `find_user_vm_range` does not
  find a range that ends with the window.

## Not modelled

* What is drawn, printed and logged; the text of manifests and shell commands; the
  contents of packets beyond what the DHCP parser decides; ELF parsing.
* Drivers without a protocol: AC97 (one buffer, played while the call polls), PCI
  configuration space, serial line, frame buffer, the probe of virtio-gpu.
* Descriptor tables, interrupt controllers and assembly stubs; what they give to the
  rest, system calls without interruption and a periodic tick, is the step size
  of the kernel modules and the fairness of `Sched`.
* The boot loader and the copying of files into an image by mkpondfs, which run
  once, alone, before anything modelled here exists.
* Calls of the `Inode` trait that nothing leads to: readdir, and unlink of ramfs.
* The Rust heap, a fixed pool taken at boot whose exhaustion panics; 64-bit
  overflow of file offsets. Memory ordering between CPUs does not arise.
