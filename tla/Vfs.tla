--------------------------------- MODULE Vfs ---------------------------------
(***************************************************************************)
(* Files as programs see them: the file calls of kernel/src/syscall.rs, the*)
(* mount table, path walk and descriptor table of kernel/src/fs/mod.rs, and*)
(* the memory file system of kernel/src/fs/ramfs.rs.                       *)
(*                                                                         *)
(* A path is a sequence of characters, because the mount table compares    *)
(* text.  At boot the memory file system is mounted at /boot (here Boot)   *)
(* and either PondFS or the same memory file system at /; of PondFS, which *)
(* has a module of its own, this one keeps what the calls see when the disk*)
(* works: inodes that behave as those of ramfs.  A system call is one step.*)
(***************************************************************************)
EXTENDS Integers, Sequences, FiniteSets

CONSTANTS Path,     \* paths that programs ask for
          Boot,     \* the name of the mount point, without its slash
          Image,    \* the inodes that are there after boot
          MAX_IO,   \* bytes that one call moves, 4096 in the code
          Byte,     \* bytes that programs write
          SeekArg,  \* arguments of a seek
          MaxFd,    \* bound: the largest descriptor
          MaxSize   \* bound: the largest offset in a file

VARIABLES inodes,   \* all inodes of the two file systems
          mounts,   \* MOUNTS: pairs of a path and a root
          slots, nextFd,  \* FdTable
          asked,    \* the path with which a descriptor was opened (for Abs only)
          ret       \* what the last call has returned

Fd == 3..MaxFd

\* sys_open refuses a path of no bytes before it looks at it.
ASSUME VfsAssumption ==
    /\ Path \subseteq Seq(STRING) \ {<<>>}
    /\ Boot \in Seq(STRING) \ {<<>>} /\ \A i \in DOMAIN Boot : Boot[i] # "/"
    /\ MAX_IO \in Nat /\ SeekArg \subseteq Int /\ MaxFd \in Nat /\ MaxSize \in Nat
    /\ Byte \subseteq Nat

\* The roots of the memory file system and of PondFS, for which the two also stand.
RamRoot == 1
PondRoot == 2
Roots == {RamRoot, PondRoot}

\* An inode: its file system, whether it is a file, what it holds, and the words
\* that lead to it from the root, which the code does not keep (for Abs only).
\* In a table t of inodes n is known by its file system and its words.
NameIn(t, n) == <<t[n].fs, t[n].words>>
Child(f, word) == <<f[1], Append(f[2], word)>>

\* put_file and mkpondfs leave trees: each directory holds its entries under their
\* names, and everything but the two roots is an entry of one directory.
ASSUME ImageAssumption ==
    /\ Image \in Seq({Image[n] : n \in DOMAIN Image}) /\ Roots \subseteq DOMAIN Image
    /\ \A n \in DOMAIN Image :
          LET i == Image[n]
          IN  /\ i \in [fs : Roots, kind : {"dir", "file"}, data : Seq(Nat),
                        children : {i.children}, words : Seq(Seq(STRING))]
              /\ DOMAIN i.children \subseteq Seq(STRING) /\ IsFiniteSet(DOMAIN i.children)
              /\ i.children \in [DOMAIN i.children -> DOMAIN Image]
              /\ \A word \in DOMAIN i.children :
                    NameIn(Image, i.children[word]) = Child(NameIn(Image, n), word)
              /\ i.kind = "dir" => i.data = <<>>
    /\ \A r \in Roots : Image[r].kind = "dir" /\ NameIn(Image, r) = <<r, <<>>>>
    /\ \A m, n \in DOMAIN Image : NameIn(Image, m) = NameIn(Image, n) => m = n
    /\ \A n \in DOMAIN Image \ Roots : \E d \in DOMAIN Image :
          Image[d].kind = "dir" /\ \E word \in DOMAIN Image[d].children : Image[d].children[word] = n

\* An inode is a positive number, an error the negative one that a call returns
\* for it (fs_err_to_code).
NotFound == -1
NotDir == -2
InvalidPath == -5

\* The result of a call that returns nothing but where its descriptor stands.
Done == [done |-> TRUE]

vfsVars == <<inodes, mounts, slots, nextFd, asked, ret>>

Smaller(a, b) == IF a <= b THEN a ELSE b
Larger(a, b) == IF a <= b THEN b ELSE a

\* BTreeMap::insert
Put(f, k, v) == [x \in DOMAIN f \cup {k} |-> IF x = k THEN v ELSE f[x]]

----------------------------------------------------------------------------
(* Mount table and path walk *)

\* mount: the longest mount point comes first, of two equally long ones the
\* older (push, and a stable sort of what was in order before).
Mount(m, path, root) ==
    LET entry == [path |-> path, root |-> root]
        ahead == Cardinality({i \in DOMAIN m : Len(m[i].path) >= Len(path)})
    IN  IF \E i \in DOMAIN m : m[i].path = path
        THEN [i \in DOMAIN m |-> IF m[i].path = path THEN entry ELSE m[i]]
        ELSE SubSeq(m, 1, ahead) \o <<entry>> \o SubSeq(m, ahead + 1, Len(m))

StartsWith(path, mp) == Len(mp) <= Len(path) /\ SubSeq(path, 1, Len(mp)) = mp

\* Faulty variant of Covers: the mount point may end within a word.
Covers_AnyPrefix(mp, path) == path = mp \/ StartsWith(path, mp)

Covers(mp, path) ==
    \/ path = mp
    \/ StartsWith(path, mp) /\ (mp[Len(mp)] = "/" \/ path[Len(mp) + 1] = "/")

\* resolve_mount: the first entry that covers the path, and what is left of it.
ResolveMount(path) ==
    LET i == CHOOSE i \in DOMAIN mounts :
                Covers(mounts[i].path, path) /\ \A j \in 1..(i - 1) : ~Covers(mounts[j].path, path)
    IN  [root |-> mounts[i].root, rest |-> SubSeq(path, Len(mounts[i].path) + 1, Len(path))]

\* The component of split('/') that ends before character k.
Component(rest, k) ==
    LET b == CHOOSE b \in 0..(k - 1) :
                (b = 0 \/ rest[b] = "/") /\ \A c \in (b + 1)..(k - 1) : rest[c] # "/"
    IN  SubSeq(rest, b + 1, k - 1)

\* One step of the walk, from an inode or an error, by the name of a child.
LookupChild(node, name) ==
    IF node < 0 THEN node
    ELSE IF inodes[node].kind # "dir" THEN NotDir
    ELSE IF name \notin DOMAIN inodes[node].children THEN NotFound
    ELSE inodes[node].children[name]

\* The loop of lookup: where it stands after k characters, of which the last is
\* a slash or the end when a component is complete.  Empty ones are passed over.
Walk(root, rest) ==
    LET node[k \in 0..(Len(rest) + 1)] ==
            IF k = 0 THEN root
            ELSE IF (k <= Len(rest) /\ rest[k] # "/") \/ Component(rest, k) = <<>> THEN node[k - 1]
            ELSE LookupChild(node[k - 1], Component(rest, k))
    IN  node[Len(rest) + 1]

\* lookup: the inode of a path, or an error.
LookupPath(path) ==
    IF path[1] # "/" THEN InvalidPath
    ELSE Walk(ResolveMount(path).root, ResolveMount(path).rest)

\* split_parent; without a name there is none.
SplitParent(path) ==
    LET idx == CHOOSE i \in DOMAIN path : path[i] = "/" /\ \A j \in (i + 1)..Len(path) : path[j] # "/"
    IN  [parent |-> IF idx = 1 THEN <<"/">> ELSE SubSeq(path, 1, idx - 1),
         name   |-> SubSeq(path, idx + 1, Len(path))]

----------------------------------------------------------------------------
(* Inodes of ramfs *)

\* A directory of PondFS holds its entries as data (dir_write_entries), here one
\* unit for each.
Size(node) == IF inodes[node].kind = "dir" /\ inodes[node].fs = PondRoot
              THEN Cardinality(DOMAIN inodes[node].children)
              ELSE Len(inodes[node].data)

RamReadAt(node, off, len) ==
    LET data == inodes[node].data
    IN  IF off >= Len(data) THEN <<>>
        ELSE SubSeq(data, off + 1, off + Smaller(len, Len(data) - off))

\* resize, then copy.
RamWriteAt(data, off, buf) ==
    LET end     == off + Len(buf)
        resized == IF end > Len(data) THEN data \o [i \in 1..(end - Len(data)) |-> 0] ELSE data
    IN  SubSeq(resized, 1, off) \o buf \o SubSeq(resized, end + 1, Len(resized))

\* The inodes with a new file in a directory.
NewFile(fs, words) ==
    [fs |-> fs, kind |-> "file", data |-> <<>>, children |-> <<>>, words |-> words]
CreateIn(dir, name) ==
    Append([inodes EXCEPT ![dir].children = Put(@, name, Len(inodes) + 1)],
           NewFile(inodes[dir].fs, Append(inodes[dir].words, name)))

----------------------------------------------------------------------------
(* The system calls *)

Install(node, path) ==
    /\ slots' = Put(slots, nextFd, [inode |-> node, offset |-> 0])
    /\ asked' = Put(asked, nextFd, path)
    /\ nextFd' = nextFd + 1
    /\ ret' = [fd |-> nextFd]

OpenFails(path) ==
    /\ ret' = [refused |-> path]
    /\ UNCHANGED <<inodes, slots, nextFd, asked>>

\* The part of sys_open that creates a missing file.
CreateFile(path) ==
    LET name == SplitParent(path).name
        dir  == LookupPath(SplitParent(path).parent)
    IN  IF name = <<>> \/ dir < 0 THEN OpenFails(path)
        ELSE IF inodes[dir].kind # "dir" \/ name \in DOMAIN inodes[dir].children
        THEN OpenFails(path)
        ELSE inodes' = CreateIn(dir, name) /\ Install(Len(inodes) + 1, path)

Open(path, create) ==
    /\ nextFd <= MaxFd
    /\ LET node == LookupPath(path)
       IN  IF node > 0 THEN Install(node, path) /\ UNCHANGED inodes
           ELSE IF create /\ node = NotFound THEN CreateFile(path)
           ELSE OpenFails(path)
    /\ UNCHANGED mounts

Read(fd, len) ==
    LET file == slots[fd]
        data == RamReadAt(file.inode, file.offset, len)
    IN  /\ IF inodes[file.inode].kind # "file" THEN ret' = [isDir |-> fd] /\ UNCHANGED slots
           ELSE /\ ret' = [data |-> data]
                /\ slots' = [slots EXCEPT ![fd].offset = @ + Len(data)]
        /\ UNCHANGED <<inodes, mounts, nextFd, asked>>

Write(fd, buf) ==
    LET file == slots[fd]
    IN  /\ file.offset + Len(buf) <= MaxSize
        /\ IF inodes[file.inode].kind # "file" THEN ret' = [isDir |-> fd] /\ UNCHANGED <<slots, inodes>>
           ELSE /\ inodes' = [inodes EXCEPT ![file.inode].data = RamWriteAt(@, file.offset, buf)]
                /\ slots' = [slots EXCEPT ![fd].offset = @ + Len(buf)]
                /\ ret' = Done
        /\ UNCHANGED <<mounts, nextFd, asked>>

Lseek(fd, off, whence) ==
    LET file == slots[fd]
        base == CASE whence = "set" -> 0
                  [] whence = "cur" -> file.offset
                  [] whence = "end" -> Size(file.inode)
        new  == Larger(0, base + off)
    IN  /\ new <= MaxSize
        /\ slots' = [slots EXCEPT ![fd].offset = new]
        /\ ret' = Done
        /\ UNCHANGED <<inodes, mounts, nextFd, asked>>

Fstat(fd) ==
    LET node == slots[fd].inode
    IN  /\ ret' = [size |-> Size(node), dir |-> inodes[node].kind = "dir"]
        /\ UNCHANGED <<inodes, mounts, slots, nextFd, asked>>

Close(fd) ==
    /\ slots' = [g \in DOMAIN slots \ {fd} |-> slots[g]]
    /\ asked' = [g \in DOMAIN slots \ {fd} |-> asked[g]]
    /\ ret' = Done
    /\ UNCHANGED <<inodes, mounts, nextFd>>

\* Each of the calls on a descriptor that is not open.
BadFd(fd) ==
    /\ ret' = [bad |-> fd]
    /\ UNCHANGED <<inodes, mounts, slots, nextFd, asked>>

----------------------------------------------------------------------------
\* What boot leaves: what put_file has seeded and what the disk holds; / is
\* PondFS, or ramfs if there is no disk.  Descriptors 0 to 2 are the terminal's.
VfsInit ==
    /\ inodes = Image
    /\ \E root \in {RamRoot, PondRoot} :
          mounts = Mount(Mount(<<>>, <<"/">> \o Boot, RamRoot), <<"/">>, root)
    /\ slots = <<>> /\ asked = <<>> /\ nextFd = 3
    /\ ret = Done

VfsNext ==
    \/ \E path \in Path, create \in BOOLEAN : Open(path, create)
    \/ \E fd \in DOMAIN slots :
          \/ \E len \in 0..MAX_IO : Read(fd, len)
          \/ \E len \in 0..MAX_IO : \E buf \in [1..len -> Byte] : Write(fd, buf)
          \/ \E off \in SeekArg, whence \in {"set", "cur", "end"} : Lseek(fd, off, whence)
          \/ Fstat(fd) \/ Close(fd)
    \/ \E fd \in Fd \ DOMAIN slots : BadFd(fd)

VfsSpec == VfsInit /\ [][VfsNext]_vfsVars

----------------------------------------------------------------------------
(* Properties *)

\* The directories or files of a table of inodes, by name, and what files hold.
Named(t, kind) == {NameIn(t, n) : n \in {m \in DOMAIN t : t[m].kind = kind}}
FilesIn(t) == [f \in Named(t, "file") |-> t[CHOOSE n \in DOMAIN t : NameIn(t, n) = f].data]
Top == mounts[Len(mounts)].root

Abs == INSTANCE FileSystem WITH
          Offset <- SeekArg,
          Dirs   <- Named(Image, "dir"),
          Seed   <- FilesIn(Image),
          top    <- Top,
          files  <- FilesIn(inodes),
          open   <- [fd \in DOMAIN slots |-> [path   |-> asked[fd],
                                              file   |-> NameIn(inodes, slots[fd].inode),
                                              offset |-> slots[fd].offset]],
          result <- ret

\* The file calls implement FileSystem: however paths are written and through
\* whichever mount and directories they lead, a path that was opened leads to the
\* file of its name; a file is made exactly where there is a directory for it; what
\* a read returns is what was last written there, through any descriptor and by any
\* path, with zeros where nothing was; and each descriptor has an offset of its own.
IsFileSystem == Abs!Spec

=============================================================================
