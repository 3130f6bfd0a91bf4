----------------------------- MODULE FileSystem -----------------------------
(***************************************************************************)
(* What the file calls of the kernel promise to a program: files that have *)
(* a name and hold bytes, descriptors that have an offset in a file.  No   *)
(* mounts, no directories to walk, no inodes.                              *)
(*                                                                         *)
(* A path is a sequence of characters; it names a file by the words between*)
(* its slashes.  Files are kept in one or two trees: the memory file       *)
(* system, tree 1, is reached below Boot; all other paths lead to tree     *)
(* `top`, which is tree 1 as well when there is no disk.                   *)
(***************************************************************************)
EXTENDS Integers, Sequences, FiniteSets

CONSTANTS Path,  \* paths that are asked for
          Boot,  \* the name of the mount point, without its slash
          MAX_IO,  \* bytes that one call moves
          Byte,  \* bytes that programs write
          Fd,    \* descriptors
          Dirs,  \* the directories, by tree and words: no call makes or removes one
          Seed,  \* the files that are there at first: what they hold
          Offset \* arguments of a seek

VARIABLES top,    \* the tree of "/"
          files,  \* the files there are, by tree and words: what they hold
          open,   \* the open descriptors
          result  \* what the last call has returned

\* The result of a call that returns nothing but where its descriptor stands.
Done == [done |-> TRUE]

vars == <<top, files, open, result>>

Smaller(a, b) == IF a <= b THEN a ELSE b
Larger(a, b) == IF a <= b THEN b ELSE a

----------------------------------------------------------------------------
(* Names *)

\* The words of a path, what stands between its slashes: where each begins and ends.
Words(p) == {w \in (DOMAIN p) \X (DOMAIN p) :
                /\ w[1] <= w[2] /\ \A k \in w[1]..w[2] : p[k] # "/"
                /\ w[1] = 1 \/ p[w[1] - 1] = "/"
                /\ w[2] = Len(p) \/ p[w[2] + 1] = "/"}

\* The mount point is passed by when a second slash stands before it.
BootWord == <<2, Len(Boot) + 1>>
BelowBoot(p) == BootWord \in Words(p) /\ SubSeq(p, 2, Len(Boot) + 1) = Boot

\* What a path that begins with a slash names: a tree, and words below its root.
Tree(p) == IF BelowBoot(p) THEN 1 ELSE top
Below(p) == IF BelowBoot(p) THEN Words(p) \ {BootWord} ELSE Words(p)

\* Those words in order.
Spelt(p) ==
    LET words[k \in 0..Len(p)] ==
            IF k = 0 THEN <<>>
            ELSE IF \E w \in Below(p) : w[2] = k
            THEN LET w == CHOOSE w \in Below(p) : w[2] = k
                 IN  Append(words[k - 1], SubSeq(p, w[1], w[2]))
            ELSE words[k - 1]
    IN  words[Len(p)]

\* A file or directory is known by its tree and its words, a root by no words.
FileOf(p) == <<Tree(p), Spelt(p)>>
ParentOf(f) == <<f[1], SubSeq(f[2], 1, Len(f[2]) - 1)>>
IsDir(f) == f \in Dirs

IsAbsolute(p) == p # <<>> /\ p[1] = "/"

----------------------------------------------------------------------------
Init ==
    /\ top \in {1, 2}
    /\ files = Seed
    /\ open = <<>>
    /\ result = Done

\* p names a directory, or a file that is there or may be created.
Found(p, create) ==
    /\ IsAbsolute(p)
    /\ \/ IsDir(FileOf(p)) \/ FileOf(p) \in DOMAIN files
       \/ create /\ p[Len(p)] # "/" /\ IsDir(ParentOf(FileOf(p)))

Refuses(p, create) ==
    /\ result' = [refused |-> p]
    /\ ~Found(p, create)
    /\ UNCHANGED <<top, files, open>>

\* A descriptor that was not open before, for a directory or for a file.
Opens(p, create, fd) ==
    /\ result' = [fd |-> fd]
    /\ open'[fd].path = p
    /\ Found(p, create)
    /\ LET f == FileOf(p)
           o == [path |-> p, file |-> f, offset |-> 0]
       IN  /\ open' = [g \in DOMAIN open \cup {fd} |-> IF g = fd THEN o ELSE open[g]]
           /\ files' = IF IsDir(f) \/ f \in DOMAIN files THEN files
                       ELSE [g \in DOMAIN files \cup {f} |-> IF g = f THEN <<>> ELSE files[g]]
    /\ UNCHANGED top

Data(f) == IF IsDir(f) THEN <<>> ELSE files[f]

\* A directory of the disk's tree grows with its entries, one of the other does not.
Entries(f) == {g \in Dirs \cup DOMAIN files : g[2] # <<>> /\ ParentOf(g) = f}
Length(f) == IF IsDir(f) /\ f[1] = 2 THEN Cardinality(Entries(f)) ELSE Len(Data(f))

\* The bytes from the offset on, as many as there are.
Read(fd, len) ==
    LET o == open[fd]
        d == SubSeq(Data(o.file), o.offset + 1, Smaller(o.offset + len, Len(Data(o.file))))
    IN  /\ IF IsDir(o.file) THEN result' = [isDir |-> fd] /\ UNCHANGED open
           ELSE result' = [data |-> d] /\ open' = [open EXCEPT ![fd].offset = @ + Len(d)]
        /\ UNCHANGED <<top, files>>

\* The bytes are put at the offset; a gap before them reads as zeros.
Write(fd, buf) ==
    LET o == open[fd]
        d == Data(o.file)
        end == o.offset + Len(buf)
    IN  /\ IF IsDir(o.file) THEN result' = [isDir |-> fd] /\ UNCHANGED <<files, open>>
           ELSE /\ result' = Done
                /\ open' = [open EXCEPT ![fd].offset = end]
                /\ files' = [files EXCEPT ![o.file] =
                      [i \in 1..Larger(end, Len(d)) |->
                          IF i \in (o.offset + 1)..end THEN buf[i - o.offset]
                          ELSE IF i <= Len(d) THEN d[i] ELSE 0]]
        /\ UNCHANGED top

Seek(fd, off, whence) ==
    LET o == open[fd]
        base == CASE whence = "set" -> 0
                  [] whence = "cur" -> o.offset
                  [] whence = "end" -> Length(o.file)
    IN  /\ open' = [open EXCEPT ![fd].offset = Larger(0, base + off)]
        /\ result' = Done
        /\ UNCHANGED <<top, files>>

Stat(fd) ==
    /\ result' = [size |-> Length(open[fd].file), dir |-> IsDir(open[fd].file)]
    /\ UNCHANGED <<top, files, open>>

Close(fd) ==
    /\ open' = [g \in DOMAIN open \ {fd} |-> open[g]]
    /\ result' = Done
    /\ UNCHANGED <<top, files>>

\* A call on a descriptor that is not open.
BadFd(fd) ==
    /\ result' = [bad |-> fd]
    /\ UNCHANGED <<top, files, open>>

Buffer == UNION {[1..n -> Byte] : n \in 0..MAX_IO}

Next ==
    \/ \E p \in Path, create \in BOOLEAN :
          Refuses(p, create) \/ \E fd \in Fd \ DOMAIN open : Opens(p, create, fd)
    \/ \E fd \in DOMAIN open :
          \/ \E len \in 0..MAX_IO : Read(fd, len)
          \/ \E buf \in Buffer : Write(fd, buf)
          \/ \E off \in Offset, whence \in {"set", "cur", "end"} : Seek(fd, off, whence)
          \/ Stat(fd) \/ Close(fd)
    \/ \E fd \in Fd \ DOMAIN open : BadFd(fd)

Spec == Init /\ [][Next]_vars

=============================================================================
