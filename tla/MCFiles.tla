------------------------------- MODULE MCFiles -------------------------------
(***************************************************************************)
(* What files hold, at both ends: in the blocks of PondFs, over failed     *)
(* writes and crashes, and in the file calls of Vfs.  The two share no     *)
(* variable, and a behaviour runs one of them, chosen at the start.        *)
(***************************************************************************)
EXTENDS MCPondFs, Vfs

VARIABLE end  \* the end that runs

\* "/boot" is "/b" here.  The memory file system holds the file x, the disk the
\* file x and the directory e with a file x of its own.
MCBoot == <<"b">>
MCPath == {<<"/", "x">>, <<"/", "b", "/", "x">>, <<"/", "b", "x">>, <<"/", "b", "/">>,
           <<"/", "/", "b", "/", "x">>, <<"/", "x", "/", "x">>,
           <<"/", "e", "/", "x">>, <<"/", "/", "e", "/", "y">>}
MCImage ==
    LET Node(fs, kind, data, children, words) ==
            [fs |-> fs, kind |-> kind, data |-> data, children |-> children, words |-> words]
    IN  <<Node(1, "dir", <<>>, <<"x">> :> 3, <<>>),
          Node(2, "dir", <<>>, <<"x">> :> 4 @@ <<"e">> :> 5, <<>>),
          Node(1, "file", <<2>>, <<>>, <<<<"x">>>>),
          Node(2, "file", <<>>, <<>>, <<<<"x">>>>),
          Node(2, "dir", <<>>, <<"x">> :> 6, <<<<"e">>>>),
          Node(2, "file", <<3>>, <<>>, <<<<"e">>, <<"x">>>>)>>
MCSeekArg == {-1, 1}

FilesInit ==
    /\ end \in {"disk", "calls"}
    /\ Init /\ VfsInit
    /\ end = "disk" => Top = PondRoot

FilesNext ==
    \/ end = "disk" /\ Next /\ UNCHANGED <<end, vfsVars>>
    \/ end = "calls" /\ VfsNext /\ UNCHANGED <<end, vars>>

FilesSpec == FilesInit /\ [][FilesNext]_<<end, vars, vfsVars>>

=============================================================================
