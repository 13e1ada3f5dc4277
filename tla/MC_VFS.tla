------------------------------- MODULE MC_VFS -------------------------------
(* Model-checking instance of VFS over a small volume:                     *)
(*   /          inode 2 (directory)                                        *)
(*   /a         inode 3 (directory)                                        *)
(*   /a/b       inode 4 (regular file, 1 byte); directories are 1 unit    *)
(* inode 5 is free.                                                          *)
EXTENDS VFS

MCInodes == 2..5
MCEntries ==
    [i \in MCInodes |->
        CASE i = 2 -> << [name |-> "a", ino |-> 3] >>
          [] i = 3 -> << [name |-> "b", ino |-> 4] >>
          [] OTHER -> << >>]
MCSizes == [i \in MCInodes |-> IF i \in 2..4 THEN 1 ELSE 0]

\* Paths that traverse without a missing intermediate directory.
MCPaths == { <<"a", "b">>, <<"a", "c">>, <<"c">> }

\* The same, plus a path through the regular file /a/b.
MCPathsThroughFile == MCPaths \cup { <<"a", "b", "c">> }

=============================================================================
