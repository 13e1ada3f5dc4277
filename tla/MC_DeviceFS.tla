----------------------------- MODULE MC_DeviceFS -----------------------------
(* Model-checking instance of DeviceFS.  The Ext2 volume:                   *)
(*   /        inode 2 (directory)                                           *)
(*   /dev     inode 11 (directory, DeviceFS is mounted on it)               *)
(*   /a.txt   inode 12 (regular file)                                       *)
(* inode 13 is free for /b.txt.  DeviceFS inodes 1 (its root) and 2 (tty)   *)
(* overlap the Ext2 numbers, as they do on any volume.                      *)
EXTENDS DeviceFS

MCDirents == {<<2, "dev", 11>>, <<2, "a.txt", 12>>}
MCTypes == (2 :> "Directory") @@ (11 :> "Directory") @@ (12 :> "RegularFile")

\* The tty with Truncate (a no-op on a device), a missing device, an Ext2
\* file with Truncate, a file to create and to reopen.
MCOpens ==
    {[path |-> <<"dev", "tty">>, create |-> FALSE, trunc |-> TRUE],
     [path |-> <<"dev", "null">>, create |-> FALSE, trunc |-> FALSE],
     [path |-> <<"a.txt">>, create |-> FALSE, trunc |-> TRUE],
     [path |-> <<"b.txt">>, create |-> TRUE, trunc |-> FALSE]}

\* The same, plus a path that continues past the tty device.
MCOpensPanic ==
    MCOpens \cup {[path |-> <<"dev", "tty", "x">>, create |-> FALSE, trunc |-> FALSE]}

\* The same as MCOpens, plus /dev itself, DeviceFS's root directory.
MCOpensDirRead ==
    MCOpens \cup {[path |-> <<"dev">>, create |-> FALSE, trunc |-> FALSE]}

\* The same as MCOpens, plus a file to create under /dev.
MCOpensCreateDev ==
    MCOpens \cup {[path |-> <<"dev", "x">>, create |-> TRUE, trunc |-> FALSE]}

MCSymmetry == Permutations(Tasks)

=============================================================================
