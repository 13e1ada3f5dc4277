----------------------------- MODULE MC_Ext2 -----------------------------
(* RAM disks for Ext2: two or three block groups of 8 inodes, or a        *)
(* superblock whose counts disagree (the KAssert halts); the              *)
(* root lists ".", "..", an optional free slot, subdirectory-bravo (inode *)
(* 11) and a padded last entry; inode 11 lists ".", ".." and bar.txt     *)
(* (inode 13, or 16: the last inode of the volume).                       *)
EXTENDS Ext2, TLC

E(ino, nm, sz) == [inode |-> ino, entrySize |-> sz, nameLen |-> 0, name |-> nm]
Geometry == [inodes |-> 16, blocks |-> 64, bpg |-> 32, ipg |-> 8]
Geometries ==
    {Geometry, [inodes |-> 24, blocks |-> 96, bpg |-> 32, ipg |-> 8],
     [inodes |-> 16, blocks |-> 64, bpg |-> 16, ipg |-> 8]}   \* the last fails the KAssert
FreeSlots == {<<>>, <<E(0, "", 16)>>}

Root(free, sub, last) ==
    <<E(2, ".", 12), E(2, "..", 12)>>
    \o free
    \o <<E(11, sub, 28), E(12, "lost+found", last)>>
SubDir(free, bar) == <<E(11, ".", 12), E(2, "..", 12)>> \o free \o <<E(bar, "bar.txt", 16)>>
Sub == SubDir(<<>>, 13)

\* Well-formed volumes, with or without a free slot and padding.
MCVolumes ==
    {[sb |-> g, dirs |-> (2 :> Root(f, "subdirectory-bravo", l) @@ 11 :> SubDir(sf, b))] :
        g \in Geometries, f \in FreeSlots, sf \in FreeSlots, l \in {20, 40, 64}, b \in {13, 16}}

\* A volume whose root has no subdirectory-bravo.
MCVolumesNoSub ==
    {[sb |-> Geometry, dirs |-> (2 :> Root(<<>>, "bravo", 20) @@ 11 :> Sub)]}

\* A volume whose root holds a free slot with entrySize 0.
MCVolumesZeroEntry ==
    {[sb |-> Geometry, dirs |-> (2 :> Root(<<E(0, "", 0)>>, "subdirectory-bravo", 20) @@ 11 :> Sub)]}
=============================================================================
