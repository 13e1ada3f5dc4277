------------------------------- MODULE MC_IDT -------------------------------
(* Model-checking instance of IDT.  The RAM disk holds what Ext2::         *)
(* Initialize lists at boot, plus /foo.txt:                                 *)
(*   /                         inode 2 (directory)                          *)
(*   /subdirectory-bravo       inode 3 (directory)                          *)
(*   /subdirectory-bravo/bar.txt  inode 4 (2 bytes)                         *)
(*   /foo.txt                  inode 5 (1 byte)                             *)
(* inode 6 is free.  String lengths are scaled: "New content!\n" (13) is 2  *)
(* bytes, the .mock text (34) is 3, the 99-byte reads are 4.               *)
EXTENDS IDT

\* Offset fields of 2, 2 and 4 bits stand for the 16, 16 and 32 of a gate.
MCOffW == <<2, 2, 4>>

MCInodes == 2..6
MCEntries ==
    [i \in MCInodes |->
        CASE i = 2 -> << [name |-> "subdirectory-bravo", ino |-> 3],
                         [name |-> "foo.txt", ino |-> 5] >>
          [] i = 3 -> << [name |-> "bar.txt", ino |-> 4] >>
          [] OTHER -> << >>]
MCSizes == [i \in MCInodes |-> CASE i = 4 -> 2 [] i = 5 -> 1 [] OTHER -> 1]

\* The stivale2 boot loader's GDT: null, 16-bit code/data, 32-bit
\* code/data, 64-bit code (selector 0x28) and data.
MCBootGDT == [i \in 0..6 |-> IF i = 0 THEN 0 ELSE IF i % 2 = 1 THEN 154 ELSE 146]

\* Distinct wrapper addresses that use all three offset fields.
MCWrapper == [v \in {r[1] : r \in Registered} |-> 255 - v]

\* The LAPIC timer and the keyboard in kernel or user code, int 0x80 from
\* user code, user int3 and int 48 (to ring-0 gates) and a page fault.
MCEvents ==
    {[vec |-> v, soft |-> FALSE, cpl |-> c] : v \in {33, 48}, c \in {0, 3}}
    \cup {[vec |-> v, soft |-> TRUE, cpl |-> 3] : v \in {3, 48, 128}}
    \cup {[vec |-> v, soft |-> FALSE, cpl |-> c] : v \in {2, 14}, c \in {0, 3}}

\* The same, plus the LAPIC spurious-interrupt vector 0xff set by
\* ActivateLAPIC (APIC.cpp:33).
MCEventsSpurious == MCEvents \cup {[vec |-> 255, soft |-> FALSE, cpl |-> 0]}

=============================================================================
