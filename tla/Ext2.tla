------------------------------- MODULE Ext2 -------------------------------
(***************************************************************************)
(* Ext2::Initialize and Ext2::GetDirectoryListing (src/kernel/src/Ext2.cpp) *)
(* over a RAM-disk volume.  Initialize computes the block-group geometry   *)
(* from the superblock, lists the root directory, looks up                 *)
(* /subdirectory-bravo, lists it, looks up bar.txt and reads it.           *)
(*                                                                         *)
(* A directory's data is the sequence of its on-disk entries [inode,       *)
(* entrySize, nameLen, name], each starting where the previous one's       *)
(* entrySize ends.  Each iteration of the parsing loop is one step.  A     *)
(* read at an offset where no entry starts returns bytes of some other     *)
(* entry: a nondeterministic choice of Garbage.  uint32 arithmetic is     *)
(* taken modulo 2^Width.                                                   *)
(***************************************************************************)
EXTENDS Naturals, Sequences, FiniteSets

CONSTANTS
    Volumes,        \* candidate RAM disks: [sb, dirs]
    Width           \* bit width of uint32, scaled

INODE_ROOT_DIR == 2
U32(x) == x % (2 ^ Width)

\* Bytes read where no entry starts, as an entry: a free slot whose
\* entrySize is whatever the name bytes there hold.
Garbage == {[inode |-> 0, entrySize |-> s, nameLen |-> 0, name |-> "?"] : s \in {0, 8}}

VARIABLES
    vol,            \* the RAM disk
    phase,          \* "root", "sub": listing that directory; "done"; "halt"
    cur,            \* inode of the directory being listed
    parsed,         \* parsedLength
    listing,        \* vNodes: the [name, ino] pushed so far
    subDir,         \* subDirInodeNum
    fetched         \* ghost: inode numbers passed to GetInode

vars == <<vol, phase, cur, parsed, listing, subDir, fetched>>

Sb == vol.sb
Entries(d) == IF d \in DOMAIN vol.dirs THEN vol.dirs[d] ELSE <<>>

\* Byte offset of entry k of directory d.
RECURSIVE StartOf(_, _)
StartOf(d, k) == IF k = 1 THEN 0 ELSE StartOf(d, k - 1) + Entries(d)[k - 1].entrySize

\* size0 of a directory: the entries fill it.
Size(d) == IF Entries(d) = <<>> THEN 0 ELSE StartOf(d, Len(Entries(d)) + 1)

\* The entries a read at offset `at` of d may return: the first entry that
\* starts there (an entrySize of 0 makes the next one start at the same
\* offset, and the bytes there are its own), or Garbage.
ReadEntry(d, at) ==
    LET ks == {k \in DOMAIN Entries(d) : StartOf(d, k) = at}
    IN  IF ks = {} THEN Garbage
        ELSE {Entries(d)[CHOOSE k \in ks : \A j \in ks : k <= j]}

\* blockGroupsCount: blocks per group rounded up, and the KAssert that the
\* inode count gives the same (lines 174-180).
CeilDiv(a, b) == a \div b + (IF a % b > 0 THEN 1 ELSE 0)
BlockGroupsCount == CeilDiv(Sb.blocks, Sb.bpg)
GeometryOK == BlockGroupsCount = CeilDiv(Sb.inodes, Sb.ipg)

\* GetInode: the block group and index of an inode (inode numbers start
\* at 1), in uint32 arithmetic.
\* Mutant: the index forgets that inode numbers start at 1.
BlockGroupIndexNoMinus(ino) == U32(ino) \div Sb.ipg

BlockGroupIndex(ino) == U32(ino - 1 + 2 ^ Width) \div Sb.ipg

-----------------------------------------------------------------------------
(* GetDirectoryListing (lines 117-144).                                    *)

\* Mutant: the inode-0 test is dropped and free slots are listed.
ListedAll(r) == TRUE

\* Line 132: only entries whose inode is not 0 become vnodes.
Listed(r) == r.inode # 0

\* Mutant: the cursor advances by the bytes read, not by entrySize.
AdvanceRead(r) == 8 + r.nameLen

\* Mutant: a free slot is skipped without advancing (a `continue` before
\* the increment).
AdvanceInUse(r) == IF r.inode = 0 THEN 0 ELSE r.entrySize

\* parsedLength += directoryEntry->entrySize.
Advance(r) == r.entrySize

\* The loop condition: while (parsedLength < directoryInode->size0).
ListingDone(d, at) == at >= Size(d)

\* One iteration: read the entry at parsedLength; push a vnode for it when
\* its inode is not 0; advance by its entrySize.
ParseEntry ==
    /\ phase \in {"root", "sub"}
    /\ ~ListingDone(cur, parsed)
    /\ \E r \in ReadEntry(cur, parsed) :
          /\ listing' = IF Listed(r) THEN Append(listing, [name |-> r.name, ino |-> r.inode])
                        ELSE listing
          /\ parsed' = parsed + Advance(r)
    /\ UNCHANGED <<vol, phase, cur, subDir, fetched>>

\* The last listed inode with this name (the loops have no break), 0 if none.
Find(name) ==
    LET ks == {k \in DOMAIN listing : listing[k].name = name}
    IN  IF ks = {} THEN 0 ELSE listing[CHOOSE k \in ks : \A j \in ks : j <= k].ino

-----------------------------------------------------------------------------
(* Initialize (lines 146-223).                                             *)

\* The root listing is complete: find subdirectory-bravo, GetInode it and
\* list it.
ListSubdirectory ==
    /\ phase = "root" /\ ListingDone(cur, parsed)
    /\ phase' = "sub"
    /\ subDir' = Find("subdirectory-bravo")
    /\ cur' = Find("subdirectory-bravo")
    /\ fetched' = fetched \cup {Find("subdirectory-bravo")}
    /\ parsed' = 0 /\ listing' = <<>>
    /\ UNCHANGED vol

\* The subdirectory listing is complete: find bar.txt, GetInode it and
\* read its size0 bytes.
ReadBar ==
    /\ phase = "sub" /\ ListingDone(cur, parsed)
    /\ phase' = "done"
    /\ fetched' = fetched \cup {Find("bar.txt")}
    /\ UNCHANGED <<vol, cur, parsed, listing, subDir>>

\* After the superblock KAsserts and the geometry: GetInode(INODE_ROOT_DIR)
\* and the root listing begins; a failed KAssert halts.
Init ==
    /\ vol \in Volumes
    /\ phase = IF GeometryOK THEN "root" ELSE "halt"
    /\ cur = INODE_ROOT_DIR
    /\ parsed = 0
    /\ listing = <<>>
    /\ subDir = 0
    /\ fetched = {INODE_ROOT_DIR}

Next == ParseEntry \/ ListSubdirectory \/ ReadBar

Spec == Init /\ [][Next]_vars /\ WF_vars(Next)

-----------------------------------------------------------------------------
(* Properties.                                                             *)

\* Types; a vnode is only made for an in-use entry, so its inode is not 0.
TypeOK ==
    /\ phase \in {"root", "sub", "done", "halt"}
    /\ parsed \in Nat
    /\ listing \in Seq([name : STRING, ino : 1 .. 2 ^ Width - 1])
    /\ fetched \subseteq Nat

\* A completed listing names exactly the in-use entries of the directory,
\* in on-disk order (spec 3: inode == 0 marks a free slot).
LiveEntries(d) ==
    LET live == {k \in DOMAIN Entries(d) : Entries(d)[k].inode # 0}
        idx  == CHOOSE f \in [1..Cardinality(live) -> live] :
                    \A i, j \in DOMAIN f : i < j => f[i] < f[j]
    IN  [i \in DOMAIN idx |-> [name |-> Entries(d)[idx[i]].name,
                               ino |-> Entries(d)[idx[i]].inode]]

ListingMatches ==
    (phase \in {"root", "sub"} /\ parsed >= Size(cur)) => listing = LiveEntries(cur)

\* Every inode number passed to GetInode lies in an existing block group:
\* GetInode never indexes past the block-group descriptor table.
InodeInTable ==
    \A i \in fetched : BlockGroupIndex(i) < BlockGroupsCount

\* Initialize finishes: every directory listing terminates.
ListingTerminates == <>(phase \in {"done", "halt"})

=============================================================================
