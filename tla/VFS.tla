-------------------------------- MODULE VFS --------------------------------
(***************************************************************************)
(* The file layer of src/kernel/src/VFS.cpp: path traversal over the Ext2  *)
(* directory tree, and open / close / read / write / seek on the file     *)
(* descriptor table of one process.                                        *)
(*                                                                         *)
(* A process issues one system call at a time, so the operations of one   *)
(* descriptor table are sequential; the interest is in the sequences of    *)
(* calls.  An inode is a number; a directory is the sequence of its        *)
(* entries [name, ino]; a file is its size.  File contents are not kept.   *)
(* Ext2Inode's Read, Write and Create are not under src/ and are modelled  *)
(* from the spec (section 4.4).                                            *)
(***************************************************************************)
EXTENDS Naturals, Sequences, FiniteSets

CONSTANTS
    Inodes,         \* inode numbers of the volume
    RootIno,        \* INODE_ROOT_DIR = 2
    InitEntries,    \* directory entries of the initial volume: [Inodes -> Seq]
    InitDirs,       \* inodes that are directories in the initial volume
    InitSizes,      \* inode sizes of the initial volume
    Paths,          \* paths a process may pass, as their '/'-separated tokens
    MaxFds,         \* bound on the length of the descriptor table
    MaxSize,        \* bound on file sizes
    Counts,         \* byte counts passed to Read and Write
    Offsets         \* offsets passed to Seek

Flags == {"Create", "Truncate", "Append"}
SeekTypes == {"SeekSet", "SeekCursor", "SeekEnd"}

VARIABLES
    entries,        \* directory entries of each inode (empty for files)
    isDir,          \* inodes whose type is Directory
    size,           \* size0 of each inode
    allocated,      \* inodes marked in the inode-usage bitmaps
    fds,            \* process->fileDescriptors: [present, offset, vnode]
    handed,         \* ghost: descriptor indices returned by Open, not closed
    lastCall,       \* ghost: the last call, and for Open what it was asked and found
    panicked        \* a KAssert has halted the kernel

vars == <<entries, isDir, size, allocated, fds, handed, lastCall, panicked>>

\* lastCall of a call other than Open, on descriptor d.
NotOpen(op, d) == [op |-> op, idx |-> d, flags |-> {}, exists |-> TRUE, path |-> <<>>]

-----------------------------------------------------------------------------
(* Ext2 side: the directory listing of Ext2.cpp, and inode allocation      *)
(* modelled from the spec.                                                 *)

\* The inode a directory entry of `dir` named `name` points at; the first
\* entry wins (GetDirectoryListing lists entries in on-disk order); 0 if
\* there is none.
Lookup(dir, name) ==
    LET hits == {i \in DOMAIN entries[dir] : entries[dir][i].name = name}
    IN  IF hits = {} THEN 0
        ELSE entries[dir][CHOOSE i \in hits : \A j \in hits : i <= j].ino

\* Ext2Inode::Create: a fresh inode, the first clear bit of the inode-usage
\* bitmap.
FreeInode ==
    LET free == Inodes \ allocated
    IN  CHOOSE i \in free : \A j \in free : i <= j

-----------------------------------------------------------------------------
(* VFS.cpp.                                                                *)

\* TraversePath: walk the tokens from the root directory.  Each token is
\* looked up in the current directory's listing; a token that is not found
\* is fatal (KAssert) unless it is the last one.  Returns the vnode of the
\* last token found (the root if none), whether the final token exists,
\* and the final token.
RECURSIVE Walk(_, _)
Walk(cur, toks) ==
    LET found == Lookup(cur, Head(toks))
    IN  IF Len(toks) = 1
        THEN [ok |-> TRUE, exists |-> found # 0,
              node |-> IF found # 0 THEN found ELSE cur, name |-> Head(toks)]
        ELSE IF found = 0
             THEN [ok |-> FALSE, exists |-> FALSE, node |-> cur, name |-> Head(toks)]
             ELSE Walk(found, Tail(toks))

TraversePath(path) == Walk(RootIno, path)

\* The descriptor-slot loop of Open: every slot that is not present is
\* marked present and the last such index kept (there is no break); with
\* no free slot a new one is pushed.
FreeSlots == {i \in DOMAIN fds : ~fds[i].present}

DescriptorIndex ==
    IF FreeSlots = {} THEN Len(fds) + 1
    ELSE CHOOSE i \in FreeSlots : \A j \in FreeSlots : i >= j

\* Mutant: a file is created whether or not the final token exists.
MustCreateAlways(flags, exists) == "Create" \in flags

\* Line 134: OCreate creates the final token when it was not found.
MustCreate(flags, exists) == "Create" \in flags /\ ~exists

\* Open(path, flags).  After the slot loop, the descriptor's vnode is the
\* traversal result; `inode` stays the inode of that result even when a new
\* file is created into it (lines 132-146), so Truncate tests the type of
\* the traversed inode and Append seeks to the end of it.
Open(path, flags) ==
    /\ ~panicked
    /\ FreeSlots # {} \/ Len(fds) < MaxFds
    /\ LET tp   == TraversePath(path)
           idx  == DescriptorIndex
           new  == FreeInode
           ino  == tp.node
           make == MustCreate(flags, tp.exists)
           vn   == IF make THEN new ELSE ino
           trunc == "Truncate" \in flags /\ ~isDir[ino]
           sz   == [size EXCEPT ![ino] = IF trunc THEN 0 ELSE @]
           marked == [i \in DOMAIN fds |->
                        IF i \in FreeSlots THEN [fds[i] EXCEPT !.present = TRUE]
                        ELSE fds[i]]
           slots == IF FreeSlots = {}
                    THEN Append(fds, [present |-> TRUE, offset |-> 0, vnode |-> 0])
                    ELSE marked
       IN  IF ~tp.ok
           THEN /\ panicked' = TRUE
                /\ UNCHANGED <<entries, isDir, size, allocated, fds, handed, lastCall>>
           ELSE /\ make => allocated # Inodes
                /\ entries' = IF make
                              THEN [entries EXCEPT ![ino] =
                                      Append(@, [name |-> tp.name, ino |-> new])]
                              ELSE entries
                /\ allocated' = IF make THEN allocated \cup {new} ELSE allocated
                /\ isDir' = isDir
                /\ size' = IF make THEN [sz EXCEPT ![new] = 0] ELSE sz
                /\ fds' = [slots EXCEPT ![idx] =
                             [present |-> TRUE, vnode |-> vn,
                              offset |-> IF "Append" \in flags THEN sz[ino]
                                         ELSE slots[idx].offset]]
                /\ handed' = handed \cup {idx}
                /\ lastCall' = [op |-> "Open", idx |-> idx, flags |-> flags,
                                 exists |-> tp.exists, path |-> path]
                /\ UNCHANGED panicked

\* RepositionOffset(fileDescriptor, inode, offset, seekType): moves the
\* offset and, when it passes the end of the file, extends the file with
\* zeros up to it (inode->Write(0, offset - size0, size0, false)).
NewOffset(d, off, type) ==
    CASE type = "SeekSet"    -> off
      [] type = "SeekCursor" -> fds[d].offset + off
      [] type = "SeekEnd"    -> size[fds[d].vnode] + off

Reposition(d, to) ==
    /\ to <= MaxSize
    /\ fds' = [fds EXCEPT ![d].offset = to]
    /\ size' = [size EXCEPT ![fds[d].vnode] = IF to > @ THEN to ELSE @]

Seek(d, off, type) ==
    /\ ~panicked
    /\ d \in DOMAIN fds
    /\ Reposition(d, NewOffset(d, off, type))
    /\ lastCall' = NotOpen("Seek", d)
    /\ UNCHANGED <<entries, isDir, allocated, handed, panicked>>

\* Mutant: the offset is left as it was.
CloseKeepsOffset(d) ==
    /\ ~panicked
    /\ d \in DOMAIN fds
    /\ fds' = [fds EXCEPT ![d].present = FALSE]
    /\ handed' = handed \ {d}
    /\ lastCall' = NotOpen("Close", d)
    /\ UNCHANGED <<entries, isDir, size, allocated, panicked>>

\* Close: clears present and zeroes the offset; the slot stays for reuse.
Close(d) ==
    /\ ~panicked
    /\ d \in DOMAIN fds
    /\ fds' = [fds EXCEPT ![d].present = FALSE, ![d].offset = 0]
    /\ handed' = handed \ {d}
    /\ lastCall' = NotOpen("Close", d)
    /\ UNCHANGED <<entries, isDir, size, allocated, panicked>>

\* Mutant: the requested count is taken as the count read.
ReadCountRequested(d, count) == count

\* inode->Read(buffer, count, offset): the bytes between the offset and the
\* end of the file, at most count.
ReadCount(d, count) ==
    LET sz == size[fds[d].vnode]
    IN  IF fds[d].offset >= sz THEN 0
        ELSE IF sz - fds[d].offset < count THEN sz - fds[d].offset
        ELSE count

\* Read: the offset advances by the count read (SeekCursor).  There is no
\* check that the descriptor is present.
Read(d, count) ==
    /\ ~panicked
    /\ d \in DOMAIN fds
    /\ fds' = [fds EXCEPT ![d].offset = @ + ReadCount(d, count)]
    /\ lastCall' = NotOpen("Read", d)
    /\ UNCHANGED <<entries, isDir, size, allocated, handed, panicked>>

\* Write: inode->Write writes count bytes at the offset, growing the file;
\* the offset advances by count (SeekCursor).
Write(d, count) ==
    /\ ~panicked
    /\ d \in DOMAIN fds
    /\ fds[d].offset + count <= MaxSize
    /\ Reposition(d, fds[d].offset + count)
    /\ lastCall' = NotOpen("Write", d)
    /\ UNCHANGED <<entries, isDir, allocated, handed, panicked>>

-----------------------------------------------------------------------------

Init ==
    /\ entries = InitEntries
    /\ isDir = [i \in Inodes |-> i \in InitDirs]
    /\ size = InitSizes
    /\ allocated = {i \in Inodes : i = RootIno \/ \E d \in Inodes :
                       \E k \in DOMAIN InitEntries[d] : InitEntries[d][k].ino = i}
    /\ fds = <<>>
    /\ handed = {}
    /\ lastCall = NotOpen("none", 0)
    /\ panicked = FALSE

Next ==
    \/ \E p \in Paths, f \in SUBSET Flags : Open(p, f)
    \/ \E d \in 1..MaxFds :
          \/ Close(d)
          \/ \E n \in Counts : Read(d, n) \/ Write(d, n)
          \/ \E o \in Offsets, t \in SeekTypes : Seek(d, o, t)

Spec == Init /\ [][Next]_vars

-----------------------------------------------------------------------------
(* Properties.                                                             *)

TypeOK ==
    /\ entries \in [Inodes -> Seq([name : STRING, ino : Inodes])]
    /\ isDir \in [Inodes -> BOOLEAN]
    /\ size \in [Inodes -> 0..MaxSize]
    /\ allocated \subseteq Inodes
    /\ fds \in Seq([present : BOOLEAN, offset : 0..MaxSize, vnode : Inodes \cup {0}])
    /\ Len(fds) <= MaxFds
    /\ handed \subseteq DOMAIN fds
    /\ panicked \in BOOLEAN

\* The inode a path names in the current directory tree, 0 if none.
RECURSIVE Named(_, _)
Named(cur, toks) ==
    IF toks = <<>> THEN cur
    ELSE IF Lookup(cur, Head(toks)) = 0 THEN 0
    ELSE Named(Lookup(cur, Head(toks)), Tail(toks))

\* An Open that found its final token, or created it, leaves the returned
\* descriptor on the inode the path now names: Open creates only when the
\* token is missing (line 134) and the descriptor takes the created vnode,
\* else the traversed one (lines 132-146), whatever the Opens, Closes and
\* Creates before it did to the directories and the table.
OpenedFileIsNamed ==
    (lastCall.op = "Open" /\ (lastCall.exists \/ "Create" \in lastCall.flags))
        => fds[lastCall.idx].vnode = Named(RootIno, lastCall.path)

\* Every present descriptor is one that Open returned and that was not
\* closed since (spec: open reuses the lowest free slot; no descriptor
\* leaks across open/close cycles).
DescriptorsHandedOut ==
    \A i \in DOMAIN fds : fds[i].present => i \in handed

\* A descriptor opened with Append starts at the end of its file.
AppendOpensAtEnd ==
    ("Append" \in lastCall.flags) =>
        fds[lastCall.idx].offset = size[fds[lastCall.idx].vnode]

\* Open without Create of a path whose final token does not exist fails
\* (spec 7: Open of a non-existent path without Create -> NotFound).
OpenNamesExistingFile ==
    lastCall.op = "Open" => (lastCall.exists \/ "Create" \in lastCall.flags)

\* A Seek never changes the size of a file (spec 7: seek past end does
\* not grow the file; the gap is zero-filled on the next write).
SeekKeepsSize ==
    [][lastCall'.op = "Seek" => size' = size]_vars

\* A Read, Write or Seek on a descriptor that is not open changes neither
\* the descriptor table nor any file (spec 7: read/write on an unknown
\* descriptor -> NoSuchDescriptor); Read, Write and RepositionOffset index
\* fileDescriptors without looking at present.
ClosedDescriptorsInert ==
    [][(lastCall'.op \in {"Read", "Write", "Seek"} /\ ~fds[lastCall'.idx].present)
         => UNCHANGED <<fds, size>>]_vars

\* Only directories have directory entries.
EntriesOnlyInDirectories ==
    \A i \in Inodes : entries[i] # <<>> => isDir[i]

=============================================================================
