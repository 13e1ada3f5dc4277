------------------------------ MODULE DeviceFS ------------------------------
(***************************************************************************)
(* DeviceFS (src/kernel/src/DeviceFS.cpp) under the vnode-based VFS of the *)
(* newer kernel generation, and the three Opens of /dev/tty that           *)
(* Scheduler::CreateTaskFromELF makes for every new task.                  *)
(*                                                                         *)
(* The VFS class, its vnode cache, mount table and descriptor tables, and  *)
(* the Ext2 side of find_in_directory are not under src/: they follow the  *)
(* spec (sections 3, 4.3 and 4.4).  A vnode object is its index in         *)
(* `vnodes`; the cache is the set of objects SearchInCache can return.     *)
(* The Ext2 volume is the set of its directory entries <<dir, name, ino>>. *)
(* Data, sizes and offsets are not modelled: no property is about them;   *)
(* which file or device a Read or Write reaches is.                       *)
(***************************************************************************)
EXTENDS Naturals, Integers, Sequences, FiniteSets, TLC

CONSTANTS
    Tasks,          \* the tasks CreateTaskFromELF may create
    Opens,          \* [path, create, trunc] a task may pass to Open
    InitDirents,    \* the Ext2 volume's directory entries <<dir, name, ino>>
    InitTypes,      \* Ext2 inode -> "Directory" or "RegularFile"
    FreeInos,       \* Ext2 inodes Create may allocate, in order
    MaxFds          \* bound on a task's descriptor table

Null == 0
ExtRootIno == 2
\* currentInodeNum's first value (DeviceFS.h is not under src/).
FirstDevIno == 1
TtyPath == <<"dev", "tty">>

VARIABLES
    vnodes,         \* every vnode object: [fs, ino, type]
    cached,         \* the objects in the vnode cache
    mounts,         \* the mount table: [point, root] objects
    devices,        \* DeviceFS's devices: [name, ino]
    dirents,        \* the Ext2 directory entries
    types,          \* Ext2 inode types
    fds,            \* each task's descriptor table: [present, obj, path]
    created,        \* tasks CreateTaskFromELF has pushed
    panicked,       \* a Panic() or failed Assert halted the kernel
    lastIO          \* the last Read/Write: [path, fs, ino] it reached

vars == <<vnodes, cached, mounts, devices, dirents, types, fds, created, panicked, lastIO>>

-----------------------------------------------------------------------------
(* Lookups.  A lookup works on a state record st = [vnodes, cached,        *)
(* dirents, types] and returns [st, res, panic].                           *)

St == [vnodes |-> vnodes, cached |-> cached, dirents |-> dirents, types |-> types]

DevRoot == 3        \* fileSystemRoot of DeviceFS, the third object built

\* Mutant: the cache is searched by inode number alone.
SearchInCacheAnyFs(st, ino, fs) ==
    IF \E o \in st.cached : st.vnodes[o].ino = ino
    THEN CHOOSE o \in st.cached : st.vnodes[o].ino = ino
    ELSE Null

\* VFS::SearchInCache(inodeNum, fileSystem): the cached object, or null.
SearchInCache(st, ino, fs) ==
    IF \E o \in st.cached : st.vnodes[o].fs = fs /\ st.vnodes[o].ino = ino
    THEN CHOOSE o \in st.cached : st.vnodes[o].fs = fs /\ st.vnodes[o].ino = ino
    ELSE Null

\* A new vnode object, put in the cache (VFS::CacheVNode).
CacheNew(st, v) ==
    [st EXCEPT !.vnodes = Append(@, v), !.cached = @ \cup {Len(st.vnodes) + 1}]

Hit(st, o) == [st |-> st, res |-> o, panic |-> FALSE]

\* Mutant: the device's vnode is built afresh instead of taken from the
\* cache.
DevFindFresh(st, dir, name) ==
    IF dir # DevRoot THEN [st |-> st, res |-> Null, panic |-> TRUE]
    ELSE IF \E d \in devices : d.name = name
    THEN LET d == CHOOSE d \in devices : d.name = name
         IN  Hit([st EXCEPT !.vnodes = Append(@, [fs |-> "dev", ino |-> d.ino,
                      type |-> "CharacterDevice", ctx |-> d.ino])], Len(st.vnodes) + 1)
    ELSE Hit(st, Null)

\* DeviceFS::FindInDirectory: Assert(directory == fileSystemRoot); the
\* device of that name, its vnode from the cache (Assert it is there), or
\* nullptr.
DevFind(st, dir, name) ==
    IF dir # DevRoot THEN [st |-> st, res |-> Null, panic |-> TRUE]
    ELSE IF \E d \in devices : d.name = name
    THEN LET d == CHOOSE d \in devices : d.name = name
             o == SearchInCache(st, d.ino, "dev")
         IN  [st |-> st, res |-> o, panic |-> o = Null]
    ELSE Hit(st, Null)

\* Ext2's find_in_directory: the entry of that name in the directory, its
\* vnode from the cache, or a new one cached on first lookup.
ExtFind(st, dir, name) ==
    LET d == st.vnodes[dir].ino
    IN  IF \E e \in st.dirents : e[1] = d /\ e[2] = name
        THEN LET ino == (CHOOSE e \in st.dirents : e[1] = d /\ e[2] = name)[3]
                 o == SearchInCache(st, ino, "ext2")
             IN  IF o # Null THEN Hit(st, o)
                 ELSE Hit(CacheNew(st, [fs |-> "ext2", ino |-> ino, type |-> st.types[ino],
                                        ctx |-> Null]), Len(st.vnodes) + 1)
        ELSE Hit(st, Null)

FindInDirectory(st, dir, name) ==
    IF st.vnodes[dir].fs = "dev" THEN DevFind(st, dir, name) ELSE ExtFind(st, dir, name)

\* A vnode that is a mount point is replaced by the mounted root.
Crossed(o) == IF \E m \in mounts : m.point = o
              THEN (CHOOSE m \in mounts : m.point = o).root ELSE o

\* Path traversal: from the root, find_in_directory per component and cross
\* mounts.  A missing final component returns the parent and the name; a
\* missing intermediate one is NotFound.
RECURSIVE Walk(_, _, _)
Walk(st, cur, comps) ==
    IF comps = <<>>
    THEN [st |-> st, obj |-> cur, parent |-> Null, err |-> FALSE, panic |-> FALSE]
    ELSE LET f == FindInDirectory(st, cur, Head(comps))
         IN  IF f.panic
             THEN [st |-> f.st, obj |-> Null, parent |-> Null, err |-> TRUE, panic |-> TRUE]
             ELSE IF f.res = Null
             THEN [st |-> f.st, obj |-> Null, parent |-> cur,
                   err |-> Len(comps) > 1, panic |-> FALSE]
             ELSE Walk(f.st, Crossed(f.res), Tail(comps))

-----------------------------------------------------------------------------
(* Open and the descriptor table.                                          *)

Last(path) == path[Len(path)]

\* Ext2's create: the first free inode, a regular file, an entry in the
\* parent directory, its vnode cached.
ExtCreate(st, parent, name) ==
    LET ino == CHOOSE i \in FreeInos \ DOMAIN st.types :
                   \A j \in FreeInos \ DOMAIN st.types : i <= j
        st2 == [st EXCEPT !.dirents = @ \cup {<<st.vnodes[parent].ino, name, ino>>},
                          !.types = (ino :> "RegularFile") @@ @]
    IN  CacheNew(st2, [fs |-> "ext2", ino |-> ino, type |-> "RegularFile", ctx |-> Null])

\* Mutant: a descriptor is always appended, closed slots are not reused.
FreeSlotAppend(tbl) == Len(tbl) + 1

\* open: the lowest slot whose present is false, else a new one at the end.
FreeSlot(tbl) ==
    LET free == {i \in DOMAIN tbl : ~tbl[i].present}
    IN  IF free = {} THEN Len(tbl) + 1 ELSE CHOOSE i \in free : \A j \in free : i <= j

Grant(st, tbl, o, path) ==
    LET i == FreeSlot(tbl)
        d == [present |-> TRUE, obj |-> o, path |-> path]
    IN  [st |-> st, fd |-> i - 1, panic |-> FALSE,
         tbl |-> IF i > Len(tbl) THEN Append(tbl, d) ELSE [tbl EXCEPT ![i] = d]]

Fail(st, tbl, p) == [st |-> st, tbl |-> tbl, fd |-> -1, panic |-> p]

\* The parent's filesystem's create: DeviceFS::Create Panics; Ext2 takes
\* a free inode (NotFound-like failure when there is none).
FsCreate(st, tbl, parent, path) ==
    CASE st.vnodes[parent].fs = "dev"           -> Fail(st, tbl, TRUE)
      [] FreeInos \subseteq DOMAIN st.types     -> Fail(st, tbl, FALSE)
      [] OTHER -> LET c == ExtCreate(st, parent, Last(path))
                  IN  Grant(c, tbl, Len(c.vnodes), path)

\* The filesystem's truncate: DeviceFS::Truncate Panics; Ext2's sets the
\* size to 0 (sizes are not modelled).
FsTruncate(st, tbl, o, path) ==
    IF st.vnodes[o].fs = "dev" THEN Fail(st, tbl, TRUE) ELSE Grant(st, tbl, o, path)

\* Truncate applies to regular files only (spec section 4.4).
Truncates(st, o, trunc) == trunc /\ st.vnodes[o].type = "RegularFile"

\* VFS Open(path, flags): traverse; a missing last component is created
\* with Create (DeviceFS::Create Panics), else NotFound; an existing
\* regular file is truncated with Truncate; then a descriptor.
OpenIn(st, tbl, path, create, trunc) ==
    LET w == Walk(st, 1, path)
    IN  CASE w.panic                                   -> Fail(w.st, tbl, TRUE)
          [] w.err \/ (w.obj = Null /\ ~create)        -> Fail(w.st, tbl, FALSE)
          [] w.obj = Null -> FsCreate(w.st, tbl, w.parent, path)
          [] Truncates(w.st, w.obj, trunc) -> FsTruncate(w.st, tbl, w.obj, path)
          [] OTHER        -> Grant(w.st, tbl, w.obj, path)

SetSt(st) == /\ vnodes' = st.vnodes /\ cached' = st.cached
             /\ dirents' = st.dirents /\ types' = st.types

-----------------------------------------------------------------------------
(* Actions.                                                                *)

\* Scheduler::CreateTaskFromELF: a new VFS, Open("/dev/tty", ReadWrite)
\* three times with Assert(desc == 0), (== 1), (== 2), then the task is
\* pushed on the run queue.
CreateTaskFromELF(t) ==
    /\ ~panicked /\ t \notin created
    /\ LET o1 == OpenIn(St, <<>>, TtyPath, FALSE, FALSE)
           o2 == OpenIn(o1.st, o1.tbl, TtyPath, FALSE, FALSE)
           o3 == OpenIn(o2.st, o2.tbl, TtyPath, FALSE, FALSE)
       IN  IF o1.panic \/ o1.fd # 0 \/ o2.panic \/ o2.fd # 1 \/ o3.panic \/ o3.fd # 2
           THEN /\ panicked' = TRUE
                /\ UNCHANGED <<vnodes, cached, dirents, types, fds, created>>
           ELSE /\ SetSt(o3.st)
                /\ fds' = [fds EXCEPT ![t] = o3.tbl]
                /\ created' = created \cup {t}
                /\ UNCHANGED panicked
    /\ UNCHANGED <<mounts, devices, lastIO>>

\* The Open system call of a created task.
Open(t, op) ==
    /\ ~panicked /\ t \in created
    /\ Len(fds[t]) < MaxFds \/ \E i \in DOMAIN fds[t] : ~fds[t][i].present
    /\ LET r == OpenIn(St, fds[t], op.path, op.create, op.trunc)
       IN  IF r.panic
           THEN /\ panicked' = TRUE
                /\ UNCHANGED <<vnodes, cached, dirents, types, fds>>
           ELSE /\ SetSt(r.st)
                /\ fds' = [fds EXCEPT ![t] = r.tbl]
                /\ UNCHANGED panicked
    /\ UNCHANGED <<mounts, devices, created, lastIO>>

\* close: present = false; the slot stays for reuse.  The vnode reference
\* a closed slot keeps is never read again (Open overwrites the slot), so
\* it is cleared.
NoIO == [path |-> <<>>, fs |-> "none", ino |-> Null]

Closed == [present |-> FALSE, obj |-> Null, path |-> <<>>]

Close(t, i) ==
    /\ ~panicked /\ t \in created
    /\ i \in DOMAIN fds[t] /\ fds[t][i].present
    /\ fds' = [fds EXCEPT ![t][i] = Closed]
    /\ UNCHANGED <<vnodes, cached, mounts, devices, dirents, types, created, panicked, lastIO>>

\* Read and Write on a descriptor: the VFS hands its vnode to the vnode's
\* filesystem.  DeviceFS::Read/Write cast vnode->context to the Device
\* and call it; the context is set only on device vnodes (the DeviceFS
\* root's is never set), and calling through an unset one faults, which
\* ExceptionHandler turns into a Panic.  Ext2 reads or writes the inode.
FsIO(t, i) ==
    /\ ~panicked /\ t \in created
    /\ i \in DOMAIN fds[t] /\ fds[t][i].present
    /\ LET v == vnodes[fds[t][i].obj]
       IN  IF v.fs = "dev" /\ v.ctx = Null
           THEN /\ panicked' = TRUE /\ UNCHANGED lastIO
           ELSE /\ lastIO' = [path |-> fds[t][i].path, fs |-> v.fs,
                              ino |-> IF v.fs = "dev" THEN v.ctx ELSE v.ino]
                /\ UNCHANGED panicked
    /\ UNCHANGED <<vnodes, cached, mounts, devices, dirents, types, fds, created>>

\* DeviceFS::Read and DeviceFS::Write differ only in the device call.
Read(t, i) == FsIO(t, i)
Write(t, i) == FsIO(t, i)

\* Boot: the Ext2 root and /dev (looked up to mount on) are cached; the
\* DeviceFS constructor builds and caches its root (currentInodeNum++),
\* registers the tty device (currentInodeNum++) and caches its vnode;
\* DeviceFS is mounted on /dev.
ExtDevDir == (CHOOSE e \in InitDirents : e[1] = ExtRootIno /\ e[2] = "dev")[3]

Init ==
    /\ vnodes = << [fs |-> "ext2", ino |-> ExtRootIno, type |-> "Directory", ctx |-> Null],
                   [fs |-> "ext2", ino |-> ExtDevDir, type |-> "Directory", ctx |-> Null],
                   [fs |-> "dev", ino |-> FirstDevIno, type |-> "Directory", ctx |-> Null],
                   [fs |-> "dev", ino |-> FirstDevIno + 1, type |-> "CharacterDevice",
                    ctx |-> FirstDevIno + 1] >>
    /\ cached = {1, 2, 3, 4}
    /\ mounts = {[point |-> 2, root |-> DevRoot]}
    /\ devices = {[name |-> "tty", ino |-> FirstDevIno + 1]}
    /\ dirents = InitDirents
    /\ types = InitTypes
    /\ fds = [t \in Tasks |-> <<>>]
    /\ created = {}
    /\ panicked = FALSE
    /\ lastIO = NoIO

Next ==
    \/ \E t \in Tasks : CreateTaskFromELF(t)
    \/ \E t \in Tasks, op \in Opens : Open(t, op)
    \/ \E t \in Tasks, i \in 1..MaxFds : Close(t, i) \/ Read(t, i) \/ Write(t, i)

Spec == Init /\ [][Next]_vars

-----------------------------------------------------------------------------
(* Properties.                                                             *)

Descs == {<<t, i>> : t \in created, i \in 1..MaxFds}
Live(d) == d[2] \in DOMAIN fds[d[1]] /\ fds[d[1]][d[2]].present
DescOf(d) == fds[d[1]][d[2]]

TypeOK ==
    /\ vnodes \in Seq([fs : {"ext2", "dev"}, ino : Nat,
                       type : {"Directory", "RegularFile", "CharacterDevice"}, ctx : Nat])
    /\ cached \subseteq DOMAIN vnodes
    /\ fds \in [Tasks -> Seq([present : BOOLEAN, obj : Nat, path : Seq(STRING)])]
    /\ \A t \in Tasks : Len(fds[t]) <= MaxFds
    /\ created \subseteq Tasks /\ panicked \in BOOLEAN
    /\ lastIO \in [path : Seq(STRING),
                   fs : {"none", "ext2", "dev"}, ino : Nat]

\* Referential equality of the vnode cache (spec section 8): no two cached
\* objects are the same (filesystem, inode), and every open descriptor of
\* every task holds a cached object, so tasks that open the same file
\* (the tty of CreateTaskFromELF above all) share one vnode.
VnodeIdentity ==
    /\ \A o1, o2 \in cached :
          o1 # o2 => vnodes[o1].fs # vnodes[o2].fs \/ vnodes[o1].ino # vnodes[o2].ino
    /\ \A d \in Descs : Live(d) => DescOf(d).obj \in cached

\* The file a path names in the mounted namespace, from the directory
\* entries and the device registry alone: /dev/<name> is DeviceFS's.
RECURSIVE ExtIno(_, _)
ExtIno(dir, comps) ==
    IF comps = <<>> THEN dir
    ELSE IF \E e \in dirents : e[1] = dir /\ e[2] = Head(comps)
    THEN ExtIno((CHOOSE e \in dirents : e[1] = dir /\ e[2] = Head(comps))[3], Tail(comps))
    ELSE Null

Names(path) ==
    IF path = <<"dev">> THEN [fs |-> "dev", ino |-> FirstDevIno]
    ELSE IF Len(path) = 2 /\ path[1] = "dev" /\ \E d \in devices : d.name = path[2]
    THEN [fs |-> "dev", ino |-> (CHOOSE d \in devices : d.name = path[2]).ino]
    ELSE [fs |-> "ext2", ino |-> ExtIno(ExtRootIno, path)]

\* Every open descriptor holds the vnode of the file its path names, and
\* the last Read or Write reached that file, or the device registered
\* under that name through the vnode's context: the traversal crosses the
\* /dev mount and find_in_directory for a device is answered by DeviceFS,
\* through a cache keyed by filesystem and inode (spec scenario 6).
OpensResolve ==
    /\ \A d \in Descs : Live(d) =>
          [fs |-> vnodes[DescOf(d).obj].fs, ino |-> vnodes[DescOf(d).obj].ino]
              = Names(DescOf(d).path)
    /\ lastIO # NoIO => [fs |-> lastIO.fs, ino |-> lastIO.ino] = Names(lastIO.path)

\* No Assert fails and nothing Panics: neither DeviceFS's FindInDirectory,
\* Create and Truncate nor a Read or Write through a vnode without a device.
NoPanic == ~panicked

=============================================================================
