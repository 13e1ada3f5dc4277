# TLA+ models of the MiskOS kernel

This directory holds TLA+ models of the MiskOS kernel in `src/kernel/src`. TLC checks them.
Every module is translated from the C++ source. `PROJECT.json` maps each definition to the lines it models.
It also lists the runs, the mutants that show each property can fail, the findings and the hazards.

## 1. The system and its parts

| Part | Source | State | Operations | Modelled in |
|---|---|---|---|---|
| Scheduler | `Scheduler.cpp`, `include/Task.h` | one global `taskQueue` under `taskQueueLock`; per core: `currentTask`, `idleTask`, `restoreFrame`, `timerEntries`, `currentTimerTime`; the static PID counter | `SwitchToNextTask`, `UpdateTimerEntries`, `ConfigureTimerClosestExpiry`, `SuspendSystemCall`, `Unblock`, `Unsuspend`, `SleepCurrentTask`, `ForkCurrentTask`, `ExitCurrentTask`, `CreateTaskFromELF` | `Scheduler` |
| Interrupt entry | `InterruptHandlers.cpp`, `IDT.cpp` | none of its own | the LAPIC timer (vector 48) → `SwitchToNextTask`; `int 0x80` → `SystemCall`; `int 0x81` → `SwitchToNextTask` | `Scheduler` (the actions' triggers) |
| Interrupt entry, older generation | `IDT.cpp`, `GDT.cpp` | the gate table `idt`, `initializedInterruptHandlersCount`, the GDT, `SystemCall`'s static `step` and `desc0` | `SetInterruptHandler`, `InitializeInterruptHandlers`, `InitializeIDT`, `LoadIDT`, `InitializeGDT`, `ISRHandler` and its handlers, the step-scripted `SystemCall` | `IDT` (with `VFS` instanced for the calls) |
| VFS | `VFS.cpp` | one process's descriptor table `fileDescriptors` | `TraversePath`, `Open`, `Close`, `Read`, `Write`, `RepositionOffset` | `VFS` |
| Ext2 | `Ext2.cpp` | superblock geometry, directory entries, inode sizes, the inode bitmap | `Initialize`, `GetDirectoryListing`, `GetInode`; the inode `Read`/`Write`/`Create` are not under `src/` | `Ext2` (boot listing, parsing loop, inode index); `VFS` (listing as lookup, inode operations from the spec) |
| ELF loader | `ELFLoader.cpp` | page table and frames, the initial user stack | `LoadELF`, `LoadProgramHeader` | `ELFLoader` |
| LAPIC timer driver | `APIC.cpp` | the LVT timer and count registers, `lapicTimerBaseFrequency` | `ActivateLAPIC`, `SetLAPICTimerMode`, `SetLAPICTimerMask`, `SetLAPICTimerFrequency`, `CalibrateLAPICTimer` | `APIC` |
| DeviceFS | `DeviceFS.cpp` (with the `/dev/tty` opens of `Scheduler::CreateTaskFromELF`) | its root and device vnodes, the device registry; the newer VFS's vnode cache, mount table and descriptor tables (not under `src/`) | the constructor, `FindInDirectory`, `Create`, `Truncate`, and `Read`/`Write` forwarding to the device through the vnode context | `DeviceFS` |
| Serial, Memory, String, Bitmap | | tables written once, byte loops, declarations | | not modelled |

### How the parts interact

Each core runs its own `Scheduler` object, but every core shares one run queue.
All scheduler entry points run inside interrupt handlers. These handlers are entered through interrupt gates (`IDT.cpp:344`, type `0b1110`), so each handler runs with interrupts off on its core.
A handler is therefore one atomic step of one core. Different cores interleave with each other.

A system call that must wait calls `SuspendSystemCall` and raises `int 0x81`. The same `SwitchToNextTask` then runs with `restoreFrame` set, so the waiting task is saved at the tail of the queue.
`Sleep` first pushes a timer entry on the core's list. When the timer fires, `UpdateTimerEntries` subtracts the elapsed time from every entry and unblocks the tasks whose entries have expired.
`ConfigureTimerClosestExpiry` then re-arms the one-shot LAPIC timer for the nearest entry. It never arms it more than 100 ms ahead.

The VFS resolves paths through `Ext2::GetDirectoryListing`. It also keeps each process's descriptor table.
At boot, `Ext2::Initialize` lists `/` and `/subdirectory-bravo` of the RAM disk, and `CreateTaskFromELF` loads `init` through `LoadELF`. `LoadELF` loads the `PT_INTERP` interpreter by a recursive call and builds the initial stack the task starts on.
`IDT.cpp` and `GDT.cpp` are the older interrupt generation: a gate table whose `ISRHandler` routes the keyboard, the LAPIC timer and `int 0x80`, and a `SystemCall` that runs one scripted step of VFS calls per invocation.
`APIC.cpp` is an older LAPIC driver. Its timer calibration against the PIT produces the base frequency from which reload values are computed. The scheduler itself arms its timer through a `LAPIC` class that is not under `src/`.

## 2. Modules

### `Scheduler.tla` (with `MC_Scheduler.tla`)

**Constants:**
- `Cores`: the cores.
- `InitTasks`: the number of boot tasks pushed by `CreateTaskFromELF`.
- `MaxPid`: bounds `Fork`.
- `TimerCap`: the 100 ms cap, scaled down.
- `SleepTimes`: the durations `Sleep` may be called with.
- `LapicReadCeil`: whether `GetTimeRemainingMilliseconds` rounds up. That function is not under `src/`.
- `CrossCoreWake`: whether the interrupt that calls `Unsuspend` (the keyboard IRQ of spec scenario 5) may be handled on a core other than the waiter's. The callers of `Unsuspend` are not under `src/`.

**Variables:**
- `taskQueue`, `currentTask`, `restoreFrame`, `timerEntries`, `timerTime` (`currentTimerTime`) and `nextPid` mirror the code.
- `elapsed` is the LAPIC countdown: the number of whole ms since the core's timer was armed.
- `panicked` records a failed `Assert` or a call to `Panic()`.
- `up[c]`: core `c` has built its `Scheduler` and armed its timer.
- `live` is ghost state.
- A task is the record `[pid, state, kstack, inSys, wake, left]`:
  - `kstack` names the system-call stack its `syscallStackAddr` points at.
  - `inSys`, `wake` and `left` are ghost fields. They record whether the task is suspended in a system call, what it waits for, and how many ms of its sleep remain.

**Actions:**
- `StartCores(c)` on the bootstrap core, then `InitializeCore(c)` on each application core (`Scheduler.cpp:184-234`). Both are `CoreUp(c)`: the core's constructor sets `currentTask` to the idle task, `ConfigureTimerClosestExpiry` arms the timer, and `sti` lets interrupts in. The boot tasks are already queued, so the bootstrap core may schedule, fork and sleep before the other cores are up.
- `Tick`: one ms of real time passes on every core that is up.
- `LAPICTimerInterrupt(c)`.
- `SleepCurrentTask(c, ms)`: the `Sleep` system call. It covers `SleepCurrentTask`, then `SuspendSystemCall(Blocked)`, then `int 0x81`.
- `SuspendSystemCall(c, st)`: a system call waiting for an event. It checks the task is `Normal` and sets its state (`Scheduler.cpp:151-152`); the task is still only `currentTask` of `c`.
- `SuspendInterrupt(c)`: the `int 0x81` that follows (`InterruptHandlers.cpp:73`). `SwitchToNextTask` saves the waiting task at the tail of the queue. Until it runs, core `c` has interrupts off: no system call, timer interrupt or `Tick` intervenes on it.
- `ForkCurrentTask(c)` and `ExitCurrentTask(c)`.
- `CreateTaskFromELF(c)`: the spec's `exec_elf` system call (`Scheduler.cpp:276-297`). A new task, with the next PID and its own system-call stack, is pushed on the queue under `taskQueueLock`, and the caller continues. The boot tasks in `Init` are made by the same function. Its `LoadELF` and its three `/dev/tty` opens are modelled in `ELFLoader` and `DeviceFS`.
- `Unsuspend(p)`: the device or child event that wakes a waiter (a task that called `SuspendSystemCall` and was not woken). Under `taskQueueLock`, `GetTask` either finds it in the queue, and it becomes `Normal`, or panics. On the waiter's own core the event can only come after the switch. With `CrossCoreWake`, another core may handle it in the window before.

Each action is the whole handler. `SwitchToNextTask(c, cur, save, delta, entries)` contains `UpdateTimerEntries` (with its `Assert` and `GetTask` panics), the requeue, the break-less selection loop `Select`, the idle fallback, and `ConfigureTimerClosestExpiry`.

**Assumption:** `Scheduler.h` is not under `src/`. The model takes the initial value of `restoreFrame` to be `false`, because the constructor starts with the idle task.

### `VFS.tla` (with `MC_VFS.tla`)

**Variables:**
- `entries`: the directory entries of each inode.
- `isDir`, `size`, `allocated` (the inode bitmap) and `fds` (the descriptor table).
- Ghost state: `handed` (descriptors returned and not closed) and `lastCall`.

**Actions:** `Open(path, flags)`, `Close(d)`, `Read(d, n)`, `Write(d, n)` and `Seek(d, off, type)`. `Seek` is `RepositionOffset`.

`Open` models the whole function:
1. the traversal (a missing intermediate token is a KAssert);
2. the break-less slot loop;
3. `Create` into the traversed node;
4. `Truncate` and `Append` applied to the traversed inode, not the created one.

File contents are abstracted to sizes. `FreeInode` (the first free inode bit) and `ReadCount` (a read stops at the end of the file) are modelled from the spec, because `Ext2Inode` is not under `src/`.

### `ELFLoader.tla` (with `MC_ELFLoader.tla`)

**Variables:**
- `frames`: the stack of `LoadELF` activations `[file, i, pos, dyn, phdrAddr]`. Recursion into the interpreter pushes a frame.
- `seg`: the `LoadProgramHeader` call in progress.
- `pt`, `phys` and `nextFrame`: the page table, the frames' bytes and the frame allocator.
- `entry`, `ustack` and `stackPtr`: the results.
- Ghost state: `loaded` (the segments finished) and `overrun` (a write past the end of a frame).

**Actions:**
- `LoadSegment`, `OtherHeader` and `LoadInterpreter`: one program header each.
- `LoadPage`: one iteration of the page loop. It takes a frame, maps it, zeroes it and copies `readCount` bytes at the page offset of the segment's address.
- `FinishELF`: the entry point, the two stack pages, and the pushed argc/argv/envp/auxv words.

A byte is the file byte it holds, a zero or junk. Pages are 4 bytes instead of 0x1000, and `RTDL_ADDR` is a multiple of a page. The stack keeps its 8-byte words and the residue of `USER_STACK_BASE` modulo 16. `FileRead` is modelled from the spec, because the VFS file object is not under `src/`.

### `Ext2.tla` (with `MC_Ext2.tla`)

**Variables:**
- `vol`: the RAM disk, a superblock `[inodes, blocks, bpg, ipg]` and, per directory inode, its on-disk entries `[inode, entrySize, nameLen, name]`.
- `phase`, `cur`, `parsed` and `listing`: where `Initialize` is, the directory being listed, `parsedLength`, and the `vNodes` pushed.
- `subDir`, and the ghost `fetched`: every inode number passed to `GetInode`.

**Actions:**
- `ParseEntry`: one iteration of the `GetDirectoryListing` loop. A read at an offset where no entry starts returns `Garbage`: a free slot whose `entrySize` is 0 or 8.
- `ListSubdirectory` and `ReadBar`: the two lookups of `Initialize` and their `GetInode` calls.

`Init` is the superblock checks and the geometry. A failed `KAssert` halts. `GetInode` is its block-group index in uint32 arithmetic, taken modulo `2^Width`.

### `APIC.tla`

**Variables:**
- The LVT timer register `lvt` (vector, mask bit 16, mode bits 17-18), the initial and current counts, and `lapicTimerBaseFrequency` (`base`).
- The PIT counter `pit`, `initialPITTick`, and the hardware ratio of LAPIC ticks per PIT tick.
- Ghost state: `pitTicks` (the PIT ticks that really elapsed), `calibrated` and `armed`.

**Actions:**
- `ActivateLAPIC`, `SetLAPICTimerMode(m)`, `SetLAPICTimerMask(b)` and `SetLAPICTimerFrequency(f)`.
- `CalibrateStart`, then `HwTick` (the counters run), then `CalibrateEnd`: together, `CalibrateLAPICTimer`.

`&` and `|` come from the community module `Bitwise`. The subtraction of the two `uint16` PIT readings is done in `int`. A negative difference, converted to `uint64`, yields the quotient 0, and a zero difference is a divide error. The PIT driver is not under `src/`, so the constant `PitRestarts` says whether `PITSetReloadValue` restarts the count.

### `IDT.tla` (with `MC_IDT.tla`)

**Variables:**
- `gdt` (each entry its `typeAttributes` byte; base and limit do not matter in long mode) and `idt` (each gate as `[attr, sel, ist, off0, off1, off2]`).
- `count` (`initializedInterruptHandlersCount`), `loaded` (`lidt` done).
- `SystemCall`'s statics `step` and `desc0`; `cur`, the descriptor the running step opened; `todo`, the calls of the running step still to make.
- `halted`: `"no"`, or how the core stopped (`hang` in `cli; hlt`, `panic`, triple-fault `shutdown`, or `wild` when a gate points at no wrapper).
- Ghosts: `entered` (the last interrupt and the vector `ISRHandler` got) and `got` (bytes the last `Read` of each step returned).
- The `VFS` variables, through `V == INSTANCE VFS`.

**Definitions and actions:**
- `Gate(h, ring, ist)` is `SetInterruptHandler`: the address split over the three offset fields, selector `0b101000`, attributes `0b10001110 | ring << 5`. `Target` reassembles the address the CPU jumps to; `WrapperAt` names the vector `ISRWrapperN` pushes.
- `Registered` is the list of `InitializeInterruptHandlers` calls, with the IST indexes of NMI, #DB, #DF and #MC and ring 3 for `0x80`.
- `InitializeIDT` and `LoadIDT` are the two boot functions. `Init` chooses the GDT in use: the boot loader's (`BootGDT`) or `InitializeGDT`'s (`KernelGDT`, with `GdtFromKernel`).
- `Interrupt(e)` raises an event `[vec, soft, cpl]`. `Deliver` is the CPU's delivery through gate and GDT (`DeliveryFault`: gate not present → #NP, `int n` from CPL > DPL → #GP, selector naming no code segment → #GP, segment not present → #NP; a fault delivering that → #DF; a fault delivering #DF → shutdown). `Dispatch` is `ISRHandler`'s switch.
- `Script` is `SystemCall`'s `switch (step)`: open `bar.txt`; read and close it; append to `foo.txt`, rewind, read, close; create `.mock`, write, rewind, read, close; open `.mock`, read, close. `CallOpen`, `CallRead`, `CallWrite`, `CallSeekSet` and `CallClose` make the head call through the `VFS` action, and `Done` advances `step` after the last one.

`SystemCall` runs with interrupts off (an interrupt gate), so between its calls only a CPU exception or an NMI can come; `Interrupt` allows exactly those while `todo` is not empty.

### `DeviceFS.tla` (with `MC_DeviceFS.tla`)

DeviceFS belongs to the newer kernel generation, whose `VFS` class (vnode cache, mount table, traversal, descriptor tables) and Ext2 backend are not under `src/`. Those parts follow spec sections 3 and 4.3 and are marked spec-modelled in the map. DeviceFS itself and the opens in `CreateTaskFromELF` are translated from the code.

**Variables:**
- `vnodes`: every vnode object built, as `[fs, ino, type, ctx]`; an object is its index. `ctx` is the vnode's `context`: the device for the tty vnode, unset (`Null`) for all others.
- `cached`: the objects `SearchInCache` can return.
- `mounts`: DeviceFS's root mounted on the Ext2 vnode of `/dev`.
- `devices`: DeviceFS's registry (`tty`).
- `dirents` and `types`: the Ext2 volume.
- `fds`: each task's descriptor table of `[present, obj, path]`, where `path` is ghost state.
- `created` and `panicked`.
- `lastIO`: the file or device (`[path, fs, ino]`) the last `Read` or `Write` reached. It is a history variable.

**Definitions and actions:**
- `Init` is boot: the Ext2 root and `/dev` are cached, and the DeviceFS constructor caches its root and the tty vnode. Their inode numbers come from `currentInodeNum++`, starting at 1.
- `DevFind` is `DeviceFS::FindInDirectory`: `Assert(directory == fileSystemRoot)`, the device by name, and `SearchInCache` with its `Assert`.
- `FsCreate` is the parent filesystem's `create`; `DeviceFS::Create` Panics.
- `FsTruncate` is the filesystem's `truncate`; `DeviceFS::Truncate` Panics. `Truncates` is the spec's rule: `Open` truncates only a regular file.
- `FsIO(t, i)`, used by `Read` and `Write`, hands the descriptor's vnode to its filesystem. `DeviceFS::Read` and `Write` call the device held in `vnode->context`, and calling through an unset context faults. `ExceptionHandler` turns that fault into a Panic.
- `Walk` (recursive) is the spec's traversal, crossing mounts with `Crossed`. `OpenIn` is `Open`: lowest free slot, else append.
- `CreateTaskFromELF(t)` makes three `Open("/dev/tty")` calls on a fresh table and asserts each descriptor number. `Open(t, op)` and `Close(t, i)` are a task's system calls.

Sizes, offsets and data are not modelled, nor is the pseudoterminal behind the tty (it is not under `src/`). A `Read` or `Write` records only which file or device it reached. A closed slot is cleared, because its vnode reference is never read again.

## 3. Runs

| Run | Expect | What it shows |
|---|---|---|
| `sched_safety` | pass | 2 cores, 2 boot tasks, one fork, sleeps and event waits. Checks `TaskAtMostOnce` (no task is held twice, and the idle task is never enqueued) and `TimerEntriesTargetSleepers` (every timer entry names exactly one sleeping task in the queue). |
| `sched_liveness` | pass | 2 cores, 2 tasks, no fork, fair timers. Checks `SleeperWakes`: a task that sleeps 3 ms, longer than one 2 ms timer period, is eventually woken by its timer entry and runs. |
| `sched_task_lost` | violation | `NoTaskLost`: with 3 tasks queued, the selection loop loses one. |
| `sched_kstack_shared` | violation | `KernelStackExclusive`: a forked child uses its parent's system-call stack. |
| `sched_sleep_early` | violation | `SleepNotEarly`: a `Sleep` entry pushed after the LAPIC was armed is charged the time that passed before it, so the sleeper is made `Normal` early. |
| `sched_lost_wakeup` | violation | `NoPanic`: with `CrossCoreWake`, an `Unsuspend` on the other core between `SuspendSystemCall` and its `int 0x81` does not find the waiter in the queue, and `GetTask` panics. |
| `vfs_safety` | pass | every sequence of calls over a 4-inode volume with 2 descriptor slots: `OpenedFileIsNamed` (an `Open` that found its final token or created it returns a descriptor on the inode the path names afterwards; creating only when the token is missing, line 134, and taking the created vnode, lines 132-146, are what make it hold). |
| `elf_load` | pass | `init`, static or with the `ld` interpreter, over page-aligned data segments with and without bss. Checks `SegmentsLoaded` (every byte of every loaded segment reads back as the file byte or zero the ELF image says), `EntryPoint` (the interpreter's entry, biased, for a dynamic executable) and `AuxvDescribesImage` (`AT_PHDR`, `AT_PHENT`, `AT_PHNUM` and `AT_ENTRY` describe the executable). |
| `ext2_init` | pass | volumes of two or three block groups, or a superblock that fails the `KAssert`, with free slots and padded entries. Checks `ListingMatches` (a finished listing is exactly the in-use entries in disk order), `InodeInTable` (`GetInode` never indexes past the block-group table) and `ListingTerminates`. |
| `idt_script` | pass | the boot loader's GDT, the gate table `InitializeIDT` builds, and the timer, keyboard, `int3`, `int 48`, NMI, page faults and `int 0x80` from rings 0 and 3. Checks `GatesDeliver` (every interrupt enters `ISRHandler` with its own vector, #GP for `int n` to a ring-0 gate, #NP for a vector without a gate) and `ScriptReadsBack` (steps 3 and 4 of `SystemCall` read back the whole file step 3 created). |
| `devfs_opens` | pass | two tasks created by `CreateTaskFromELF`, then opens of `/dev/tty` and `/a.txt` (both with Truncate), `/dev/null` (missing) and `/b.txt` (created), closes, reads and writes. Checks `VnodeIdentity` (one cached vnode per filesystem and inode, and every open descriptor holds a cached one) and `OpensResolve` (every open descriptor holds the file its path names, `/dev/...` answered by DeviceFS across the mount, and the last `Read`/`Write` reached that file or device). Every open it makes is one the code serves without a Panic; the opens that do Panic are the counterexamples below. |
| `apic_calibration` | pass | checks `CalibrationSound` (the base frequency is the LAPIC tick count over the PIT ticks that really elapsed, times the PIT frequency, and is non-zero) and `ReloadNearest` (the reload value is the nearest integer to base / frequency). The PIT count restarts at the reload value, and the measurement spans less than one PIT period. |

### Further counterexamples

The project keeps at most 12 runs. The configurations below are on disk, and each reproduces a code bug that TLC finds:

| Config (module) | Property violated | What the code does |
|---|---|---|
| `vfs_create_in_file.cfg` (`MC_VFS`) | `EntriesOnlyInDirectories` | `Create` through a regular file writes a directory entry into it (`VFS.cpp:30`). |
| `elf_bss_garbage.cfg` (`MC_ELFLoader`) | `SegmentsLoaded` | a page past the end of the file part still gets file bytes, so bss holds bytes of the file (`ELFLoader.cpp:162`). `elf_load` checks the same property on images without that page layout. |
| `vfs_append_new_file.cfg` (`MC_VFS`) | `AppendOpensAtEnd` | `Create|Append` seeks to the size of the parent directory (`VFS.cpp:146`) |
| `vfs_open_missing.cfg` (`MC_VFS`) | `OpenNamesExistingFile` | opening a missing file without `Create` opens its directory (`VFS.cpp:130`) |
| `vfs_seek_grows.cfg` (`MC_VFS`) | `SeekKeepsSize` | a seek past the end grows the file (`VFS.cpp:74`) |
| `vfs_closed_read.cfg` (`MC_VFS`) | `ClosedDescriptorsInert` | `Read`, `Write` and `RepositionOffset` use a closed descriptor (`VFS.cpp:155`). The spec requires `NoSuchDescriptor`. |
| `elf_misaligned.cfg` (`MC_ELFLoader`) | `NoFrameOverrun` | a segment at a non-page-aligned address writes past the end of its frame (`ELFLoader.cpp:157`). Its last page is never mapped, because the page count ignores the in-page offset (`:137`). |
| `elf_stack_misaligned.cfg` (`MC_ELFLoader`) | `StackAligned` | the 13 words pushed for argc/argv/envp/auxv leave the stack pointer at 8 mod 16 (`ELFLoader.cpp:125`). |
| `ext2_missing_subdir.cfg` (`MC_Ext2`) | `InodeInTable` | without `subdirectory-bravo`, `Initialize` calls `GetInode(0)`, and `(0 - 1) / inodesPerBlockGroup` wraps (`Ext2.cpp:205`). |
| `ext2_zero_entry.cfg` (`MC_Ext2`) | `ListingTerminates` | an entry with `entrySize` 0 makes `GetDirectoryListing` loop forever (`Ext2.cpp:138`). |
| `sched_sleep_panic.cfg` (`MC_Scheduler`) | `NoPanic` | if `Sleep(ms)` is called with `ms` ≤ the time since the timer was armed, the entry expires before the sleeper is queued, and `GetTask` panics (`Scheduler.cpp:137`). |
| `idt_kernel_gdt.cfg` (`MC_IDT`) | `GatesDeliver` | with `InitializeGDT`'s table loaded, every gate's selector `0x28` names GDT entry 5, which `InitializeGDT` leaves zero: the first interrupt faults, its #GP faults, and the #DF shuts the core down (`IDT.cpp:338`, `GDT.cpp:21`). |
| `idt_spurious.cfg` (`MC_IDT`) | `OnlyFaultsHang` (only a CPU exception stops the core) | the LAPIC spurious vector 0xff has a gate, but `ISRHandler` has no case for it: the default case hangs the core (`IDT.cpp:252`). |
| `vfs_descriptor_leak.cfg` (`MC_VFS`) | `DescriptorsHandedOut` | `Open` marks every free slot present and returns only the last (`VFS.cpp:115`). |
| `devfs_panic.cfg` (`MC_DeviceFS`) | `NoPanic` | `Open("/dev/tty/x")`: the traversal asks DeviceFS to look `x` up in the tty vnode, and `FindInDirectory`'s `Assert(directory == fileSystemRoot)` halts the kernel (`DeviceFS.cpp:45`). |
| `devfs_dir_read.cfg` (`MC_DeviceFS`) | `NoPanic` | `Open("/dev")` and then `Read`: the descriptor holds DeviceFS's root vnode, whose `context` was never set, and `DeviceFS::Read` calls through it (`DeviceFS.cpp:29`). |
| `devfs_create_dev.cfg` (`MC_DeviceFS`) | `NoPanic` | `Open("/dev/x", Create)`: `/dev/x` is missing, so the spec's `Open` asks the parent's filesystem to create it, and `DeviceFS::Create` Panics (`DeviceFS.cpp:66`). |
| `apic_pit_phase.cfg` (`APIC`) | `CalibrationSound` | if the PIT keeps its phase, it wraps during calibration. The difference of the two readings is then negative, and the base frequency is 0 (`APIC.cpp:92`). |

### Bounds

**Scheduler:**
- `TimerCap = 2` and `SleepTimes = {3}` make a sleep span more than one timer period. Entries are therefore both decremented and expired, and the sleep is never shorter than the time already elapsed. `{1,2}` is used only by the panic run.
- Two cores are enough for one core to run a task while the other switches on the shared queue.
- The safety run has at most 3 tasks.
- `sched_liveness` has two tasks on two cores and no fork. No liveness property about Normal tasks being chosen is checked: with 3 queue entries the selection loop loses a task for good (`sched_task_lost`), so such a property fails, and with 2 tasks on 2 cores a queued task always finds an idle core, so it would show nothing. For the same reason the project has no refinement of an abstract round-robin queue: the code does not implement one. `sched_safety` reaches 3 tasks through a fork, so it includes the lossy selection loop. `TaskAtMostOnce` still holds there, because the loop drops tasks but never duplicates them.
- Core symmetry is sound: the cores are interchangeable model values.
- Every run except `sched_lost_wakeup` sets `CrossCoreWake = FALSE`: each event is handled on the waiter's core. This is the one setting under which `Unsuspend` cannot panic. The other runs check what the scheduler guarantees under it.

**VFS:**
- The volume is `/a` (a directory) and `/a/b` (a file).
- The paths are `/a/b` (exists), `/a/c` (can be created) and `/c` (in the root).
- Two descriptor slots are enough for open/close cycles that leave two slots free.

**ELF:**
- Pages are 4 bytes, and the virtual address space is 8 pages. That allows a text page, two data pages, and two interpreter pages at `RtdlAddr = 16`.
- The data segments, `(filesz, memsz)` ∈ {(3,3), (4,8), (6,8), (8,8)}, cover a file part smaller than a page, exactly one page, one and a half pages, and two pages, with and without bss.
- Twelve frames are enough for every mapping, plus the two stack pages.

**Ext2:**
- The root holds `.`, `..`, an optional free slot, `subdirectory-bravo` and a last entry padded to 20, 40 or 64 bytes. The subdirectory holds an optional free slot and `bar.txt`, whose inode is 13 or 16 (16 is the last inode of group 1).
- `Width = 8` keeps the wrap of `inodeNum - 1` visible: 255 / 8 is far past two groups.

**APIC:**
- The PIT period is 15 ticks, and the calibration count is 12 LAPIC ticks.
- With 1 to 4 LAPIC ticks per PIT tick, the count spans 3 to 12 PIT ticks, and every starting phase of the first PIT tick is explored.
- With `PitBaseFreq = 3`, the base frequencies 3 to 12 and the frequencies {2, 4, 5} give remainders below, at and above half.

**IDT:**
- Offset fields of 2, 2 and 4 bits stand for 16, 16 and 32. The wrapper addresses `255 - v` use all three fields, so a field computed from the wrong shift gives a wrong target.
- The events are the timer and keyboard at CPL 0 and 3, `int 3`, `int 48` and `int 0x80` from ring 3, NMI and page faults. Together they reach every case of `ISRHandler` except the spurious vector, and every `DeliveryFault` outcome that the boot GDT allows.
- The volume is the one `Ext2::Initialize` lists (`/subdirectory-bravo/bar.txt`) plus `/foo.txt`. String lengths are scaled to 2, 3 and 4 bytes, and `MaxSize = 8` leaves room for every write.

**DeviceFS:**
- Two tasks are enough for two descriptor tables to share the tty vnode. Symmetry over the tasks is sound, because they are interchangeable model values.
- `MaxFds = 4` is the three standard descriptors plus one more, so slots are closed, reused and appended.
- DeviceFS inodes 1 and 2 overlap Ext2's root (2). A cache keyed by the inode alone would confuse them, and the real numbers overlap on any volume too.
- The opens include a missing device and a file created in the Ext2 root. Paths that continue past the tty are left to `devfs_panic.cfg`. Opening `/dev` itself is left to `devfs_dir_read.cfg`, because reading that descriptor halts the kernel.

### Fairness

`Tick` is weakly fair: time passes.
Each `LAPICTimerInterrupt(c)` is weakly fair, because an expired one-shot timer interrupts its core. `ConfigureTimerClosestExpiry` always arms the timer, for at most 100 ms.
Each `SuspendInterrupt(c)` is weakly fair, because `int 0x81` is the instruction after the state change in `SuspendSystemCall`.
System calls and device events get no fairness, because tasks and devices choose them.
`Ext2` is weakly fair: `Initialize` runs on the boot core until it returns. `StartCores` and each `InitializeCore` are weakly fair: boot runs to its end on every core.
`ELFLoader`, `APIC` and `IDT` check only safety. The `ELFLoader` and `APIC` runs do not check deadlock, because the loader or the calibration finishes. `idt_script` does not check deadlock either, because an interrupt may hang or shut down the core for good.

## 4. Findings

See `findings` in `PROJECT.json`. In short:

**Scheduler.cpp:**
- The selection loop has no `break` (line 75).
- A forked child shares its parent's syscall stack (line 267).
- `UpdateTimerEntries` runs before the sleeper is queued, which can panic (line 137).
- New entries are charged stale time (line 127).
- An `Unsuspend` on another core in the window before `int 0x81` panics in `GetTask` (line 176). The spec says cross-CPU `unsuspend` is protected by the run-queue lock, but the lock does not cover the window.

**VFS.cpp:**
- The slot loop leaks descriptors (line 115).
- `Append` after `Create` uses the parent inode (line 146).
- `Open` of a missing file without `Create` succeeds on the parent (line 130).
- A seek grows the file (line 74).
- Traversal goes through regular files (line 30).

**ELFLoader.cpp:**
- bss pages get file bytes (line 162).
- A misaligned segment overruns its frame (line 157).
- The initial stack is misaligned (line 125).

**Ext2.cpp:** `GetInode(0)` wraps (line 205), and an `entrySize` of 0 loops forever (line 138).

**IDT.cpp / GDT.cpp:**
- `SetInterruptHandler` uses selector `0x28` (entry 5). `InitializeGDT` puts the kernel code segment in entry 1 and leaves entry 5 zero. Once that GDT is loaded, every interrupt triple-faults (`IDT.cpp:338`). `InitializeGDT` is not called in this generation's boot path, so only the boot loader's GDT (entry 5 is its 64-bit code) is in use.
- The spurious vector 0xff falls to `ISRHandler`'s default case and hangs the core (line 252).

**DeviceFS.cpp:** a path that continues past a device (`/dev/tty/x`) reaches `FindInDirectory` with the device's vnode, and its `Assert` halts the kernel (line 45). The spec's traversal has no check that a component is a directory, so any user can trigger this.

**DeviceFS.cpp (Read/Write):** `Open("/dev")` succeeds and returns DeviceFS's root vnode, whose `context` is never set. A `Read` or `Write` on that descriptor makes `DeviceFS::Read`/`Write` call a device through it (lines 29 and 37). The spec's VFS does not check the vnode type before delegating.

**APIC.cpp:** the calibration assumes the PIT does not wrap (line 92).

**VFS.cpp:** calls on a closed descriptor succeed (line 155). The spec requires `NoSuchDescriptor`.

**Spec divergences that no run shows:**
- The spec describes per-CPU run queues. The code has one global queue.
- The spec describes a Zombie state. `ExitCurrentTask` just drops the task.

## 5. Not modelled, and the plan

Planned:
1. **Composition:** the two interrupt generations are separate modules, and nothing under `src/` runs both.
2. **Composition:** the ELF loader's stack and entry feeding the scheduler's `CreateTaskFromELF`, and `Ext2` listings feeding `VFS` lookups from one volume.

Not modelled:
- **The pseudoterminal and file data:** the device behind `/dev/tty` is not under `src/`. Offsets and sizes would multiply the DeviceFS state space, and no property there is about bytes.
- **Ext2 inode I/O:** `Ext2Inode::Read`, `Write`, `Create` and `Truncate` are not under `src/`. `VFS` models them from the spec.
- **Serial output and the memory helpers:** port I/O and byte loops, with no control to check. `GDT.cpp` and `IDT.cpp` are modelled in `IDT`; the `ISRWrapperN` assembly stubs are abstracted to the vector each pushes. `LAPICSendEOI` writes a constant.
- **`SystemCall()` dispatch:** it is not under `src/`.
