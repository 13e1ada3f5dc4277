-------------------------------- MODULE IDT --------------------------------
(***************************************************************************)
(* Interrupt entry of the older kernel generation: src/kernel/src/IDT.cpp  *)
(* (the gate table, ISRHandler and its handlers, the step-scripted         *)
(* SystemCall test) with the GDT of src/kernel/src/GDT.cpp, on one core.   *)
(*                                                                         *)
(* The CPU side is x86-64 interrupt delivery as far as these tables decide *)
(* it: the gate must be present, a software interrupt needs CPL <= DPL,    *)
(* and the gate's selector must name a present code segment; a fault      *)
(* during delivery is delivered in turn, a second one becomes a double     *)
(* fault (vector 8) and a fault delivering that shuts the core down.       *)
(*                                                                         *)
(* A gate is [attr, sel, ist, off0, off1, off2]; the handler address is    *)
(* split into fields of OffW[1], OffW[2], OffW[3] bits, which stand for    *)
(* the 16, 16 and 32 bits of the real descriptor.  A GDT entry is its      *)
(* typeAttributes byte: base and limit are ignored in long mode.           *)
(*                                                                         *)
(* SystemCall runs its step's VFS calls one after another with interrupts *)
(* off: the calls are the VFS actions, instanced from VFS.                 *)
(***************************************************************************)
EXTENDS Naturals, Integers, Sequences, FiniteSets, TLC

CONSTANTS
    GdtFromKernel,  \* TRUE: InitializeGDT's table replaced the boot loader's
    BootGDT,        \* the boot loader's GDT: entry index -> typeAttributes
    OffW,           \* widths of the three offset fields of a gate
    Wrapper,        \* address of ISRWrapperN, for each vector N with a wrapper
    Events,         \* interrupts that may be raised: [vec, soft, cpl]
    AppendLen,      \* length of "New content!\n", written by step 2
    MockLen,        \* length of the .mock text, written by step 3
    BufLen,         \* the 99 bytes each Read of the script asks for
    \* constants of the instanced VFS
    Inodes, RootIno, InitEntries, InitDirs, InitSizes, MaxFds, MaxSize

VARIABLES
    gdt,            \* the GDT in use: index -> typeAttributes
    idt,            \* idt.entries: vector -> gate
    count,          \* initializedInterruptHandlersCount
    loaded,         \* LoadIDT has executed lidt
    step,           \* SystemCall's static step
    desc0,          \* SystemCall's static desc0
    cur,            \* the descriptor the running step opened
    todo,           \* calls of the running SystemCall step still to make
    halted,         \* "no", or how the core stopped
    entered,        \* ghost: the last interrupt raised and what Deliver gave
    got,            \* ghost: bytes the last Read of each step returned
    entries, isDir, size, allocated, fds, handed, lastCall, panicked

V == INSTANCE VFS WITH Paths <- {}, Counts <- {}, Offsets <- {}

vfsVars == <<entries, isDir, size, allocated, fds, handed, lastCall, panicked>>
vars == <<gdt, idt, count, loaded, step, desc0, cur, todo, halted, entered, got,
          vfsVars>>

Vectors == 0..255
NoEntry == [e |-> [vec |-> 0, soft |-> FALSE, cpl |-> 0], h |-> 0]
Steps == 0..4

-----------------------------------------------------------------------------
(* Descriptor encodings.                                                   *)

Bit(x, i) == (x \div 2 ^ i) % 2
Present(attr) == Bit(attr, 7) = 1
Dpl(attr) == (attr \div 32) % 4
\* A code segment: S (bit 4) and executable (bit 3) set.
IsCode(attr) == Bit(attr, 4) = 1 /\ Bit(attr, 3) = 1

ZeroGate == [attr |-> 0, sel |-> 0, ist |-> 0, off0 |-> 0, off1 |-> 0, off2 |-> 0]

\* Mutant: the top field takes the address shifted by the low field only.
GateOffset2Short(h) == (h \div 2 ^ OffW[1]) % 2 ^ OffW[3]

\* offset2 = handler >> 32, truncated to its field.
GateOffset2(h) == (h \div 2 ^ (OffW[1] + OffW[2])) % 2 ^ OffW[3]

\* IDT::SetInterruptHandler: the address split over the three offset
\* fields, selector 0b101000 (GDT entry 5), the IST index, and type
\* attributes 0b10001110 (present, 64-bit interrupt gate) | ring << 5.
Gate(h, ring, ist) ==
    [attr |-> 142 + ring * 32, sel |-> 40, ist |-> ist,
     off0 |-> h % 2 ^ OffW[1],
     off1 |-> (h \div 2 ^ OffW[1]) % 2 ^ OffW[2],
     off2 |-> GateOffset2(h)]

\* The address the CPU jumps to: offset0 | offset1 << 16 | offset2 << 32.
Target(g) == g.off0 + g.off1 * 2 ^ OffW[1] + g.off2 * 2 ^ (OffW[1] + OffW[2])

\* The vector ISRWrapperN pushes before calling ISRHandler; -2 when the
\* address is no wrapper's (the core runs whatever is there).
WrapperAt(a) == IF \E v \in DOMAIN Wrapper : Wrapper[v] = a
                THEN CHOOSE v \in DOMAIN Wrapper : Wrapper[v] = a ELSE -2

\* InitializeInterruptHandlers: <<vector, ring, ist>> of every call.
IstOf == (1 :> 4) @@ (2 :> 2) @@ (8 :> 1) @@ (18 :> 3)
Registered ==
    {<<v, 0, IF v \in DOMAIN IstOf THEN IstOf[v] ELSE 0>> :
        v \in (0..14) \cup (16..21) \cup (28..30) \cup (32..48) \cup {255}}
    \cup {<<128, 3, 0>>}

\* InitializeGDT: kernel code/data (entries 1, 2), user code/data (3, 4);
\* entry 6 is overwritten with 0x098234 >> 32 = 0; the rest stay zero.
KernelGDT ==
    [i \in 0..6 |-> CASE i = 1 -> 154 [] i = 2 -> 146
                      [] i = 3 -> 250 [] i = 4 -> 242 [] OTHER -> 0]

-----------------------------------------------------------------------------
(* SystemCall: the VFS calls of each step, in order.  A call is            *)
(* [op, path, flags, d, n]; d says which descriptor it uses: the static    *)
(* desc0, or the one the step itself opened.                               *)

Call(op, path, flags, d, n) == [op |-> op, path |-> path, flags |-> flags, d |-> d, n |-> n]
Bravo == <<"subdirectory-bravo">>
Mock == Bravo \o <<".mock">>

\* Write, rewind with RepositionOffset(d, 0, SeekSet), Read, Close.
WriteBack(n) == << Call("Write", <<>>, {}, "cur", n), Call("Seek", <<>>, {}, "cur", 0),
                  Call("Read", <<>>, {}, "cur", BufLen), Call("Close", <<>>, {}, "cur", 0) >>

Script ==
    [s \in Steps |->
        CASE s = 0 -> << Call("Open", Bravo \o <<"bar.txt">>, {}, "desc0", 0) >>
          [] s = 1 -> << Call("Read", <<>>, {}, "desc0", BufLen),
                         Call("Close", <<>>, {}, "desc0", 0) >>
          [] s = 2 -> << Call("Open", <<"foo.txt">>, {"Append"}, "cur", 0) >> \o WriteBack(AppendLen)
          [] s = 3 -> << Call("Open", Mock, {"Create"}, "cur", 0) >> \o WriteBack(MockLen)
          [] s = 4 -> << Call("Open", Mock, {}, "cur", 0),
                         Call("Read", <<>>, {}, "cur", BufLen),
                         Call("Close", <<>>, {}, "cur", 0) >>]

-----------------------------------------------------------------------------
(* Delivery and dispatch.                                                  *)

\* The fault raised delivering vector v, 0 if none: #NP (11) for a gate
\* that is not present, #GP (13) for int n from CPL > DPL, #GP for a
\* selector that names no code segment, #NP for one not present.
DeliveryFault(v, soft, cpl) ==
    LET g == idt[v]
        seg == IF g.sel \div 8 \in DOMAIN gdt THEN gdt[g.sel \div 8] ELSE 0
    IN  CASE ~Present(g.attr)              -> 11
          [] soft /\ cpl > Dpl(g.attr)     -> 13
          [] g.sel = 0 \/ ~IsCode(seg)     -> 13
          [] ~Present(seg)                 -> 11
          [] OTHER                         -> 0

\* The vector ISRHandler is entered with, or -1 for a triple fault: a
\* fault while delivering an interrupt is delivered; a fault while
\* delivering that fault is a double fault; a fault on that shuts down.
RECURSIVE Deliver(_, _, _, _)
Deliver(v, soft, cpl, depth) ==
    LET f == DeliveryFault(v, soft, cpl)
    IN  IF f = 0 THEN WrapperAt(Target(idt[v]))
        ELSE IF depth = 2 THEN -1
        ELSE Deliver(IF depth = 0 THEN f ELSE 8, FALSE, 0, depth + 1)

-----------------------------------------------------------------------------
(* Actions.                                                                *)

\* InitializeIDT: InitializeInterruptHandlers makes one SetInterruptHandler
\* call per registered vector, each counted.
InitializeIDT ==
    /\ ~loaded /\ count = 0
    /\ idt' = [v \in Vectors |->
                 IF \E r \in Registered : r[1] = v
                 THEN LET r == CHOOSE r \in Registered : r[1] = v
                      IN  Gate(Wrapper[v], r[2], r[3])
                 ELSE idt[v]]
    /\ count' = Cardinality(Registered)
    /\ UNCHANGED <<gdt, loaded, step, desc0, cur, todo, halted, entered, got,
                   vfsVars>>

LoadIDT ==
    /\ ~loaded /\ count > 0
    /\ loaded' = TRUE
    /\ UNCHANGED <<gdt, idt, count, step, desc0, cur, todo, halted, entered,
                   got, vfsVars>>

\* ISRHandler on the vector the wrapper pushed.
Dispatch(h) ==
    CASE h = -1 -> "shutdown" [] h = -2 -> "wild" [] h \in {33, 48} -> "return"
      [] h = 128 /\ step \in Steps -> "syscall" [] h = 128 -> "panic"
      [] OTHER -> "hang"

\* An interrupt e is delivered and ISRHandler dispatches on the vector:
\* 48 LAPICTimerInterrupt and 33 KeyboardInterruptHandler send their EOI
\* and return; 0..31 ExceptionHandler and the default case hang with cli;
\* hlt; 0x80 SystemCall starts the calls of its step, or Panics past step 4.
\* Inside SystemCall (interrupts off, CPL 0) only an exception or the NMI
\* can come.
Interrupt(e) ==
    /\ loaded /\ halted = "no" /\ ~panicked
    /\ todo # <<>> => e.vec < 32 /\ ~e.soft /\ e.cpl = 0
    /\ LET h == Deliver(e.vec, e.soft, e.cpl, 0)
           o == Dispatch(h)
       IN  /\ entered' = [e |-> e, h |-> h]
           /\ halted' = IF o \in {"return", "syscall"} THEN "no" ELSE o
           /\ todo' = IF o = "syscall" THEN Script[step] ELSE todo
    /\ UNCHANGED <<gdt, idt, count, loaded, step, desc0, cur, got, vfsVars>>

\* The descriptor a script call names.
Desc(c) == IF c.d = "desc0" THEN desc0 ELSE cur

\* Mutant: step++ after every call instead of once per system call.
DoneEveryCall == /\ todo' = Tail(todo)
                 /\ step' = step + 1

\* The last call of a step ends SystemCall: step++.
Done == /\ todo' = Tail(todo)
        /\ step' = IF Tail(todo) = <<>> THEN step + 1 ELSE step

CallOpen ==
    /\ todo # <<>> /\ Head(todo).op = "Open" /\ halted = "no"
    /\ V!Open(Head(todo).path, Head(todo).flags)
    /\ cur' = V!DescriptorIndex
    /\ desc0' = IF Head(todo).d = "desc0" THEN V!DescriptorIndex ELSE desc0
    /\ Done
    /\ UNCHANGED <<gdt, idt, count, loaded, halted, entered, got>>

CallRead ==
    /\ todo # <<>> /\ Head(todo).op = "Read" /\ halted = "no"
    /\ V!Read(Desc(Head(todo)), Head(todo).n)
    /\ got' = [got EXCEPT ![step] = V!ReadCount(Desc(Head(todo)), Head(todo).n)]
    /\ Done
    /\ UNCHANGED <<gdt, idt, count, loaded, desc0, cur, halted, entered>>

CallWrite ==
    /\ todo # <<>> /\ Head(todo).op = "Write" /\ halted = "no"
    /\ V!Write(Desc(Head(todo)), Head(todo).n)
    /\ Done
    /\ UNCHANGED <<gdt, idt, count, loaded, desc0, cur, halted, entered, got>>

CallSeekSet ==
    /\ todo # <<>> /\ Head(todo).op = "Seek" /\ halted = "no"
    /\ V!Seek(Desc(Head(todo)), 0, "SeekSet")
    /\ Done
    /\ UNCHANGED <<gdt, idt, count, loaded, desc0, cur, halted, entered, got>>

CallClose ==
    /\ todo # <<>> /\ Head(todo).op = "Close" /\ halted = "no"
    /\ V!Close(Desc(Head(todo)))
    /\ Done
    /\ UNCHANGED <<gdt, idt, count, loaded, desc0, cur, halted, entered, got>>

\* Boot: the GDT in use is the boot loader's, or the one InitializeGDT
\* loaded with lgdt before the IDT is set up.
Init ==
    /\ gdt = IF GdtFromKernel THEN KernelGDT ELSE BootGDT
    /\ idt = [v \in Vectors |-> ZeroGate]
    /\ count = 0 /\ loaded = FALSE
    /\ step = 0 /\ desc0 = 0 /\ cur = 0 /\ todo = <<>>
    /\ halted = "no"
    /\ entered = NoEntry
    /\ got = [s \in Steps |-> 0]
    /\ V!Init

Next ==
    \/ InitializeIDT \/ LoadIDT
    \/ \E e \in Events : Interrupt(e)
    \/ CallOpen \/ CallRead \/ CallWrite \/ CallSeekSet \/ CallClose

Spec == Init /\ [][Next]_vars

-----------------------------------------------------------------------------
(* Properties.                                                             *)

TypeOK ==
    /\ gdt \in [0..6 -> 0..255]
    /\ idt \in [Vectors -> [attr : 0..255, sel : 0..255, ist : 0..7,
                            off0 : Nat, off1 : Nat, off2 : Nat]]
    /\ count \in Nat /\ loaded \in BOOLEAN
    /\ step \in 0..5 /\ halted \in {"no", "hang", "panic", "shutdown", "wild"}
    /\ todo \in Seq(UNION {{Script[s][i] : i \in DOMAIN Script[s]} : s \in Steps})
    /\ got \in [Steps -> 0..MaxSize]

\* Every interrupt enters ISRHandler with the vector the kernel meant: its
\* own, when InitializeInterruptHandlers registered it and (for int n) at
\* a ring the raiser may use; #GP (13) for int n to a gate of a more
\* privileged ring; #NP (11) for a vector without a gate.  This holds only
\* if SetInterruptHandler's offset fields reassemble the wrapper's address
\* and its selector names a present code segment of the GDT in use.
Intended(e) ==
    IF \E r \in Registered : r[1] = e.vec
    THEN IF \E r \in Registered : r[1] = e.vec /\ (~e.soft \/ e.cpl <= r[2])
         THEN e.vec ELSE 13
    ELSE 11

GatesDeliver == entered # NoEntry => entered.h = Intended(entered.e)

\* The core hangs only in ExceptionHandler, for a CPU exception: the
\* LAPIC timer, the keyboard and system calls up to the last scripted
\* step return to the interrupted code.
OnlyFaultsHang == halted = "hang" => entered.h \in 0..31

\* SystemCall step 3 creates /subdirectory-bravo/.mock, writes to it,
\* rewinds and reads it whole; step 4 opens it again and reads the same
\* bytes: Create, Write, RepositionOffset, Close and the reuse of the
\* closed descriptor slot by Open compose.
ScriptReadsBack ==
    step > 4 => got[3] = MockLen /\ got[4] = MockLen

=============================================================================
