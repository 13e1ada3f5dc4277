----------------------------- MODULE ELFLoader -----------------------------
(***************************************************************************)
(* The ELF loader of src/kernel/src/ELFLoader.cpp: LoadELF walks the       *)
(* program headers of an image, loads each PT_LOAD segment page by page   *)
(* (LoadProgramHeader), loads the PT_INTERP interpreter by a recursive     *)
(* LoadELF, and for an Executable builds the initial user stack.           *)
(*                                                                         *)
(* The recursion is a stack `frames` of LoadELF activations; each loop    *)
(* iteration of LoadProgramHeader is one step.  Addresses are scaled: a    *)
(* page is PageSize bytes instead of 0x1000, and RtdlAddr is a multiple    *)
(* of it as RTDL_ADDR is of 0x1000.  A byte of memory is the file byte it *)
(* holds, a zero, or junk.  The initial stack keeps its real word size and *)
(* UserStackBase its residue modulo 0x1000, which is all its alignment     *)
(* depends on.                                                             *)
(***************************************************************************)
EXTENDS Naturals, Sequences, FiniteSets

CONSTANTS
    PageSize,       \* 0x1000, scaled
    RtdlAddr,       \* RTDL_ADDR: load bias of Shared images, scaled
    UserStackBase,  \* USER_STACK_BASE (modulo 0x1000)
    Root,           \* the path CreateTaskFromELF passes
    Images,         \* candidate volumes: functions from paths to images
    VPages,         \* virtual page numbers the images' segments cover
    MaxFrames       \* physical frames available

ASSUME /\ PageSize \in Nat \ {0}
       /\ RtdlAddr % PageSize = 0
       /\ UserStackBase % 16 = 0

PhEnt == 56         \* sizeof(ProgramHeader), checked by an Assert
Junk == [src |-> "junk", at |-> 0]
Zero == [src |-> "zero", at |-> 0]
NoFrame == MaxFrames

VARIABLES
    image,          \* the volume: path -> [type, entry, size, phdrs]
    frames,         \* LoadELF activations: [file, i, pos, dyn, phdrAddr]
    seg,            \* LoadProgramHeader in progress, or <<>>
    pt,             \* page table: virtual page -> frame (NoFrame if unmapped)
    phys,           \* physical memory: frame -> offset -> byte
    nextFrame,      \* frames handed out by RequestPageFrame(s)
    entry,          \* the entry out-parameter
    ustack,         \* words of the initial stack from stackPtr upwards
    stackPtr,       \* the stackPtr out-parameter
    loaded,         \* ghost: PT_LOAD segments loaded so far [file, hdr]
    overrun         \* ghost: a read wrote past the end of its frame

vars == <<image, frames, seg, pt, phys, nextFrame, entry, ustack, stackPtr,
          loaded, overrun>>

Img(f) == image[f]
Top == frames[Len(frames)]

\* The byte at offset k of file f; VFS::Read stops at the end of the file.
FileByte(f, k) == [src |-> f, at |-> k]
FileRead(f, pos, count) ==
    IF pos >= Img(f).size THEN 0
    ELSE IF Img(f).size - pos < count THEN Img(f).size - pos ELSE count

\* Mutant: Shared objects are loaded at their own addresses.
BiasNone(f) == 0

\* Shared objects are loaded at RTDL_ADDR (line 142).
Bias(f) == IF Img(f).type = "Shared" THEN RtdlAddr ELSE 0

\* A LoadELF activation after VFS::Open and the reads of the ELF header and
\* of the program-header table that follows it (lines 17-39).
Activation(f) ==
    [file |-> f, i |-> 1, pos |-> 64 + PhEnt * Len(Img(f).phdrs),
     dyn |-> FALSE, phdrAddr |-> 0]

-----------------------------------------------------------------------------
(* LoadProgramHeader (lines 134-167).                                      *)

\* segmentPagesCount: pages covering segmentSizeInMemory, from the start
\* of the segment (the in-page offset of virtAddr is not counted).
PagesCount(h) == (h.msz - 1) \div PageSize + 1

\* Mutant: every page asks for a whole page.
ReadCountNoClamp(fileReadCount, h) == PageSize

\* readCount: a whole page, or segmentSizeInFile % 0x1000 when a whole
\* page would pass segmentSizeInFile.
ReadCount(fileReadCount, h) ==
    IF fileReadCount + PageSize > h.fsz THEN h.fsz % PageSize ELSE PageSize

\* One iteration: a fresh frame is mapped at the page of virtAddr, zeroed,
\* and the file is read into it from the in-page offset of baseAddr.
\* Bytes past the end of the frame are lost (they land in another frame).
LoadPage ==
    /\ seg # <<>>
    /\ LET h    == seg.hdr
           va   == seg.base + seg.pg * PageSize
           fr   == nextFrame
           off  == seg.base % PageSize
           n    == FileRead(seg.file, Top.pos, ReadCount(seg.read, h))
           byte(j) == IF j >= off /\ j < off + n
                      THEN FileByte(seg.file, Top.pos + j - off) ELSE Zero
           last == seg.pg + 1 = PagesCount(h)
       IN  /\ fr < MaxFrames
           /\ va \div PageSize \in VPages
           /\ nextFrame' = fr + 1
           /\ pt' = [pt EXCEPT ![va \div PageSize] = fr]
           /\ phys' = [phys EXCEPT ![fr] = [j \in 0..PageSize - 1 |-> byte(j)]]
           /\ overrun' = (overrun \/ off + n > PageSize)
           /\ frames' = [frames EXCEPT ![Len(frames)].pos = @ + n,
                                       ![Len(frames)].i = IF last THEN @ + 1 ELSE @]
           /\ seg' = IF last THEN <<>> ELSE [seg EXCEPT !.pg = @ + 1, !.read = @ + n]
           /\ loaded' = IF last THEN loaded \cup {[file |-> seg.file, hdr |-> h]}
                        ELSE loaded
    /\ UNCHANGED <<image, entry, ustack, stackPtr>>

-----------------------------------------------------------------------------
(* LoadELF (lines 15-132).                                                 *)

\* The switch on the type of program header i of the top activation.
\* PT_LOAD: RepositionOffset to offsetInFile and start LoadProgramHeader.
LoadSegment ==
    /\ frames # <<>> /\ seg = <<>>
    /\ Top.i <= Len(Img(Top.file).phdrs)
    /\ LET h == Img(Top.file).phdrs[Top.i]
       IN  /\ h.type = "Load"
           /\ seg' = [file |-> Top.file, hdr |-> h, pg |-> 0, read |-> 0,
                      base |-> h.virt + Bias(Top.file)]
           /\ frames' = [frames EXCEPT ![Len(frames)].pos = h.off]
    /\ UNCHANGED <<image, pt, phys, nextFrame, entry, ustack, stackPtr, loaded, overrun>>

\* PT_PHDR: remember its virtual address; other types are skipped.
OtherHeader ==
    /\ frames # <<>> /\ seg = <<>>
    /\ Top.i <= Len(Img(Top.file).phdrs)
    /\ LET h == Img(Top.file).phdrs[Top.i]
       IN  /\ h.type \in {"Phdr", "Other"}
           /\ frames' = [frames EXCEPT ![Len(frames)].i = @ + 1,
                            ![Len(frames)].phdrAddr = IF h.type = "Phdr" THEN h.virt ELSE @]
    /\ UNCHANGED <<image, seg, pt, phys, nextFrame, entry, ustack, stackPtr, loaded, overrun>>

\* PT_INTERP: read the interpreter's path from the file and LoadELF it;
\* when that returns, hasDynamicLinking = true and the loop goes on.
LoadInterpreter ==
    /\ frames # <<>> /\ seg = <<>>
    /\ Top.i <= Len(Img(Top.file).phdrs)
    /\ LET h == Img(Top.file).phdrs[Top.i]
       IN  /\ h.type = "Interp"
           /\ frames' = Append([frames EXCEPT ![Len(frames)].pos = h.off + h.fsz,
                                              ![Len(frames)].dyn = TRUE,
                                              ![Len(frames)].i = @ + 1],
                               Activation(h.path))
    /\ UNCHANGED <<image, seg, pt, phys, nextFrame, entry, ustack, stackPtr, loaded, overrun>>

\* Mutant: the Executable's own entry overrides the interpreter's.
EntryAfterAlways(fr) ==
    IF Img(fr.file).type = "Shared" THEN RtdlAddr + Img(fr.file).entry
    ELSE Img(fr.file).entry

\* entry after the program headers: RTDL_ADDR + entry for a Shared image;
\* for an Executable its own entry unless an interpreter supplied one.
EntryAfter(fr) ==
    IF Img(fr.file).type = "Shared" THEN RtdlAddr + Img(fr.file).entry
    ELSE IF fr.dyn THEN entry ELSE Img(fr.file).entry

\* Mutant: each auxv pair pushed value first.
AuxFrameSwapped(fr) ==
    <<0, 0, 3, fr.phdrAddr, 4, PhEnt, 5, Len(Img(fr.file).phdrs),
      9, Img(fr.file).entry, 0, 0, 0>>

\* The words pushed on a dynamically linked Executable's stack, in push
\* order: auxv (AT_NULL, AT_PHDR, AT_PHENT, AT_PHNUM, AT_ENTRY), envp NULL,
\* argv NULL, argc.
AuxFrame(fr) ==
    <<0, 0, fr.phdrAddr, 3, PhEnt, 4, Len(Img(fr.file).phdrs), 5,
      Img(fr.file).entry, 9, 0, 0, 0>>

\* Mutant: the stack size in bytes is passed as the page count.
StackPageCountBytes == 2 * PageSize

\* stackPageCount = USER_STACK_SIZE / 0x1000 (two pages).
StackPageCount == (2 * PageSize) \div PageSize

\* After the loop: set entry; an Executable gets a two-page user stack
\* (RequestPageFrames(stackPageCount)) and, when dynamically linked, the auxv frame.
\* Then the file is closed and the activation returns.
FinishELF ==
    /\ frames # <<>> /\ seg = <<>>
    /\ Top.i > Len(Img(Top.file).phdrs)
    /\ LET fr   == Top
           exec == Img(fr.file).type = "Executable"
           pushed == IF exec /\ fr.dyn THEN AuxFrame(fr) ELSE <<>>
       IN  /\ entry' = EntryAfter(fr)
           /\ nextFrame' = IF exec THEN nextFrame + StackPageCount ELSE nextFrame
           /\ ustack' = IF exec THEN [k \in 1..Len(pushed) |-> pushed[Len(pushed) + 1 - k]]
                        ELSE ustack
           /\ stackPtr' = IF exec THEN UserStackBase - 8 * Len(pushed) ELSE stackPtr
           /\ frames' = SubSeq(frames, 1, Len(frames) - 1)
    /\ UNCHANGED <<image, seg, pt, phys, loaded, overrun>>

Init ==
    /\ image \in Images
    /\ frames = <<Activation(Root)>>
    /\ seg = <<>>
    /\ pt = [v \in VPages |-> NoFrame]
    /\ phys = [fr \in 0..MaxFrames - 1 |-> [j \in 0..PageSize - 1 |-> Junk]]
    /\ nextFrame = 0
    /\ entry = 0
    /\ ustack = <<>>
    /\ stackPtr = 0
    /\ loaded = {}
    /\ overrun = FALSE

Next == LoadSegment \/ LoadPage \/ OtherHeader \/ LoadInterpreter \/ FinishELF

Spec == Init /\ [][Next]_vars

-----------------------------------------------------------------------------
(* Properties.                                                             *)

\* LoadELF has returned to its caller.
Done == frames = <<>>

TypeOK ==
    /\ frames \in Seq([file : DOMAIN image, i : Nat, pos : Nat, dyn : BOOLEAN,
                       phdrAddr : Nat])
    /\ pt \in [VPages -> 0..MaxFrames]
    /\ nextFrame \in 0..MaxFrames
    /\ ustack \in Seq(Nat)
    /\ overrun \in BOOLEAN

\* The byte at virtual address a, through the page table.
VRead(a) ==
    IF a \div PageSize \notin VPages \/ pt[a \div PageSize] = NoFrame THEN Junk
    ELSE phys[pt[a \div PageSize]][a % PageSize]

\* What a segment's memory must hold (System V gABI): its file bytes, then
\* zeros up to segmentSizeInMemory, at virtAddr plus the Shared bias.
SegStart(s) == s.hdr.virt + (IF Img(s.file).type = "Shared" THEN RtdlAddr ELSE 0)
Expected(s, a) ==
    IF a - SegStart(s) < s.hdr.fsz THEN FileByte(s.file, s.hdr.off + a - SegStart(s))
    ELSE Zero

\* Every PT_LOAD segment loaded so far, of the program or of its
\* interpreter, reads back as its file bytes followed by zeros, and no
\* later page mapping or read has disturbed it.
SegmentsLoaded ==
    \A s \in loaded : \A a \in SegStart(s) .. SegStart(s) + s.hdr.msz - 1 :
        VRead(a) = Expected(s, a)

\* No read of LoadProgramHeader writes past the end of the frame it has
\* just mapped.
NoFrameOverrun == ~overrun

\* The interpreter named by a PT_INTERP header of f, if any.
Interps(f) == {Img(f).phdrs[k].path : k \in {j \in DOMAIN Img(f).phdrs :
                                              Img(f).phdrs[j].type = "Interp"}}

\* When LoadELF returns, entry is the interpreter's entry relocated by
\* RTDL_ADDR for a dynamically linked program, else the program's own.
EntryPoint ==
    Done =>
        entry = IF Interps(Root) = {} THEN Img(Root).entry
                ELSE RtdlAddr + Img(CHOOSE p \in Interps(Root) : TRUE).entry

\* The initial stack of a dynamically linked Executable is the System V
\* frame: argc = 0, argv and envp empty, then auxv pairs (key, value)
\* ending with AT_NULL, with AT_PHDR, AT_PHENT, AT_PHNUM and AT_ENTRY of
\* the program.
AuxIs(key, val) ==
    \E k \in 0..(Len(ustack) - 5) \div 2 : ustack[4 + 2 * k] = key /\ ustack[5 + 2 * k] = val
PhdrVirt(f) == CHOOSE v \in {Img(f).phdrs[j].virt : j \in {k \in DOMAIN Img(f).phdrs :
                                  Img(f).phdrs[k].type = "Phdr"}} : TRUE

AuxvDescribesImage ==
    (Done /\ Interps(Root) # {}) =>
        /\ Len(ustack) >= 5
        /\ ustack[1] = 0 /\ ustack[2] = 0 /\ ustack[3] = 0
        /\ ustack[Len(ustack) - 1] = 0 /\ ustack[Len(ustack)] = 0
        /\ AuxIs(3, PhdrVirt(Root)) /\ AuxIs(4, PhEnt)
        /\ AuxIs(5, Len(Img(Root).phdrs)) /\ AuxIs(9, Img(Root).entry)

\* At process entry the stack pointer is 16-byte aligned (System V x86-64
\* ABI, 3.4.1), as the program's start code assumes.
StackAligned ==
    (Done /\ Img(Root).type = "Executable") => stackPtr % 16 = 0

=============================================================================
