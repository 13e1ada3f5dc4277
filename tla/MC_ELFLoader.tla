--------------------------- MODULE MC_ELFLoader ---------------------------
(* Small volumes for ELFLoader: /init (Executable: PT_PHDR, optionally a   *)
(* PT_INTERP naming /ld, a text and a data PT_LOAD) and /ld (Shared, one   *)
(* PT_LOAD).  Pages are 4 bytes; /ld is biased by 4 pages.                 *)
EXTENDS ELFLoader, TLC

Hdr(t, o, v, fs, ms, p) == [type |-> t, off |-> o, virt |-> v, fsz |-> fs, msz |-> ms, path |-> p]

\* /init with its data segment at file offset dOff, virtual address dVirt,
\* dFsz bytes in the file and dMsz in memory.
InitImage(dyn, dOff, dVirt, dFsz, dMsz) ==
    [type |-> "Executable", entry |-> 2, size |-> 16,
     phdrs |-> <<Hdr("Phdr", 0, 1, 0, 0, "")>>
               \o (IF dyn THEN <<Hdr("Interp", 14, 0, 2, 2, "ld")>> ELSE <<>>)
               \o <<Hdr("Load", 0, 0, 4, 4, ""), Hdr("Load", dOff, dVirt, dFsz, dMsz, "")>>]

Ld(fs, ms) ==
    [type |-> "Shared", entry |-> 1, size |-> 12,
     phdrs |-> <<Hdr("Other", 0, 0, 0, 0, ""), Hdr("Load", 0, 0, fs, ms, "")>>]

\* Page-aligned data segments whose file part ends on a page boundary or
\* in their last page.
MCImagesAligned ==
    {("init" :> InitImage(d, 4, 4, fs, ms) @@ "ld" :> Ld(lf, lm)) :
        d \in BOOLEAN, <<fs, ms>> \in {<<3, 3>>, <<4, 8>>, <<6, 8>>, <<8, 8>>},
        <<lf, lm>> \in {<<5, 8>>, <<4, 4>>}}

\* A data segment with a bss page after a partial file page.
MCImagesBss == {"init" :> InitImage(FALSE, 4, 4, 6, 12) @@ "ld" :> Ld(4, 4)}

\* A data segment starting inside a page (offset and address 5).
MCImagesMisaligned == {"init" :> InitImage(FALSE, 5, 5, 4, 4) @@ "ld" :> Ld(4, 4)}

\* A dynamically linked /init.
MCImagesDynamic == {"init" :> InitImage(TRUE, 4, 4, 4, 4) @@ "ld" :> Ld(4, 4)}
=============================================================================
