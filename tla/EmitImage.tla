----------------------------- MODULE EmitImage -----------------------------
(***************************************************************************)
(* emit_with_filter for a full emission (peony-emit): the output file is   *)
(* mapped, over the bytes of the file that was there when it has the right *)
(* size, and filled pass by pass at the offsets Layout gave out.  The      *)
(* copying of the input sections is one step here: EmitWork shows that the *)
(* threads have the effect of writing each section at once.                *)
(***************************************************************************)
EXTENDS Layout

CONSTANT OldFiles    \* sizes of the file that may be there, 0 for none;
                     \* "same": the size the new one gets

VARIABLES
  old,       \* the size of the file that is there
  base,      \* what bytes nobody writes hold: "zero", or "old" bytes
  writes,    \* the ranges written: lo, hi and the section, 0 for headers
  hashed     \* the ranges that were written when the build id was hashed

image == <<old, base, writes, hashed>>
allvars == <<vars, image>>

EmitInit ==
  /\ Init
  /\ old \in OldFiles /\ base = "zero" /\ writes = {} /\ hashed = {}

Laying == ComputeLayout /\ UNCHANGED image

Write(k, lo, len) == IF len = 0 THEN {} ELSE {[sec |-> k, lo |-> lo, hi |-> lo + len]}
Step(from, to, new) ==
  /\ pc = from /\ pc' = to
  /\ writes' = writes \cup new
  /\ UNCHANGED <<prog, at, builders, bucket, sections, addresses, seg, lay, old, base, hashed>>

(* open_output_map: a file of the right size is overwritten in place.      *)
OpenOutput ==
  /\ pc = "emit" /\ pc' = "write_headers"
  /\ base' = IF old = "same" THEN "old" ELSE "zero"
  /\ UNCHANGED <<prog, at, builders, bucket, sections, addresses, seg, lay, old, writes, hashed>>

WriteHeaders ==
  Step("write_headers", "write_sections",
       Write(0, 0, EHDR_SIZE) \cup Write(0, EHDR_SIZE, PHDR_SIZE * Len(lay.segments)))

(* The bytes a synthetic section is given, after it was zeroed.            *)
BlobSize(s) ==
  CASE s.source = ".dynamic" -> 16 * Len(lay.tags)
    [] s.source = ".symtab" -> SYM_SIZE * (Len(lay.symtab) + 1)
    [] s.source = ".strtab" -> 1 + StrSize * Len(lay.symtab)
    [] s.source = ".shstrtab" -> 1 + StrSize * Len(sections)
    [] s.source = ".note.gnu.build-id" -> BUILD_ID_NOTE_SIZE
    [] s.source = ".hash" -> 4 * (2 + NBucket(prog.dyn) + Len(DynSyms(prog.dyn)) + 1)
    [] OTHER -> s.size

(* Bug: the padding between contributions is not zeroed.                   *)
InputGapsTail(k) ==
  LET s == sections[k]
      end == Max({0} \cup {q.offset + q.size : q \in ToSet(s.parts)})
  IN  IF s.size > end THEN Write(k, s.off + end, s.size - end) ELSE {}

(* zero_input_gaps: what lies between the contributions and after them.    *)
InputGaps(k) ==
  LET s == sections[k]
      before(p) == Max({0} \cup {q.offset + q.size : q \in {q \in ToSet(s.parts) : q.offset < p.offset}})
      end == Max({0} \cup {q.offset + q.size : q \in ToSet(s.parts)})
  IN  UNION {Write(k, s.off + before(p), p.offset - before(p)) :
               p \in {p \in ToSet(s.parts) : p.offset > before(p)}}
      \cup (IF s.size > end THEN Write(k, s.off + end, s.size - end) ELSE {})

(* write_section_data_parallel, first phase.                               *)
WriteSynthetic ==
  Step("write_sections", "copy_inputs",
       UNION {CASE sections[k].source = "Input" -> InputGaps(k)
                [] sections[k].source = "Bss" -> {}
                [] OTHER -> Write(k, sections[k].off, sections[k].size)
                            \cup Write(k, sections[k].off, BlobSize(sections[k])) :
              k \in DOMAIN sections})

(* copy_input_sections: the bytes of every contribution.                   *)
CopyInputs ==
  Step("copy_inputs", "tls_got",
       UNION {UNION {Write(k, sections[k].off + p.offset, DataLen(Sec(p.sec))) :
                       p \in ToSet(sections[k].parts)} :
              k \in {k \in DOMAIN sections : sections[k].source = "Input"}})

(* write_tls_got: the second words of pairs, in the .got.                  *)
TlsGotSlots ==
  {s \in ToSet(lay.slots) : s.size = 16 /\ s.perm = "rw" /\ s.lo >= VaOf(".got") + 8 * prog.got}
WriteTlsGot ==
  Step("tls_got", "eh_frame_hdr",
       UNION {UNION {IF s.lo + 16 <= sections[k].addr + sections[k].size
                     THEN Write(k, sections[k].off + s.lo + 8 - sections[k].addr, 8) ELSE {} :
                       s \in TlsGotSlots} : k \in FindSource(".got")})

(* write_eh_frame_hdr: as much of the table as was reserved.               *)
WriteEhFrameHdr ==
  Step("eh_frame_hdr", "section_headers",
       UNION {UNION {Write(k, sections[k].off, Min({12 + 8 * FdesOf(SecsIn(sections[e])), sections[k].size})) :
                       e \in Where(LAMBDA s : s.name = ".eh_frame")} : k \in FindSource(".eh_frame_hdr")})

(* The entry of section k is at index k; the null entry is left alone.     *)
WriteSectionHeaders ==
  Step("section_headers", "build_id",
       UNION {Write(0, lay.shoff + SHDR_SIZE * k, SHDR_SIZE) : k \in DOMAIN sections})

(* finalize_build_id: the descriptor is the hash of all other bytes.       *)
FinalizeBuildId ==
  /\ pc = "build_id" /\ pc' = "done"
  /\ hashed' = writes
  /\ writes' = writes \cup UNION {Write(k, sections[k].off + 16, 16) : k \in FindSource(".note.gnu.build-id")}
  /\ UNCHANGED <<prog, at, builders, bucket, sections, addresses, seg, lay, old, base>>

EmitImageNext ==
  \/ Laying \/ OpenOutput \/ WriteHeaders \/ WriteSynthetic \/ CopyInputs \/ WriteTlsGot
  \/ WriteEhFrameHdr \/ WriteSectionHeaders \/ FinalizeBuildId
-----------------------------------------------------------------------------
(* The file ranges that mean something: the headers, the section headers   *)
(* after the null one, and every section with bytes.                       *)
InFile(k) == sections[k].source # "Bss" /\ sections[k].size > 0
Parts ==
  {[sec |-> 0, lo |-> 0, hi |-> EHDR_SIZE + PHDR_SIZE * Len(lay.segments)],
   [sec |-> 0, lo |-> lay.shoff + SHDR_SIZE, hi |-> lay.file_size]}
  \cup {[sec |-> k, lo |-> sections[k].off, hi |-> sections[k].off + sections[k].size] :
          k \in {k \in DOMAIN sections : InFile(k)}}

(* Every byte from lo to hi - 1 is written.                                *)
Covered(r) ==
  \A b \in {r.lo} \cup {w.hi : w \in {w \in writes : r.lo < w.hi /\ w.hi < r.hi}} :
    \E w \in writes : w.lo <= b /\ b < w.hi

(* Overwriting a file of the same size gives what a new file would hold:   *)
(* none of the old bytes is left where a header or a section has its own   *)
(* (peony/tests/algorithms.rs: "overwrite-in-place changed the binary").   *)
OverwriteIsFresh == pc = "done" /\ base = "old" => \A r \in Parts : Covered(r)

(* The parts of the finished file have no byte in common and lie in the    *)
(* file, no pass wrote outside the part it was writing, what the build id  *)
(* is computed from is all that was written, and nothing is left of the    *)
(* file that was there.                                                    *)
FileWhole ==
  /\ OverwriteIsFresh
  /\ pc = "done" =>
       /\ \A r \in Parts : r.hi <= lay.file_size
       /\ \A q, r \in Parts : q = r \/ q.hi <= r.lo \/ r.hi <= q.lo
       /\ \A w \in writes : \E r \in Parts : r.sec = w.sec /\ r.lo <= w.lo /\ w.hi <= r.hi
       /\ \A w \in writes \ hashed : sections[w.sec].source = ".note.gnu.build-id"
=============================================================================
