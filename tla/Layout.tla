------------------------------- MODULE Layout -------------------------------
(***************************************************************************)
(* compute_layout_icf (peony-layout/src/lib.rs): input sections are        *)
(* grouped into output sections, synthetic ones are added, addresses and   *)
(* file offsets are given out, and the headers and tables that describe    *)
(* them are sized before and built after that.  One action per pass; the   *)
(* grouping takes one input section at a time.                             *)
(*                                                                         *)
(* Addresses and sizes are the code's own; names are sequences of their    *)
(* parts (".text.hot" is <<".text", "hot">>), and a string of a string     *)
(* table takes StrSize bytes.  A program is a record                       *)
(*   relocatable   FALSE: an -r link takes another way (LinkOutput)        *)
(*   base, build_id, strip, strip_debug, shared, pie, emit_relocs          *)
(*   script   sequence of name and matches (the input names it takes)      *)
(*   secs     the input sections, as one object lists them (the null       *)
(*            section is not in the list): name, flags (A, W, X, T),       *)
(*            nobits (it has no bytes in its file), size, align,           *)
(*            anchored (a symbol is defined in it), live (SectionFilter),  *)
(*            canon (0, or the section it was folded into), fdes, relocs   *)
(*   notes    the input .note.gnu.property: property to set of bits        *)
(*   got, plt, tls   what the relocation scan asked for                    *)
(*   commons, copies   size and alignment, size                            *)
(*   symbols  the named symbols: bind, sec (0: absolute), value            *)
(*   entry    the entry symbol's section, 0 if it is not defined           *)
(*   dynamic, dyn   whether the link is dynamic, and DynTables' record     *)
(***************************************************************************)
EXTENDS DynTables, FiniteSetsExt

CONSTANTS
  Programs,       \* the programs considered
  PageSize,       \* LayoutConfig.page_size
  NameRank,       \* the byte order of the output sections' names
  StrSize         \* bytes of a string with its terminator

ASSUME LayoutSizesAssumption ==
  /\ PageSize \in Nat \ {0} /\ StrSize \in Nat \ {0}
  /\ \A p \in Programs : p.relocatable \/ p.base % PageSize = 0

EHDR_SIZE == 64
PHDR_SIZE == 56
SHDR_SIZE == 64
SYM_SIZE == 24
RELA_SIZE == 24
BUILD_ID_NOTE_SIZE == 32

VARIABLES
  prog,       \* the program being linked, never changes
  pc,         \* the next pass; "done", "error" at the end
  at,         \* grouping: the next input section
  builders,   \* output sections being assembled, in first-seen order
  bucket,     \* bucket[c]: the builders of class "ro", "rx", "rw", "bss"
  sections,   \* output_sections
  addresses,  \* input section to virtual address
  seg,        \* seg[c]: start, file end and memory end of a segment
  lay         \* the rest of Layout, as it becomes known

vars == <<prog, pc, at, builders, bucket, sections, addresses, seg, lay>>

Sec(i) == prog.secs[i]
Secs == DOMAIN prog.secs
Flag(b) == IF b THEN 1 ELSE 0

AlignUp(v, a) == IF a <= 1 THEN v ELSE ((v + a - 1) \div a) * a
PowerOfTwo(n) == \E k \in 0..16 : n = 2 ^ k

Init ==
  /\ prog \in Programs
  /\ pc = "output" /\ at = 1
  /\ builders = << >>
  /\ bucket = [c \in {"ro", "rx", "rw", "bss"} |-> << >>]
  /\ sections = << >> /\ addresses = << >>
  /\ seg = << >>
  /\ lay = [error |-> "none"]

(* The fields of lay are set once.                                         *)
With(r) == [f \in DOMAIN lay \cup DOMAIN r |-> IF f \in DOMAIN r THEN r[f] ELSE lay[f]]
Fail(e) ==
  /\ pc' = "error" /\ lay' = [lay EXCEPT !.error = e]
  /\ UNCHANGED <<prog, at, builders, bucket, sections, addresses, seg>>

-----------------------------------------------------------------------------
(* The dynamic symbol, string and hash tables, by size.                    *)
Strings == Len(DynSyms(prog.dyn)) + Len(prog.dyn.needed) + Flag(prog.dyn.soname)
           + Flag(prog.dyn.rpath) + Cardinality(Verneed(prog.dyn))

DynBlobs ==
  LET d == prog.dyn
      n == Len(DynSyms(d)) + 1
  IN  [interp  |-> IF prog.shared THEN 0 ELSE StrSize,
       hash    |-> IF HasHash(d) THEN 4 * (2 + NBucket(d) + n) ELSE 0,
       gnuhash |-> IF HasGnuHash(d) THEN 28 ELSE 0,
       dynsym  |-> SYM_SIZE * n,
       dynstr  |-> 1 + StrSize * Strings,
       versym  |-> IF Verneed(d) = {} THEN 0 ELSE 2 * n,
       verneed |-> 16 * (VerneedNum(d) + Cardinality(Verneed(d))),
       rela    |-> RELA_SIZE * d.rela]

PrebuildDynamic ==
  /\ pc = "output" /\ ~prog.relocatable
  /\ ~(prog.dynamic /\ HashStyleUnsupported(prog.dyn))
  /\ pc' = "group"
  /\ UNCHANGED <<prog, at, builders, bucket, sections, addresses, seg, lay>>

RejectHashStyle ==
  /\ pc = "output" /\ ~prog.relocatable /\ prog.dynamic /\ HashStyleUnsupported(prog.dyn)
  /\ Fail("hash_style")
-----------------------------------------------------------------------------
(* Grouping.  The kind of a section comes from its name (classify_section, *)
(* peony-object), not from its type.                                       *)
Kind(s) ==
  CASE "T" \in s.flags -> IF s.name[1] = ".tbss" THEN "Tbss" ELSE "Tdata"
    [] s.name[1] = ".text" -> "Text"
    [] s.name[1] = ".data" -> "Data"
    [] s.name[1] = ".bss" -> "Bss"
    [] s.name[1] = ".debug_info" -> "Debug"
    [] s.name[1] = ".eh_frame" -> "EhFrame"
    [] OTHER -> "Other"
DataLen(s) == IF s.nobits THEN 0 ELSE s.size

IsNote(s) == s.name[1] = ".note"
IsAllocatable(s) == "A" \in s.flags /\ Kind(s) # "Debug" /\ ~IsNote(s)

(* Bug: an empty section is dropped although a symbol marks its place.     *)
ContributesNonEmpty(s) == IsAllocatable(s) /\ s.size > 0 /\ s.live /\ s.canon = 0
Contributes(s) ==
  IsAllocatable(s) /\ (s.size > 0 \/ s.anchored) /\ s.live /\ s.canon = 0

(* ScriptLayout::output_for_input and output_section_name.                 *)
ScriptEntry(script, n) == {k \in DOMAIN script : n \in script[k].matches}
OutputSectionName(script, n) ==
  IF ScriptEntry(script, n) # {} THEN script[Min(ScriptEntry(script, n))].name ELSE n[1]

PermOf(flags) == IF "X" \in flags THEN "rx" ELSE IF "W" \in flags THEN "rw" ELSE "ro"

Builder(name, kind, flags, align, size) ==
  [name |-> name, kind |-> kind, flags |-> flags, align |-> align, size |-> size,
   nobits |-> kind \in {"Bss", "Tbss"}, parts |-> << >>, addr |-> 0, off |-> 0,
   source |-> name]

(* A contribution: the input section, its offset and its size.             *)
AddPart(b, i, size) ==
  LET off == AlignUp(b.size, Sec(i).align)
  IN  [b EXCEPT !.parts = Append(@, [sec |-> i, offset |-> off, size |-> size]),
                !.size = off + size,
                !.align = Max({@, Sec(i).align, 1})]

GroupedInto(i) ==
  LET name == OutputSectionName(prog.script, Sec(i).name)
      k == {k \in DOMAIN builders : builders[k].name = name}
      new == Builder(name, Kind(Sec(i)), Sec(i).flags, 1, 0)
  IN  IF k = {} THEN Append(builders, AddPart(new, i, Sec(i).size))
      ELSE [builders EXCEPT ![Min(k)] = AddPart(@, i, Sec(i).size)]

GroupSection ==
  /\ pc = "group" /\ at \in Secs
  /\ ~Contributes(Sec(at)) \/ Sec(at).align = 0 \/ PowerOfTwo(Sec(at).align)
  /\ builders' = IF Contributes(Sec(at)) THEN GroupedInto(at) ELSE builders
  /\ at' = at + 1
  /\ UNCHANGED <<prog, pc, bucket, sections, addresses, seg, lay>>

RejectAlignment ==
  /\ pc = "group" /\ at \in Secs
  /\ Contributes(Sec(at)) /\ Sec(at).align # 0 /\ ~PowerOfTwo(Sec(at).align)
  /\ Fail("alignment")
-----------------------------------------------------------------------------
(* Buckets and synthetic sections.                                         *)
(* The members of s at positions I, in an order of the positions, and      *)
(* sorted, where equal ones keep their order.                              *)
Arranged(s, I, order) ==
  [p \in 1 .. Cardinality(I) |-> s[CHOOSE i \in I : p = Cardinality({j \in I : <<j, i>> \in order})]]
InOrder(s, I) == Arranged(s, I, {x \in I \X I : x[1] <= x[2]})
SortAt(s, I, Lt(_, _)) ==
  Arranged(s, I, {x \in I \X I : Lt(s[x[1]], s[x[2]]) \/ (x[1] <= x[2] /\ ~Lt(s[x[2]], s[x[1]]))})
StableSort(s, Lt(_, _)) == SortAt(s, DOMAIN s, Lt)

ByName(a, b) == NameRank[a.name] < NameRank[b.name]
ClassOf(b) ==
  IF PermOf(b.flags) = "rw" THEN (IF b.nobits THEN "bss" ELSE "rw") ELSE PermOf(b.flags)
InClass(c) == {k \in DOMAIN builders : ClassOf(builders[k]) = c}

(* The .got: scalar slots, then GD and descriptor pairs, the LDM pair, IE. *)
TlsBytes == 16 * (prog.tls.gd + prog.tls.desc + Flag(prog.tls.ldm)) + 8 * prog.tls.ie
GotTotal == 8 * prog.got + TlsBytes

(* Things of a size and an alignment one after the other, from v on: the   *)
(* ends of bs[1], bs[2] ... and where bs[k] begins.                        *)
Ends(bs, v) ==
  LET end[k \in 0 .. Len(bs)] == IF k = 0 THEN v ELSE AlignUp(end[k - 1], bs[k].align) + bs[k].size
  IN  end
Begin(bs, v, k) == AlignUp(Ends(bs, v)[k - 1], bs[k].align)
End(bs, v) == Ends(bs, v)[Len(bs)]
MaxAlign(bs) == Max({1} \cup {bs[k].align : k \in DOMAIN bs})

(* Commons, then copies, in a .bss of their own.                           *)
CopyRelocAlign(size) == Min({16, Min({a \in {1, 2, 4, 8, 16, 32} : a >= Min({size, 32})})})
Reserve(size, align) == [size |-> size, align |-> align]
Reserved ==
  [k \in DOMAIN prog.commons |-> Reserve(prog.commons[k].size, Max({prog.commons[k].align, 1}))]
  \o [k \in DOMAIN prog.copies |->
        Reserve(Max({prog.copies[k], 1}), CopyRelocAlign(Max({prog.copies[k], 1})))]

(* merge_gnu_property_notes: a bit of USED needs one note, any other bit   *)
(* every note that has the property.                                       *)
NotesWith(t) == {n \in ToSet(prog.notes) : t \in DOMAIN n}
MergedNote ==
  [t \in UNION {DOMAIN n : n \in ToSet(prog.notes)} |->
     IF t = "ISA_1_USED" THEN UNION {n[t] : n \in NotesWith(t)}
     ELSE {b \in UNION {n[t] : n \in NotesWith(t)} : \A n \in NotesWith(t) : b \in n[t]}]
NoteSize == IF prog.notes = << >> THEN 0 ELSE 16 + 16 * Cardinality(DOMAIN MergedNote)

(* The FDEs and the relocations of sections.                               *)
FdesOf(I) == Cardinality(UNION {{i} \X (1 .. Sec(i).fdes) : i \in I})
RelocsOf(I) == Cardinality(UNION {{i} \X (1 .. Sec(i).relocs) : i \in I})
NFdes == FdesOf({i \in Secs : Kind(Sec(i)) = "EhFrame"})

Some(b) == IF b.size > 0 THEN <<b>> ELSE << >>
Ro(name, align, size) == Some(Builder(name, "Other", {"A"}, align, size))
Rw(name, size) == Some(Builder(name, "Data", {"A", "W"}, 8, size))
Only(cond, s) == IF cond THEN s ELSE << >>

SynthRo ==
  LET d == DynBlobs IN
  Ro(".note.gnu.property", 8, NoteSize)
  \o Ro(".note.gnu.build-id", 4, Flag(prog.build_id) * BUILD_ID_NOTE_SIZE)
  \o Ro(".eh_frame_hdr", 4, IF NFdes = 0 THEN 0 ELSE 12 + 8 * NFdes)
  \o Only(prog.dynamic,
       Ro(".interp", 1, d.interp) \o Ro(".hash", 8, d.hash) \o Ro(".gnu.hash", 8, d.gnuhash)
       \o Ro(".dynsym", 8, d.dynsym) \o Ro(".dynstr", 1, d.dynstr)
       \o Ro(".gnu.version", 2, d.versym) \o Ro(".gnu.version_r", 8, d.verneed)
       \o Ro(".rela.dyn", 8, d.rela) \o Ro(".rela.plt", 8, RELA_SIZE * prog.plt))

SynthRx == Only(prog.dynamic, Some(Builder(".plt", "Text", {"A", "X"}, 16, 16 * prog.plt)))

(* dyn_entries: how many tags .dynamic will have, from what is known now.  *)
Count(c, names) == Cardinality({k \in InClass(c) : builders[k].name \in names})
NFlags == IF prog.pie \/ prog.shared THEN 2 ELSE IF prog.plt > 0 THEN 1 ELSE 0

(* Bug: the tags of the version tables are not counted.                    *)
DynEntriesNoVersions ==
  LET d == prog.dyn IN
  Len(d.needed) + 4 + Flag(HasHash(d)) + Flag(HasGnuHash(d)) + Flag(d.soname) + Flag(d.rpath)
  + 3 * Flag(d.rela > 0) + Flag(d.relcount) + 4 * Flag(prog.plt > 0)
  + Count("rx", {".init", ".fini"}) + NFlags + 2 * Count("rw", {".init_array", ".fini_array"}) + 1

DynEntries ==
  LET d == prog.dyn IN
  Len(d.needed) + 4 + Flag(HasHash(d)) + Flag(HasGnuHash(d)) + Flag(d.soname) + Flag(d.rpath)
  + 3 * Flag(d.rela > 0) + Flag(d.relcount) + 4 * Flag(prog.plt > 0) + 3 * Flag(Verneed(d) # {})
  + Count("rx", {".init", ".fini"}) + NFlags + 2 * Count("rw", {".init_array", ".fini_array"}) + 1

SynthRw ==
  Rw(".got", GotTotal)
  \o Only(prog.dynamic,
       Only(prog.plt > 0, Rw(".got.plt", 8 * (prog.plt + 3))) \o Rw(".dynamic", 16 * DynEntries))

SynthBss == Some(Builder(".bss", "Bss", {"A", "W"}, MaxAlign(Reserved), End(Reserved, 0)))
SyntheticOf(c) ==
  CASE c = "ro" -> SynthRo [] c = "rx" -> SynthRx [] c = "rw" -> SynthRw [] c = "bss" -> SynthBss

(* sort_builders_by_script: listed sections first, in the script's order.  *)
OrderOf(name) == {k \in DOMAIN prog.script : prog.script[k].name = name}
ByScript(a, b) ==
  LET ka == OrderOf(a.name)
      kb == OrderOf(b.name)
  IN  CASE ka # {} /\ kb # {} -> Min(ka) < Min(kb) \/ (Min(ka) = Min(kb) /\ ByName(a, b))
        [] ka = {} /\ kb = {} -> ByName(a, b)
        [] OTHER -> ka # {}

AddSynthetic ==
  /\ pc = "group" /\ at \notin Secs
  /\ bucket' = [c \in {"ro", "rx", "rw", "bss"} |->
       StableSort(SortAt(builders, InClass(c), ByName) \o SyntheticOf(c), ByScript)]
  /\ pc' = "count"
  /\ UNCHANGED <<prog, at, builders, sections, addresses, seg, lay>>
-----------------------------------------------------------------------------
(* The number of program headers, before any address is known.             *)
IsTls(b) == b.kind \in {"Tdata", "Tbss"}
Has(s, P(_)) == \E k \in DOMAIN s : P(s[k])

PredictedPhnum ==
  LET tls == Has(bucket["rw"] \o bucket["bss"], IsTls)
      rw == bucket["rw"] \o bucket["bss"] # << >>
  IN  3 + Flag(prog.build_id) + (IF prog.dynamic THEN 2 - Flag(prog.shared) ELSE 0)
      + Flag(tls) + Flag(NFdes > 0)
      + Flag(Has(bucket["ro"], LAMBDA b : b.name = ".note.gnu.property"))
      + Flag(prog.dynamic) + Flag(bucket["rx"] # << >>) + Flag(rw)

CountHeaders ==
  /\ pc = "count"
  /\ lay' = With([phnum |-> PredictedPhnum])
  /\ pc' = "ro"
  /\ UNCHANGED <<prog, at, builders, bucket, sections, addresses, seg>>
-----------------------------------------------------------------------------
(* Addresses.  place(): file offset and address always differ by base.     *)
Synthetic == {".got", ".note.gnu.build-id", ".note.gnu.property", ".interp", ".hash",
              ".gnu.hash", ".dynsym", ".dynstr", ".rela.dyn", ".dynamic", ".plt", ".got.plt",
              ".rela.plt", ".gnu.version", ".gnu.version_r", ".eh_frame_hdr"}
Source(b) == IF b.name \in Synthetic THEN b.name ELSE IF b.nobits THEN "Bss" ELSE "Input"

(* What compilers give: a section that is loaded has no name the linker    *)
(* gives to sections it makes, thread-local variables are writable,        *)
(* initialisers and .data.rel.ro are writable data, .init and .fini code.  *)
PlainSection(script, s) ==
  LET name == OutputSectionName(script, s.name) IN
  /\ s.size \in Nat /\ s.align \in Nat /\ s.fdes \in Nat /\ s.relocs \in Nat
  /\ Contributes(s) =>
       /\ name \in DOMAIN NameRank \ Synthetic
       /\ name \in {".init", ".fini"} => PermOf(s.flags) = "rx"
       /\ name \in {".init_array", ".fini_array", ".data.rel.ro"} =>
            PermOf(s.flags) = "rw" /\ Kind(s) \notin {"Bss", "Tbss"}
       /\ "T" \in s.flags => PermOf(s.flags) = "rw"
IsProgram(p) ==
  /\ {p.dynamic, p.shared, p.pie, p.build_id} \subseteq BOOLEAN
  /\ p.base \in Nat /\ p.got \in Nat /\ p.plt \in Nat
  /\ p.tls.gd \in Nat /\ p.tls.desc \in Nat /\ p.tls.ie \in Nat
  /\ IsSeq(p.script) /\ IsSeq(p.secs) /\ IsSeq(p.notes) /\ IsSeq(p.commons) /\ IsSeq(p.copies)
  /\ \A i \in DOMAIN p.secs : PlainSection(p.script, p.secs[i])
  /\ \A i \in DOMAIN p.notes : IsFiniteSet(DOMAIN p.notes[i])
  /\ \A i \in DOMAIN p.commons : p.commons[i].size \in Nat /\ p.commons[i].align \in Nat
  /\ \A i \in DOMAIN p.copies : p.copies[i] \in Nat
  /\ p.dynamic => p.dyn.rela \in Nat /\ DynWellFormed(p.dyn)
ASSUME ProgramsAssumption ==
  /\ NameRank \in [DOMAIN NameRank -> Nat]
  /\ \A m, n \in DOMAIN NameRank : NameRank[m] = NameRank[n] => m = n
  /\ Synthetic \cup {".bss"} \subseteq DOMAIN NameRank
  /\ \A p \in Programs : ~p.relocatable => IsProgram(p)

Place(bs, va) ==
  [k \in DOMAIN bs |->
     [bs[k] EXCEPT !.addr = Begin(bs, va, k), !.off = Begin(bs, va, k) - prog.base, !.source = Source(bs[k])]]

PartAddresses(ss) ==
  LET parts == UNION {{<<p.sec, ss[k].addr + p.offset>> : p \in ToSet(ss[k].parts)} : k \in DOMAIN ss}
  IN  [i \in {p[1] : p \in parts} |-> (CHOOSE p \in parts : p[1] = i)[2]]

(* addresses.insert for every contribution of the sections placed.         *)
Placed(r, next) ==
  /\ sections' = sections \o r
  /\ addresses' = LET new == PartAddresses(r)
                  IN  [i \in DOMAIN addresses \cup DOMAIN new |->
                         IF i \in DOMAIN new THEN new[i] ELSE addresses[i]]
  /\ pc' = next
  /\ UNCHANGED <<prog, at, builders, lay>>

Segment(c, start, file_end, mem_end) ==
  [x \in DOMAIN seg \cup {c} |->
     IF x = c THEN [start |-> start, file_end |-> file_end, mem_end |-> mem_end] ELSE seg[x]]

PlaceReadOnly ==
  LET start == prog.base + EHDR_SIZE + lay.phnum * PHDR_SIZE
      end == End(bucket["ro"], start)
  IN
  /\ pc = "ro"
  /\ seg' = Segment("ro", prog.base, end, end)
  /\ Placed(Place(bucket["ro"], start), "rx")
  /\ UNCHANGED bucket

PlaceExecutable ==
  LET start == AlignUp(seg["ro"].mem_end, PageSize)
      end == End(bucket["rx"], start)
  IN
  /\ pc = "rx"
  /\ seg' = IF bucket["rx"] = << >> THEN seg ELSE Segment("rx", start, end, end)
  /\ Placed(Place(bucket["rx"], start), "order")
  /\ UNCHANGED bucket

(* RELRO sections go first, thread-local zeroes first of the rest.         *)
RELRO_SECTIONS == {".data.rel.ro", ".dynamic", ".fini_array", ".got", ".got.plt", ".init_array"}
IsRelro(b) == b.name \in RELRO_SECTIONS

(* Bug: the writable sections stay in the order of their names.            *)
RelroFirstByName(a, b) == ByName(a, b)
RelroFirst(a, b) ==
  \/ IsRelro(a) /\ ~IsRelro(b)
  \/ IsRelro(a) = IsRelro(b) /\ (ByName(a, b) \/ (a.name = b.name /\ a.kind # "Tdata" /\ b.kind = "Tdata"))

(* Bug: .tbss keeps its place by name.                                     *)
TbssFirstNot(a, b) == FALSE
TbssFirst(a, b) == a.kind = "Tbss" /\ b.kind # "Tbss"

TlsAligns(bs) == {bs[k].align : k \in {k \in DOMAIN bs : IsTls(bs[k])}}
RaiseAlign(bs, k, a) == [bs EXCEPT ![k].align = Max({@, a})]

(* The alignment of the block is given to the section it begins with: the  *)
(* last .tdata, or else the first .tbss.                                   *)
OrderWritable ==
  LET rw == StableSort(bucket["rw"], RelroFirst)
      bss == StableSort(bucket["bss"], TbssFirst)
      a == Max({1} \cup TlsAligns(rw) \cup TlsAligns(bss))
      tdata == {k \in DOMAIN rw : rw[k].kind = "Tdata"}
      tbss == {k \in DOMAIN bss : bss[k].kind = "Tbss"}
  IN
  /\ pc = "order"
  /\ bucket' = [bucket EXCEPT
       !["rw"] = IF tdata = {} THEN rw ELSE RaiseAlign(rw, Max(tdata), a),
       !["bss"] = IF tdata # {} \/ tbss = {} THEN bss ELSE RaiseAlign(bss, Min(tbss), a)]
  /\ pc' = "rw"
  /\ UNCHANGED <<prog, at, builders, sections, addresses, seg, lay>>

(* Bug: the executable segment is forgotten.                               *)
SegmentEndReadOnly == seg["ro"].mem_end
SegmentEnd == IF "rx" \in DOMAIN seg THEN seg["rx"].mem_end ELSE seg["ro"].mem_end

PlaceWritable ==
  LET start == AlignUp(SegmentEnd, PageSize)
      split == Min({k \in DOMAIN bucket["rw"] : ~IsRelro(bucket["rw"][k])} \cup {Len(bucket["rw"]) + 1})
      relro == SubSeq(bucket["rw"], 1, split - 1)
      rest == SubSeq(bucket["rw"], split, Len(bucket["rw"]))
      zero == bucket["bss"]
      data == IF rest = << >> /\ zero = << >> THEN End(relro, start) ELSE AlignUp(End(relro, start), PageSize)
      bss == End(rest, data)
  IN
  /\ pc = "rw"
  /\ seg' = IF bucket["rw"] \o zero = << >> THEN seg ELSE Segment("rw", start, bss, End(zero, bss))
  /\ Placed(Place(relro, start) \o Place(rest, data) \o Place(zero, bss), "alias")
  /\ UNCHANGED bucket

(* --icf: a folded section has the address of its canonical copy.          *)
AliasFolded ==
  LET dup == {i \in Secs : Sec(i).canon \in DOMAIN addresses} IN
  /\ pc = "alias"
  /\ addresses' = [i \in DOMAIN addresses \cup dup |->
       IF i \in dup THEN addresses[Sec(i).canon] ELSE addresses[i]]
  /\ pc' = "meta"
  /\ UNCHANGED <<prog, at, builders, bucket, sections, seg, lay>>
-----------------------------------------------------------------------------
(* Sections that are not loaded.                                           *)
Where(P(_)) == {k \in DOMAIN sections : P(sections[k])}
FindSource(src) == Where(LAMBDA s : s.source = src)
VaOf(src) == IF FindSource(src) = {} THEN 0 ELSE sections[Min(FindSource(src))].addr

(* Bug: without a writable segment the executable one is forgotten.        *)
FileContentEndShort ==
  (IF "rw" \in DOMAIN seg THEN seg["rw"].file_end ELSE seg["ro"].file_end) - prog.base
FileContentEnd ==
  (IF "rw" \in DOMAIN seg THEN seg["rw"].file_end
   ELSE IF "rx" \in DOMAIN seg THEN seg["rx"].file_end ELSE seg["ro"].file_end) - prog.base

(* tls_base_va: the lowest .tdata, or else the lowest .tbss.               *)
TlsBase ==
  LET tdata == {sections[k].addr : k \in Where(LAMBDA s : "T" \in s.flags /\ s.kind = "Tdata")}
      tbss == {sections[k].addr : k \in Where(LAMBDA s : "T" \in s.flags /\ s.kind = "Tbss")}
  IN  IF tdata # {} THEN Min(tdata) ELSE IF tbss # {} THEN Min(tbss) ELSE 0

(* build_symtab_plan: locals, then globals; a symbol of a section that is  *)
(* not in the output is left out.  Whether a symbol is thread-local is     *)
(* read at position sec of a list that leaves the null section out, so     *)
(* from the section behind the symbol's own.                               *)
InPlan(y) == y.sec \in DOMAIN addresses \/ (y.sec = 0 /\ y.bind = "global")
IsTlsSymbol(y) == y.sec # 0 /\ y.sec + 1 \in Secs /\ "T" \in Sec(y.sec + 1).flags
SymValue(y) ==
  CASE y.sec = 0 -> y.value
    [] IsTlsSymbol(y) -> Max({addresses[y.sec] - TlsBase, 0}) + y.value
    [] OTHER -> addresses[y.sec] + y.value
SymtabPlan ==
  LET plan(b) == SelectSeq(prog.symbols, LAMBDA y : y.bind = b /\ InPlan(y))
      entry(y) == [sec |-> y.sec, value |-> SymValue(y), offset |-> y.value]
      both == plan("local") \o plan("global")
  IN  [k \in DOMAIN both |-> entry(both[k])]

(* A section that is only in the file.                                     *)
FileOnly(name, src, align, size, parts) ==
  [Builder(name, "Other", {}, align, size) EXCEPT !.source = src, !.parts = parts]

(* --emit-relocs: one section of relocations per loaded input section.     *)
SecsIn(s) == {p.sec : p \in ToSet(s.parts)}
RelaEmit ==
  LET of == InOrder(sections, Where(LAMBDA s : s.source = "Input" /\ "A" \in s.flags /\ RelocsOf(SecsIn(s)) > 0))
  IN  [k \in DOMAIN of |-> FileOnly(".rela", "RelaEmit", 8, RELA_SIZE * RelocsOf(SecsIn(of[k])), << >>)]

(* Debug information and other sections kept as they are, joined by name.  *)
ShouldPassthrough(s) ==
  /\ "A" \notin s.flags /\ ~s.nobits /\ s.size > 0
  /\ s.name[1] \in {".rustc", ".comment"} \/ (~prog.strip_debug /\ Kind(s) = "Debug")
Passthrough ==
  LET first == {i \in Secs : /\ ShouldPassthrough(Sec(i))
                             /\ \A j \in 1 .. i - 1 : ~(ShouldPassthrough(Sec(j)) /\ Sec(j).name = Sec(i).name)}
  IN  InOrder(prog.secs, first)
Joined(name) ==
  LET of == InOrder([i \in Secs |-> i], {i \in Secs : Sec(i).name = name /\ DataLen(Sec(i)) > 0})
      bs == [k \in DOMAIN of |-> Sec(of[k])]
      parts == [k \in DOMAIN of |-> [sec |-> of[k], offset |-> Begin(bs, 0, k), size |-> bs[k].size]]
  IN  FileOnly(name[1], "Input", MaxAlign(bs), End(bs, 0), parts)

MetaSections ==
  LET n == Len(SymtabPlan)
      rest == Only(~prog.strip, <<FileOnly(".symtab", ".symtab", 8, SYM_SIZE * (n + 1), << >>),
                                  FileOnly(".strtab", ".strtab", 1, 1 + StrSize * n, << >>)>>)
              \o Only(prog.emit_relocs /\ ~prog.strip, RelaEmit)
              \o [k \in DOMAIN Passthrough |-> Joined(Passthrough[k].name)]
      names == Len(sections) + Len(rest) + 1
  IN  Append(rest, FileOnly(".shstrtab", ".shstrtab", 1, 1 + StrSize * names, << >>))

PlaceMeta ==
  LET bs == MetaSections
      start == AlignUp(FileContentEnd, 8)
      metas == [k \in DOMAIN bs |-> [bs[k] EXCEPT !.off = Begin(bs, start, k)]]
      shoff == AlignUp(End(bs, start), 8)
  IN
  /\ pc = "meta"
  /\ lay' = With([symtab |-> IF prog.strip THEN << >> ELSE SymtabPlan, shoff |-> shoff,
                  file_size |-> shoff + (Len(sections) + Len(bs) + 1) * SHDR_SIZE])
  /\ sections' = sections \o metas
  /\ addresses' = LET new == PartAddresses(metas)
                  IN  [i \in DOMAIN addresses \cup DOMAIN new |->
                         IF i \in DOMAIN new THEN new[i] ELSE addresses[i]]
  /\ pc' = "slots"
  /\ UNCHANGED <<prog, at, builders, bucket, seg>>
-----------------------------------------------------------------------------
(* Slots: commons and copies in the .bss that has no contributions, and    *)
(* the thread-local part of the .got.                                      *)
SyntheticBss == Where(LAMBDA s : s.source = "Bss" /\ s.parts = << >>)
CommonBase == IF SyntheticBss = {} THEN 0 ELSE sections[Min(SyntheticBss)].addr

AssignSlots ==
  LET tls == VaOf(".got") + 8 * prog.got
      pairs == prog.tls.gd + prog.tls.desc + Flag(prog.tls.ldm)
      slot(lo, size, w) == [lo |-> lo, size |-> size, perm |-> w]
  IN
  /\ pc = "slots"
  /\ lay' = With([slots |->
       [k \in 1..prog.got |-> slot(VaOf(".got") + 8 * (k - 1), 8, "rw")]
       \o [k \in 1..pairs |-> slot(tls + 16 * (k - 1), 16, "rw")]
       \o [k \in 1..prog.tls.ie |-> slot(tls + 16 * pairs + 8 * (k - 1), 8, "rw")]
       \o [k \in 1..(IF prog.dynamic THEN prog.plt ELSE 0) |-> slot(VaOf(".plt") + 16 * (k - 1), 16, "rx")]
       \o [k \in DOMAIN Reserved |-> slot(CommonBase + Begin(Reserved, 0, k), Reserved[k].size, "rw")]])
  /\ pc' = "tls"
  /\ UNCHANGED <<prog, at, builders, bucket, sections, addresses, seg>>

(* The static TLS block: the .tdata sections, then the .tbss sections.     *)
TlsBlock ==
  InOrder(sections, Where(LAMBDA s : s.kind = "Tdata")) \o InOrder(sections, Where(LAMBDA s : s.kind = "Tbss"))

TlsLayout ==
  LET block == TlsBlock IN
  /\ pc = "tls"
  /\ lay' = With(
       [tls |-> [block |-> block,
                 filesz |-> FoldLeft(LAMBDA n, s : n + (IF s.kind = "Tdata" THEN s.size ELSE 0), 0, block),
                 offsets |-> UNION {{<<p.sec, Begin(block, 0, k) + p.offset>> : p \in ToSet(block[k].parts)} :
                                    k \in DOMAIN block}],
        tls_size |-> AlignUp(End(block, 0), MaxAlign(block))])
  /\ pc' = "entry"
  /\ UNCHANGED <<prog, at, builders, bucket, sections, addresses, seg>>

(* resolve_entry.                                                          *)
ResolveEntry ==
  /\ pc = "entry"
  /\ prog.entry \in DOMAIN addresses \/ prog.shared
  /\ lay' = With([entry |-> IF prog.entry \in DOMAIN addresses THEN addresses[prog.entry] ELSE 0])
  /\ pc' = "dynamic"
  /\ UNCHANGED <<prog, at, builders, bucket, sections, addresses, seg>>
RejectEntry ==
  /\ pc = "entry" /\ prog.entry \notin DOMAIN addresses /\ ~prog.shared
  /\ Fail("entry")

(* The contents of .dynamic.                                               *)
Named(name) == Where(LAMBDA s : s.name = name)
Tag(t, v) == <<[tag |-> t, val |-> v]>>
Point(t, name) ==
  Only(Named(name) # {}, Tag(t, IF Named(name) = {} THEN 0 ELSE sections[Min(Named(name))].addr))
Array(t, sz, name) == Point(t, name) \o Only(Named(name) # {}, Tag(sz, 0))

DynamicTags ==
  LET d == prog.dyn IN
  [k \in DOMAIN d.needed |-> [tag |-> "NEEDED", val |-> k]]
  \o Only(d.soname, Tag("SONAME", 0)) \o Only(d.rpath, Tag("RPATH", 0))
  \o Only(HasHash(d), Tag("HASH", VaOf(".hash")))
  \o Only(HasGnuHash(d), Tag("GNU_HASH", VaOf(".gnu.hash")))
  \o Tag("STRTAB", VaOf(".dynstr")) \o Tag("SYMTAB", VaOf(".dynsym"))
  \o Tag("STRSZ", DynBlobs.dynstr) \o Tag("SYMENT", SYM_SIZE)
  \o Only(d.rela > 0, Tag("RELA", VaOf(".rela.dyn")) \o Tag("RELASZ", RELA_SIZE * d.rela)
                      \o Tag("RELAENT", RELA_SIZE))
  \o Only(d.relcount, Tag("RELACOUNT", 0))
  \o Only(prog.plt > 0, Tag("PLTGOT", VaOf(".got.plt")) \o Tag("PLTRELSZ", RELA_SIZE * prog.plt)
                        \o Tag("PLTREL", 0) \o Tag("JMPREL", VaOf(".rela.plt")))
  \o Only(Verneed(d) # {}, Tag("VERSYM", VaOf(".gnu.version")) \o Tag("VERNEED", VaOf(".gnu.version_r"))
                           \o Tag("VERNEEDNUM", VerneedNum(d)))
  \o Only(prog.pie \/ prog.shared \/ prog.plt > 0, Tag("FLAGS", 0))
  \o Only(prog.pie \/ prog.shared, Tag("FLAGS_1", 0))
  \o Point("INIT", ".init") \o Point("FINI", ".fini")
  \o Array("INIT_ARRAY", "INIT_ARRAYSZ", ".init_array")
  \o Array("FINI_ARRAY", "FINI_ARRAYSZ", ".fini_array")
  \o Tag("NULL", 0)

BuildDynamic ==
  /\ pc = "dynamic"
  /\ lay' = With([tags |-> IF prog.dynamic THEN DynamicTags ELSE << >>])
  /\ pc' = "headers"
  /\ UNCHANGED <<prog, at, builders, bucket, sections, addresses, seg>>
-----------------------------------------------------------------------------
(* Program headers.                                                        *)
Header(type, off, va, filesz, memsz, flags) ==
  <<[type |-> type, off |-> off, va |-> va, filesz |-> filesz, memsz |-> memsz, flags |-> flags]>>
Load(c, flags) ==
  Only(c \in DOMAIN seg,
       LET g == seg[c] IN
       Header("LOAD", g.start - prog.base, g.start, g.file_end - g.start, g.mem_end - g.start, flags))
OfSection(type, K, flags) ==
  IF K = {} THEN << >>
  ELSE LET s == sections[Min(K)] IN Header(type, s.off, s.addr, s.size, s.size, flags)

(* PT_GNU_RELRO: the first run of adjacent RELRO sections.                 *)
ByAddr(a, b) == a.addr < b.addr
RelroRun ==
  LET rw == SortAt(sections, Where(LAMBDA s : {"A", "W"} \subseteq s.flags), ByAddr)
      firsts == {k \in DOMAIN rw : IsRelro(rw[k])}
      adjacent(k) == IsRelro(rw[k]) /\ rw[k].addr = rw[k - 1].addr + rw[k - 1].size
      k0 == Min(firsts)
      last == CHOOSE m \in k0 .. Len(rw) :
                /\ \A k \in k0 + 1 .. m : adjacent(k)
                /\ m = Len(rw) \/ ~adjacent(m + 1)
  IN  IF firsts = {} THEN Header("RELRO", 0, 0, 0, 0, {"R"})
      ELSE LET size == rw[last].addr + rw[last].size - rw[k0].addr
           IN  Header("RELRO", rw[k0].off, rw[k0].addr, size, size, {"R"})

Headers ==
  Header("PHDR", EHDR_SIZE, prog.base + EHDR_SIZE, lay.phnum * PHDR_SIZE, lay.phnum * PHDR_SIZE, {"R"})
  \o Only(prog.dynamic, OfSection("INTERP", FindSource(".interp"), {"R"}))
  \o Only(prog.build_id, OfSection("NOTE", FindSource(".note.gnu.build-id"), {"R"}))
  \o Load("ro", {"R"}) \o Load("rx", {"R", "X"}) \o Load("rw", {"R", "W"})
  \o OfSection("GNU_PROPERTY", Named(".note.gnu.property"), {"R"})
  \o Only(prog.dynamic, OfSection("DYNAMIC", FindSource(".dynamic"), {"R", "W"}))
  \o Only(lay.tls_size > 0,
          Header("TLS", lay.tls.block[1].off, lay.tls.block[1].addr, lay.tls.filesz, lay.tls_size, {"R"}))
  \o OfSection("GNU_EH_FRAME", FindSource(".eh_frame_hdr"), {"R"})
  \o Only(prog.dynamic, RelroRun)
  \o Header("GNU_STACK", 0, 0, 0, 0, {"R", "W"})

ProgramHeaders ==
  /\ pc = "headers" /\ Len(Headers) = lay.phnum
  /\ lay' = With([segments |-> Headers])
  /\ pc' = "symbols"
  /\ UNCHANGED <<prog, at, builders, bucket, sections, addresses, seg>>
PhdrCountMismatch ==
  /\ pc = "headers" /\ Len(Headers) # lay.phnum
  /\ Fail("phdr_count")

(* __bss_start, _edata and _end.                                           *)
LinkerSymbols ==
  LET loaded == Where(LAMBDA s : "A" \in s.flags)
      ends(K) == {sections[k].addr + sections[k].size : k \in K}
      zero == {k \in loaded : sections[k].nobits}
      edata == Max({prog.base} \cup ends(loaded \ zero))
  IN
  /\ pc = "symbols"
  /\ lay' = With([edata |-> edata, end |-> Max({prog.base} \cup ends(loaded)),
                  bss_start |-> IF zero = {} THEN edata ELSE Min({sections[k].addr : k \in zero})])
  /\ pc' = "emit"
  /\ UNCHANGED <<prog, at, builders, bucket, sections, addresses, seg>>

ComputeLayout ==
  \/ PrebuildDynamic \/ RejectHashStyle \/ GroupSection \/ RejectAlignment
  \/ AddSynthetic \/ CountHeaders \/ PlaceReadOnly \/ PlaceExecutable
  \/ OrderWritable \/ PlaceWritable \/ AliasFolded \/ PlaceMeta \/ AssignSlots
  \/ TlsLayout \/ ResolveEntry \/ RejectEntry \/ BuildDynamic
  \/ ProgramHeaders \/ PhdrCountMismatch \/ LinkerSymbols
-----------------------------------------------------------------------------
LaidOut == pc \in {"emit", "done"}

(* What is loaded, as a range of addresses: contributions, slots, and the  *)
(* synthetic sections that have no slots of their own.                     *)
Whole(s) ==
  [lo |-> s.addr, size |-> s.size, perm |-> PermOf(s.flags), off |-> s.off, align |-> s.align,
   bytes |-> ~s.nobits]
Inputs(K) ==
  UNION {{[lo |-> sections[k].addr + p.offset, size |-> p.size, perm |-> PermOf(Sec(p.sec).flags),
           off |-> sections[k].off + p.offset, align |-> Sec(p.sec).align,
           bytes |-> ~Sec(p.sec).nobits] : p \in ToSet(sections[k].parts)} :
         k \in {k \in K : "A" \in sections[k].flags}}
Slots ==
  {[lo |-> s.lo, size |-> s.size, perm |-> s.perm, off |-> s.lo - prog.base, align |-> 1,
    bytes |-> FALSE] : s \in ToSet(lay.slots)}
Tables == {Whole(s) : s \in {s \in ToSet(sections) : s.source \in Synthetic \ {".got", ".plt"}}}
Loaded == Inputs(DOMAIN sections) \cup Slots \cup Tables

Apart(x, y) == x = y \/ x.size = 0 \/ y.size = 0 \/ x.lo + x.size <= y.lo \/ y.lo + y.size <= x.lo
Loads == {h \in ToSet(lay.segments) : h.type = "LOAD"}
PermOfLoad(h) == IF "X" \in h.flags THEN "rx" ELSE IF "W" \in h.flags THEN "rw" ELSE "ro"
Page(v) == v \div PageSize
MappedBy(x, h) ==
  /\ h.va <= x.lo /\ x.lo + x.size <= h.va + h.memsz
  /\ PermOfLoad(h) = x.perm
  /\ x.bytes => x.lo + x.size <= h.va + h.filesz /\ x.off - h.off = x.lo - h.va

(* The loader makes the whole pages of PT_GNU_RELRO read-only once it has  *)
(* relocated the program: no page of them holds anything writable that is  *)
(* not one of the RELRO sections ("the round-down bleeds into .data's last *)
(* page", lib.rs).                                                         *)
RelroSafe ==
  LaidOut =>
    \A h \in {h \in ToSet(lay.segments) : h.type = "RELRO"} : \A s \in ToSet(sections) :
      {"A", "W"} \subseteq s.flags /\ ~IsRelro(s) /\ s.size > 0 =>
        \/ Page(s.addr + s.size - 1) < Page(h.va)
        \/ Page(h.va + h.memsz) <= Page(s.addr)

(* Loadable segments are where a page of the file can be mapped and share  *)
(* no page; the output sections that are loaded share no byte, each is     *)
(* aligned and lies in a segment with its own permissions, and its bytes   *)
(* come from where the file has them.                                      *)
LoadsSound ==
  LaidOut =>
    LET loaded == Where(LAMBDA s : "A" \in s.flags) IN
    /\ \A h \in Loads : h.va % PageSize = h.off % PageSize
    /\ \A g, h \in Loads : g = h \/ Page(g.va + g.memsz - 1) < Page(h.va)
                               \/ Page(h.va + h.memsz - 1) < Page(g.va)
    /\ \A k \in loaded : LET x == Whole(sections[k]) IN
         /\ x.align = 0 \/ x.lo % x.align = 0
         /\ \E h \in Loads : MappedBy(x, h)
    /\ \A j, k \in loaded : j = k \/ sections[j].addr + sections[j].size <= sections[k].addr
                                 \/ sections[k].addr + sections[k].size <= sections[j].addr

(* What the loader maps and what it protects later are right: both decide  *)
(* about whole pages, the layout about sections.                           *)
SegmentsSound == LoadsSound /\ RelroSafe

(* The loaded program has everything once, in place: two things that have  *)
(* an address never share a byte, each is aligned as it asked and lies in  *)
(* a segment with its own permissions, its bytes come from where the file  *)
(* has them, and every live section that holds a symbol has an address, a  *)
(* folded one that of its copy.                                            *)
ImageSound ==
  LaidOut =>
    /\ Cardinality(Slots) = Len(lay.slots)
    /\ \A x, y \in Loaded : Apart(x, y)
    /\ \A x \in Loaded : /\ x.align = 0 \/ x.lo % x.align = 0
                         /\ x.size > 0 => \E h \in Loads : MappedBy(x, h)
    /\ \A i \in Secs : /\ IsAllocatable(Sec(i)) /\ Sec(i).live /\ Sec(i).anchored /\ Sec(i).canon = 0
                         => i \in DOMAIN addresses
                       /\ Sec(i).canon \in DOMAIN addresses => addresses[i] = addresses[Sec(i).canon]

(* What is counted before there are addresses is what is built after:      *)
(* .dynamic is exactly full, and the program headers have the predicted    *)
(* number, unless all thread-local sections are empty ("the reserved       *)
(* program-header count MUST equal the number of segments emitted").       *)
CountsExact ==
  /\ LaidOut /\ prog.dynamic => 16 * Len(lay.tags) = sections[Min(FindSource(".dynamic"))].size
  /\ lay.error = "phdr_count" =>
       \A s \in ToSet(sections) : IsTls(s) => s.size = 0

(* Thread-local variables: the offset in the block that code uses, the     *)
(* place in the template the loader copies, and the value in .symtab are   *)
(* one number, and it is aligned; any other symbol has its address there.  *)
(* Only where .tdata is the last writable section before .tbss, which its  *)
(* name must bring about, and .symtab only for a symbol whose section is   *)
(* thread-local exactly if the one behind it is.                           *)
TdataLast ==
  LET rw == bucket["rw"] IN
  \A k \in DOMAIN rw : rw[k].kind = "Tdata" => k = Len(rw)
InTls(y) == y.sec # 0 /\ "T" \in Sec(y.sec).flags
TlsAgrees ==
  LaidOut /\ TdataLast =>
    /\ \A o \in lay.tls.offsets :
         /\ o[2] = addresses[o[1]] - TlsBase
         /\ Sec(o[1]).align > 0 => o[2] % Sec(o[1]).align = 0
         /\ o[2] + Sec(o[1]).size <= lay.tls_size
         /\ ~Sec(o[1]).nobits => o[2] + Sec(o[1]).size <= lay.tls.filesz
    /\ \A y \in ToSet(lay.symtab) : y.sec # 0 /\ (InTls(y) <=> IsTlsSymbol(y)) =>
         IF InTls(y) THEN \E o \in lay.tls.offsets : o[1] = y.sec /\ y.value = o[2] + y.offset
         ELSE y.value = addresses[y.sec] + y.offset

(* The loader finds in the hash table exactly the exports and the copied   *)
(* imports, each once, and every import's version index leads to the       *)
(* library and version the import was resolved to.                         *)
LoaderFinds ==
  LaidOut /\ prog.dynamic =>
    LET d == prog.dyn IN
    /\ \A i \in DOMAIN DynSyms(d) :
         Found(d, DynSyms(d)[i]) = IF i \in Copied(d) \cup Exported(d) THEN {i} ELSE {}
    /\ \A i \in Versioned(d) : \E v \in Verneed(d) :
         /\ v.other = Versym(d)[i] /\ v.lib = d.imports[i].lib /\ v.ver = d.imports[i].ver
         /\ \A w \in Verneed(d) : w.other = v.other => w = v
=============================================================================
