----------------------------- MODULE LinkImage -----------------------------
(***************************************************************************)
(* What a link produces, as far as an incremental relink can tell two      *)
(* links apart.  An input file contributes a chunk of bytes to some output *)
(* sections, exports one symbol and refers to the symbols of other files   *)
(* and to its own chunks.  A layout places the chunks; the image on disk   *)
(* is the relocated bytes of every chunk, and a header part (ELF and       *)
(* section headers, symbol table, GOT, dynamic relocations) that depends   *)
(* on the layout and the symbol addresses alone.                           *)
(*                                                                         *)
(* A file's content is a record                                            *)
(*   size[s]   bytes it contributes to section s (0: nothing)              *)
(*   body[s]   the bytes themselves, as a version                          *)
(*   off       where its exported symbol lies in its section 1             *)
(*   refs[s]   files whose symbol its section s refers to by name          *)
(*   lrefs[s]  sections of its own that its section s refers to, through   *)
(*             local symbols                                               *)
(*   simple    all its relocations are in the list of reloc_apply_simple   *)
(* Hashes are taken to be injective: a digest is the tuple it hashes.      *)
(***************************************************************************)
EXTENDS Naturals, Functions

CONSTANTS
  NumInputs,      \* the inputs of the link are 1..NumInputs, in link order
  Plain,          \* inputs that are plain objects; the others are archives,
                  \* shared libraries and scripts
  NumSections,    \* output sections 1..NumSections, in file order
  AllocSections,  \* those with SHF_ALLOC; the rest are debug and metadata
  Versions,       \* Versions[f]: the contents file f may have
  First,          \* First[f]: the content it has to begin with
  Args,           \* output-affecting command lines
  GcArgs,         \* those with --gc-sections or --icf
  Controls,       \* contents of the linker and version scripts
  NoChunk         \* a chunk nothing has been written to

Files == 1..NumInputs
Sections == 1..NumSections

(* One content for every input: what a link reads.                         *)
AllVersions == UNION {Versions[f] : f \in Files}

Reading == {cs \in [Files -> AllVersions] : \A f \in Files : cs[f] \in Versions[f]}

ASSUME ImageAssumption ==
  /\ NumInputs \in Nat /\ NumSections \in Nat
  /\ Plain \subseteq Files
  /\ AllocSections \subseteq Sections
  /\ GcArgs \subseteq Args
  /\ First \in Reading
  /\ \A f \in Files : \A c \in Versions[f] : \A s \in Sections :
       c.size[s] \in Nat /\ c.refs[s] \subseteq Files
-----------------------------------------------------------------------------
(* compute_layout: contributions are concatenated in input order, sections *)
(* follow one another.                                                     *)
SectionSize(cs, s) == SumFunction([f \in Files |-> cs[f].size[s]])

SectionBase(cs, s) == SumFunction([t \in 1..(s - 1) |-> SectionSize(cs, t)])

Place(cs, f, s) ==
  SectionBase(cs, s) + SumFunction([g \in 1..(f - 1) |-> cs[g].size[s]])

(* What the synthetic sections are made from: symbol table, GOT and PLT    *)
(* slots, dynamic relocations.                                             *)
Demand(c) == [off |-> c.off, refs |-> c.refs, lrefs |-> c.lrefs, simple |-> c.simple]

Layout(a, k, cs) ==
  [args    |-> a,
   control |-> k,
   base    |-> [s \in Sections |-> SectionBase(cs, s)],
   size    |-> [s \in Sections |-> SectionSize(cs, s)],
   at      |-> [f \in Files |-> [s \in Sections |-> Place(cs, f, s)]],
   demand  |-> [f \in Files |-> Demand(cs[f])]]

FileSize(l) == SumFunction(l.size)

(* Arithmetic of sums, which TLC evaluates for the contents of each        *)
(* instance: two sums over the same index set are equal and one of them    *)
(* has each term of the other or 0, so they have the same terms.           *)
ASSUME SumAssumption ==
  \A cs, ds \in Reading :
    /\ \A s \in Sections : SectionSize(cs, s) \in Nat
    /\ \A s \in Sections :
         /\ SectionSize(cs, s) = SectionSize(ds, s)
         /\ \A f \in Files : cs[f].size[s] \in {0, ds[f].size[s]}
         => \A f \in Files : cs[f].size[s] = ds[f].size[s]
    /\ /\ SumFunction([s \in Sections |-> SectionSize(cs, s)])
             = SumFunction([s \in Sections |-> SectionSize(ds, s)])
       /\ \A s \in Sections : SectionSize(cs, s) \in {0, SectionSize(ds, s)}
       => \A s \in Sections : SectionSize(cs, s) = SectionSize(ds, s)

(* finalize_symbols: where each file's exported symbol ends up.            *)
SymbolAddresses(l, cs) == [f \in Files |-> l.at[f][1] + cs[f].off]

(* The bytes of one chunk after relocation: its own bytes, its address     *)
(* (relocations are PC relative) and the addresses it refers to.           *)
Chunk(l, syms, cs, f, s) ==
  IF cs[f].size[s] = 0 THEN NoChunk
  ELSE [body  |-> cs[f].body[s],
        size  |-> cs[f].size[s],
        at    |-> l.at[f][s],
        refs  |-> [g \in cs[f].refs[s] |-> syms[g]],
        lrefs |-> [t \in cs[f].lrefs[s] |-> l.at[f][t]]]

Places == Files \X Sections

(* emit_full.                                                              *)
EmitFull(l, syms, cs) ==
  [head  |-> [layout |-> l, syms |-> syms],
   bytes |-> [p \in Places |-> Chunk(l, syms, cs, p[1], p[2])]]

(* What a link from nothing writes: the reference for every relink.        *)
FullLink(a, k, cs) ==
  LET l == Layout(a, k, cs) IN EmitFull(l, SymbolAddresses(l, cs), cs)

(* emit_partial_objects: only the chunks of the changed files, nothing of  *)
(* the header part.                                                        *)
EmitObjects(image, l, syms, cs, changed) ==
  [head  |-> image.head,
   bytes |-> [p \in Places |-> IF p[1] \in changed THEN Chunk(l, syms, cs, p[1], p[2])
                                                   ELSE image.bytes[p]]]

(* The same over the symbol view rebuilt from the manifest, which holds    *)
(* addresses only: relocations other than the simple ones (TLS, PLT, copy  *)
(* relocations) cannot be applied from it.                                 *)
EmitFromView(image, l, syms, cs, changed) ==
  LET usable == {f \in changed : cs[f].simple}
      full   == EmitObjects(image, l, syms, cs, usable)
  IN [full EXCEPT !.bytes = [p \in Places |-> IF p[1] \in changed \ usable THEN NoChunk
                                                                       ELSE @[p]]]

(* emit_partial: the header part, and every chunk of the red sections.     *)
EmitRed(image, l, syms, cs, red) ==
  [head  |-> [layout |-> l, syms |-> syms],
   bytes |-> [p \in Places |-> IF p[2] \in red THEN Chunk(l, syms, cs, p[1], p[2])
                                               ELSE image.bytes[p]]]
-----------------------------------------------------------------------------
(* object_layout_digest skips sections that are not allocatable and the    *)
(* bytes of ordinary sections.                                             *)
Digest(c) == [size |-> [s \in AllocSections |-> c.size[s]], demand |-> Demand(c)]

(* compute_layout_fingerprint: flags, object set, symbol numbering and slot*)
(* order, all of it a function of the flags and the digests.               *)
DriversHash(a, digests) == [args |-> a, digests |-> digests]

(* --gc-sections and --icf keep the front-end snapshot out.                *)
Eligible(a) == a \notin GcArgs

(* section_records: allocatable sections only.                             *)
SectionRecords(l) ==
  [s \in AllocSections |-> [file_offset |-> l.base[s], size |-> l.size[s]]]

(* The tests of plan_partial_relink: there are sections on both sides, and *)
(* every current one lies where the recorded one lay.  A section that has  *)
(* gone is not looked for.                                                 *)
SectionsInPlace(recorded, current) ==
  /\ \E s \in AllocSections : current[s].size > 0
  /\ \A s \in AllocSections : current[s].size > 0 => recorded[s] = current[s]

(* moved_symbol_ids compares recorded and current addresses by name.       *)
Moved(recorded, syms) == {f \in Files : recorded[f] # syms[f]}

(* Bug: symbols that moved are forgotten.                                  *)
RedSectionsOfChanged(cs, changed, moved) ==
  {s \in AllocSections : \E f \in changed : cs[f].size[s] > 0}

(* The red sections of plan_partial_relink: a changed input contributes to *)
(* them, or one of their relocations names a symbol that moved.  The       *)
(* reverse index has no entry for local symbols.                           *)
RedSections(cs, changed, moved) ==
  {s \in AllocSections :
     \E f \in Files : \/ f \in changed /\ cs[f].size[s] > 0
                      \/ cs[f].refs[s] \cap moved # {}}
=============================================================================
