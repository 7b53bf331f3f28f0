---------------------------- MODULE RelocPasses ----------------------------
(***************************************************************************)
(* The relocation passes of one link (main.rs from the scan on,            *)
(* peony-reloc, and the parts of peony-layout and peony-emit that hold     *)
(* what the scan asked for).  Slots and dynamic relocations are counted    *)
(* before layout, filled after it, and used by apply_reloc; symbols change *)
(* between those passes (copy relocations, provided symbols, --defsym).    *)
(* The question is whether every relocated place designates, once the      *)
(* program is loaded, what its relocation says.                            *)
(*                                                                         *)
(* Addresses are symbolic: Here(s) is the place the output gives s,        *)
(* There(s) the definition in a shared library.  A program is a record     *)
(*   shared, pie, no_undefined   -shared, -pie, -z defs                    *)
(*   interp  a dynamic section is asked for: by an interpreter, a needed   *)
(*           library, an rpath or exports                                  *)
(*   sites   sites[i]: relocation type, symbol and section of relocation i *)
(*   attr    attr[s]: what the inputs say of symbol s                      *)
(*     bind    "local", "global" or "weak"                                 *)
(*     def     "section", "tls", "abs", or "none": not in any object       *)
(*     placed  its section is part of the output                           *)
(*     import, ifunc, helper (it is __tls_get_addr)                        *)
(*     copyable   a visible sized data object, no C++ vtable               *)
(*     late    "provided", "defsym" or "no": defined after the scan        *)
(***************************************************************************)
EXTENDS Naturals, FiniteSets, FiniteSetsExt

CONSTANTS
  Programs,   \* the programs considered
  NoId        \* SymbolId(u32::MAX), the id of a name nobody defines

(* Relocation types that behave alike stand together: GOT is GOTPCREL,     *)
(* GOTPCRELX, REX_GOTPCRELX and GOT32; PC32 and R32 stand for all widths;  *)
(* TLSDESC is GOTPC32_TLSDESC with its call marker.                        *)
TlsTypes == {"TPOFF", "DTPOFF", "TLSGD", "TLSLD", "GOTTPOFF", "TLSDESC"}
CopyTypes == {"R64", "R32", "PC32"}
Types == TlsTypes \cup CopyTypes \cup {"PLT32", "GOT"}

(* Read-only, writable, not allocated, and the first two where garbage     *)
(* collection or COMDAT selection dropped them.                            *)
SectionKinds == {"text", "data", "debug", "deadtext", "deaddata"}

Code == {"text", "deadtext"}

(* What the inputs and merge_symbol leave of a symbol.                     *)
IsSymbol(a) ==
  /\ a.bind \in {"local", "global", "weak"}
  /\ a.def \in {"section", "tls", "abs", "none"}
  /\ a.late \in {"provided", "defsym", "no"}
  /\ {a.placed, a.import, a.ifunc, a.helper, a.copyable} \subseteq BOOLEAN
  /\ a.bind = "local" => a.def # "none"
  /\ a.def # "none" => ~a.import /\ ~a.helper /\ a.late = "no"
  /\ a.import => a.late = "no"
  /\ a.ifunc => a.def = "section" /\ a.bind # "local" /\ a.placed
  /\ a.copyable => a.import
  /\ ~a.placed => a.def \in {"section", "tls"}

(* The references compilers and assemblers produce for an output of the    *)
(* kind p: code that is meant to be position independent has no absolute   *)
(* words, what is kept does not refer to what is dropped, an undefined     *)
(* weak function is called behind a test only.                             *)
IsReference(p, a, t, sec) ==
  LET dyn == p.shared \/ p.pie
      nothing == a.def = "none" /\ ~a.import /\ a.late = "no"
  IN
  /\ t \in Types /\ sec \in SectionKinds
  /\ IF t \in TlsTypes THEN a.def = "tls" \/ (a.import /\ ~a.copyable) ELSE a.def # "tls"
  /\ a.helper => t = "PLT32" \/ (t = "GOT" /\ a.import)
  /\ t = "R64" => sec \notin Code \/ ~dyn
  /\ t = "R32" => sec \in Code /\ ~dyn
  /\ t \in {"PC32", "PLT32", "GOT"} => sec \in Code
  /\ t \in TlsTypes => sec \in Code \/ (t = "DTPOFF" /\ sec = "debug")
  /\ ~a.placed => sec \in {"deadtext", "deaddata"} \/ (a.bind = "local" /\ a.def = "section")
  /\ t = "TPOFF" => ~p.shared /\ ~a.import
  /\ t = "DTPOFF" => ~a.import
  /\ sec = "debug" => a.def \in {"section", "tls"} /\ ~a.ifunc
  /\ t = "PC32" /\ dyn => a.def # "abs" /\ ~a.import /\ a.late # "defsym"
  /\ t \in {"PC32", "PLT32"} /\ dyn => ~(nothing /\ a.bind = "weak")
  /\ t = "PLT32" => a.def \in {"section", "none"} /\ a.late = "no" /\ ~a.copyable

ASSUME ProgramsAssumption ==
  \A p \in Programs :
    /\ {p.shared, p.pie, p.interp, p.no_undefined} \subseteq BOOLEAN
    /\ IsFiniteSet(DOMAIN p.sites) /\ IsFiniteSet(DOMAIN p.attr)
    /\ NoId \notin DOMAIN p.attr
    /\ \A s \in DOMAIN p.attr : IsSymbol(p.attr[s])
    /\ \A i \in DOMAIN p.sites :
         /\ p.sites[i].sym \in DOMAIN p.attr
         /\ IsReference(p, p.attr[p.sites[i].sym], p.sites[i].type, p.sites[i].sec)

VARIABLES
  prog,     \* the program being linked, never changes
  pc,       \* the next pass
  table,    \* SymbolTable: resolutions of the symbols that are not local
  slots,    \* RelocScanResult.slots
  count,    \* DynamicRelocCounts
  layout,   \* what compute_layout reserved, and the GOT's static contents
  rela,     \* .rela.dyn and .rela.plt
  field     \* field[i]: what apply_reloc wrote at site i

vars == <<prog, pc, table, slots, count, layout, rela, field>>

Sites == DOMAIN prog.sites
TypeOf(i) == prog.sites[i].type
Sym(i) == prog.sites[i].sym
Attr(i) == prog.attr[Sym(i)]
Alloc(i) == prog.sites[i].sec # "debug"
Writable(i) == prog.sites[i].sec \in {"data", "deaddata"}
SitePlaced(i) == prog.sites[i].sec \notin {"deadtext", "deaddata"}
Local(s) == prog.attr[s].bind = "local"
Globals == {s \in DOMAIN prog.attr : ~Local(s)}
EtDyn == prog.pie \/ prog.shared

(* What an address can be.  Null is 0; Junk is no address of anything.     *)
Null == <<"null">>
Junk == <<"junk">>
Here(s) == <<"here", s>>
There(s) == <<"there", s>>
Const(s) == <<"const", s>>
Chosen(s) == <<"chosen", s>>       \* what the resolver of IFUNC s returns
Thread(s) == <<"thread", s>>       \* the calling thread's copy of s
TpOffset(s) == <<"tpoff", s>>      \* offset of s from the thread pointer
DtpOffset(s) == <<"dtpoff", s>>    \* offset of s in its module's block
Slot(tag, r) == <<"slot", tag, r>>

(* merge_symbol and the loading of libraries leave this.                   *)
Loaded(s) ==
  [id   |-> IF prog.attr[s].def # "none" \/ prog.attr[s].import THEN s ELSE NoId,
   defined_in |-> prog.attr[s].def # "none",
   copy_reloc |-> FALSE, dynsym |-> FALSE,
   va |-> Null, got |-> Null, plt |-> Null]

Init ==
  /\ prog \in Programs
  /\ pc = "weak_ids"
  /\ table = [s \in Globals |-> Loaded(s)]
  /\ slots = {}
  /\ count = [relative_total |-> 0, symbolic_data |-> 0, tls |-> 0]
  /\ layout = [cap |-> 0, glob_dat |-> {}, copies |-> {}, plt |-> {}, writes |-> {}]
  /\ rela = {}
  /\ field = [i \in Sites |-> Null]

IsDefined(s) == table[s].defined_in \/ prog.attr[s].import
NotCopied(s) == prog.attr[s].import /\ ~table[s].copy_reloc
IfuncHere(s) == prog.attr[s].ifunc /\ IsDefined(s) /\ ~prog.attr[s].import
-----------------------------------------------------------------------------
(* Bug: undefined weak symbols keep the placeholder id.                    *)
AssignWeakGotIdsNone ==
  /\ pc = "weak_ids"
  /\ pc' = "scan"
  /\ UNCHANGED <<prog, table, slots, count, layout, rela, field>>

(* assign_weak_got_ids.                                                    *)
AssignWeakGotIds ==
  /\ pc = "weak_ids"
  /\ table' = [s \in Globals |->
       IF \E i \in Sites : /\ Sym(i) = s /\ TypeOf(i) = "GOT"
                           /\ Attr(i).bind = "weak" /\ ~IsDefined(s)
       THEN [table[s] EXCEPT !.id = s] ELSE table[s]]
  /\ pc' = "scan"
  /\ UNCHANGED <<prog, slots, count, layout, rela, field>>

(* scan_object for one relocation.  A local finds no resolution (at best   *)
(* that of a global of its name, whose extra slot nobody uses).            *)
TlsRef(s) == IF Local(s) THEN s ELSE table[s].id

ScanObject(i) ==
  LET s == Sym(i)
      t == TypeOf(i)
  IN
  CASE t = "GOTTPOFF" -> {Slot("TlsIe", TlsRef(s))}
    [] t \in {"TLSGD", "TLSDESC"} /\ ~prog.shared ->
         IF ~Local(s) /\ Attr(i).import THEN {Slot("TlsIe", TlsRef(s))} ELSE {}
    [] t = "TLSGD" /\ prog.shared -> {Slot("TlsGd", TlsRef(s))}
    [] t = "TLSLD" /\ prog.shared -> {Slot("TlsLdm", NoId)}
    [] t = "TLSDESC" /\ prog.shared -> {Slot("TlsDesc", TlsRef(s))}
    [] t = "GOT" /\ ~Local(s) ->
         IF IsDefined(s) \/ Attr(i).bind = "weak" THEN {Slot("Got", table[s].id)} ELSE {}
    [] t = "PLT32" /\ ~Local(s) ->
         IF \/ Attr(i).import /\ (prog.shared \/ ~Attr(i).helper)
            \/ IfuncHere(s)
         THEN {Slot("Plt", table[s].id)} ELSE {}
    [] OTHER -> {}

ScanRelocations ==
  /\ pc = "scan"
  /\ slots' = UNION {ScanObject(i) : i \in Sites}
  /\ pc' = "copy"
  /\ UNCHANGED <<prog, table, count, layout, rela, field>>

(* The symbols (or TLS references) that have a slot of a kind.             *)
Refs(tag) == {r \in DOMAIN prog.attr \cup {NoId} : Slot(tag, r) \in slots}

(* got_symbols whose id has a name.                                        *)
GotSyms == Refs("Got") \ {NoId}
PltSyms == Refs("Plt") \ {NoId}
NoTlsSlots == \A tag \in {"TlsGd", "TlsIe", "TlsLdm", "TlsDesc"} : Refs(tag) = {}

(* copy_reloc_symbols, and mark_copy_reloc for each.                       *)
NeedsCopy(i) ==
  /\ Alloc(i) /\ ~Writable(i)
  /\ TypeOf(i) \in CopyTypes
  /\ ~Local(Sym(i)) /\ Attr(i).import /\ Attr(i).copyable

MarkCopyRelocs ==
  /\ pc = "copy"
  /\ table' = [s \in Globals |->
       [table[s] EXCEPT !.copy_reloc =
          ~prog.shared /\ \E i \in Sites : Sym(i) = s /\ NeedsCopy(i)]]
  /\ pc' = "count"
  /\ UNCHANGED <<prog, slots, count, layout, rela, field>>

(* The imports get their .dynsym indices; a dynamic section is made for    *)
(* any of them, for ET_DYN, and on request.                                *)
Imports == {s \in Globals : prog.attr[s].import}
Dynamic == Imports # {} \/ EtDyn \/ prog.interp

(* count_dynamic_relocs looks at every allocated section, dropped or not.  *)
CountsRelative(i) ==
  /\ Alloc(i) /\ TypeOf(i) = "R64"
  /\ IF Local(Sym(i)) THEN Attr(i).def = "section"
     ELSE IsDefined(Sym(i)) /\ ~NotCopied(Sym(i))

CountsSymbolic(i) ==
  Alloc(i) /\ TypeOf(i) = "R64" /\ ~Local(Sym(i)) /\ NotCopied(Sym(i))

CountGotRelative == {s \in GotSyms : IsDefined(s) /\ ~NotCopied(s)}

(* Bug: an imported General-Dynamic pair is taken for one relocation.      *)
CountTlsRelocsSingle ==
  IF ~prog.shared THEN Cardinality(Refs("TlsIe"))
  ELSE Cardinality(Refs("TlsGd")) + Cardinality(Refs("TlsDesc"))
         + Cardinality(Refs("TlsIe")) + Cardinality(Refs("TlsLdm"))

(* count_tls_relocs.                                                       *)
CountTlsRelocs ==
  IF ~prog.shared THEN Cardinality(Refs("TlsIe"))
  ELSE LET imported == {r \in Refs("TlsGd") : r = NoId \/ (~Local(r) /\ ~table[r].defined_in)} IN
       Cardinality(Refs("TlsGd")) + Cardinality(imported) + Cardinality(Refs("TlsDesc"))
         + Cardinality(Refs("TlsIe")) + Cardinality(Refs("TlsLdm"))

CountDynamicRelocs ==
  /\ pc = "count"
  /\ table' = [s \in Globals |-> [table[s] EXCEPT !.dynsym = prog.attr[s].import]]
  /\ count' =
       [relative_total |-> IF EtDyn THEN Cardinality({i \in Sites : CountsRelative(i)})
                                         + Cardinality(CountGotRelative) ELSE 0,
        symbolic_data  |-> IF EtDyn THEN Cardinality({i \in Sites : CountsSymbolic(i)}) ELSE 0,
        tls            |-> IF EtDyn \/ Imports # {} THEN CountTlsRelocs ELSE 0]
  /\ pc' = "provide"
  /\ UNCHANGED <<prog, slots, layout, rela, field>>

(* predefine_linker_symbols defines what the inputs refer to and do not    *)
(* define; apply_defsym defines in any case.                               *)
PredefineAndDefsym ==
  /\ pc = "provide"
  /\ table' = [s \in Globals |->
       [table[s] EXCEPT !.defined_in = @ \/ prog.attr[s].late # "no"]]
  /\ pc' = "layout"
  /\ UNCHANGED <<prog, slots, count, layout, rela, field>>
-----------------------------------------------------------------------------
(* The words of the output the loader may be told to write.                *)
SiteWord(i) == <<"site", i>>
Second(w) == <<"second", w>>     \* the second word of a pair

Entry(w, type, value) == [at |-> w, type |-> type, value |-> value]

(* The GOT slots of imports, and the copies in .bss.                       *)
GlobDat == {s \in GotSyms : NotCopied(s)}
Copies == {s \in Globals : table[s].copy_reloc}

(* The size of .rela.dyn, in entries.                                      *)
RelaDynSize == Cardinality(GlobDat) + Cardinality(Copies)
                 + count.relative_total + count.tls + count.symbolic_data

(* .rela.plt.                                                              *)
PltEntries ==
  {Entry(Slot("Plt", s), IF IfuncHere(s) THEN "IRELATIVE" ELSE "SYMBOL", s) : s \in PltSyms}

(* compute_layout: room for .rela.dyn, the entries it can make at once.    *)
(* A static output has no PLT, though the scan may have asked for one.     *)
ComputeLayout ==
  /\ pc = "layout"
  /\ layout' = IF Dynamic
               THEN [cap |-> RelaDynSize,
                     glob_dat |-> {Entry(Slot("Got", s), "SYMBOL", s) : s \in GlobDat},
                     copies |-> {Entry(Here(s), "COPY", s) : s \in Copies},
                     plt |-> PltEntries, writes |-> {}]
               ELSE layout
  /\ pc' = "finalize"
  /\ UNCHANGED <<prog, table, slots, count, rela, field>>

(* set_linker_addresses and finalize_symbols.                              *)
VirtualAddress(s) ==
  CASE table[s].copy_reloc -> Here(s)
    [] prog.attr[s].late = "defsym" -> Const(s)
    [] prog.attr[s].late = "provided" /\ prog.attr[s].def = "none" -> Here(s)
    [] prog.attr[s].def = "abs" -> Const(s)
    [] prog.attr[s].def \in {"section", "tls"} /\ prog.attr[s].placed -> Here(s)
    [] OTHER -> Null

(* The stub of the n-th PLT slot is at plt_base + 16 * n, and plt_base is  *)
(* 0 without a .plt: the address of the first then reads as "no stub".     *)
PltAddress(s, first) ==
  CASE s \notin PltSyms -> Null
    [] s \in PltSyms /\ Dynamic -> Slot("Plt", s)
    [] s \in PltSyms /\ ~Dynamic -> IF s = first THEN Null ELSE Junk

FinalizeSymbols ==
  /\ pc = "finalize"
  /\ \E first \in IF PltSyms = {} THEN {NoId} ELSE PltSyms :
       table' = [s \in Globals |->
         [table[s] EXCEPT !.va = VirtualAddress(s),
                          !.got = IF s \in GotSyms THEN Slot("Got", s) ELSE Null,
                          !.plt = PltAddress(s, first)]]
  /\ pc' = "check"
  /\ UNCHANGED <<prog, slots, count, layout, rela, field>>

(* Bug: the helper of General-Dynamic accesses gets no exemption.          *)
UndefinedWithHelper == {s \in Globals : ~IsDefined(s) /\ prog.attr[s].bind # "weak"}

(* check_undefined.                                                        *)
Undefined ==
  {s \in Globals : ~IsDefined(s) /\ prog.attr[s].bind # "weak" /\ ~prog.attr[s].helper}

CheckUndefined ==
  /\ pc = "check"
  /\ pc' = IF (~prog.shared \/ prog.no_undefined) /\ Undefined # {} THEN "failed" ELSE "collect"
  /\ UNCHANGED <<prog, table, slots, count, layout, rela, field>>
-----------------------------------------------------------------------------
(* collect_data_and_symbolic_relocs: allocated R64 sites that are in the   *)
(* output, and the GOT slots of what is defined here.                      *)
DataSites == {i \in Sites : Alloc(i) /\ SitePlaced(i) /\ TypeOf(i) = "R64"}

InImage(s) == IsDefined(s) /\ ~NotCopied(s)

(* Bug: GOT slots of imports are relocated here too.                       *)
CollectGotAll == GotSyms

CollectGot == {s \in GotSyms : InImage(s)}

(* The address a site refers to, where it has one to bias.                 *)
Biased(i) ==
  IF Local(Sym(i)) THEN Attr(i).def = "section" /\ Attr(i).placed ELSE InImage(Sym(i))

Target(s) == IF Local(s) THEN Here(s) ELSE table[s].va

Relative ==
  {Entry(SiteWord(i), "RELATIVE", Target(Sym(i))) :
       i \in {j \in DataSites : Biased(j) /\ ~Attr(j).ifunc}}
  \cup {Entry(Slot("Got", s), "RELATIVE", table[s].va) :
       s \in {r \in CollectGot : ~prog.attr[r].ifunc}}

Irelative ==
  {Entry(SiteWord(i), "IRELATIVE", Sym(i)) :
       i \in {j \in DataSites : Biased(j) /\ Attr(j).ifunc}}
  \cup {Entry(Slot("Got", s), "IRELATIVE", s) :
       s \in {r \in CollectGot : prog.attr[r].ifunc}}

Symbolic ==
  {Entry(SiteWord(i), "SYMBOL", Sym(i)) :
       i \in {j \in DataSites : ~Local(Sym(j)) /\ NotCopied(Sym(j)) /\ table[Sym(j)].dynsym}}

(* collect_tls_got.  tls_ref_offset takes what has no place of its own in  *)
(* the TLS block for imported.                                             *)
TlsHere(r) == r # NoId /\ prog.attr[r].def = "tls" /\ prog.attr[r].placed
TlsSymbol(r) == IF TlsHere(r) THEN DtpOffset(r) ELSE r

TlsEntries ==
  (IF ~prog.shared THEN {}
   ELSE {Entry(Slot("TlsGd", r), "DTPMOD64", TlsSymbol(r)) : r \in Refs("TlsGd")}
        \cup {Entry(Second(Slot("TlsGd", r)), "DTPOFF64", r) :
                r \in {q \in Refs("TlsGd") : ~TlsHere(q)}}
        \cup {Entry(Slot("TlsDesc", r), "TLSDESC", TlsSymbol(r)) : r \in Refs("TlsDesc")}
        \cup {Entry(Slot("TlsLdm", r), "DTPMOD64", DtpOffset(r)) : r \in Refs("TlsLdm")})
  \cup {Entry(Slot("TlsIe", r), "TPOFF64", TlsSymbol(r)) :
          r \in {q \in Refs("TlsIe") : prog.shared \/ ~TlsHere(q)}}

(* The words written at link time.                                         *)
TlsWrites ==
  IF prog.shared
  THEN {[at |-> Second(Slot("TlsGd", r)), value |-> DtpOffset(r)] :
          r \in {q \in Refs("TlsGd") : TlsHere(q)}}
  ELSE {[at |-> Slot("TlsIe", r), value |-> TpOffset(r)] :
          r \in {q \in Refs("TlsIe") : TlsHere(q)}}

(* One list is appended while there is room for it.                        *)
Fits(list, room, kept) ==
  kept \subseteq list /\ Cardinality(kept) = Min({Cardinality(list), room})

(* append_all_dynamic_relocs: GLOB_DAT and COPY have their room, the other *)
(* lists share the rest in this order.  Which entries of a list are        *)
(* dropped depends on addresses, hence is left open.                       *)
AppendDynamicRelocs ==
  /\ pc = "collect"
  /\ LET room == layout.cap - Cardinality(layout.glob_dat) - Cardinality(layout.copies)
         relative == IF EtDyn THEN Relative ELSE {}
         irelative == IF EtDyn THEN Irelative ELSE {}
         symbolic == IF EtDyn THEN Symbolic ELSE {}
     IN IF Dynamic
        THEN \E r \in SUBSET relative, ir \in SUBSET irelative,
                tl \in SUBSET TlsEntries, sy \in SUBSET symbolic :
               /\ Fits(relative, room, r)
               /\ Fits(irelative, room - Cardinality(r), ir)
               /\ Fits(TlsEntries, room - Cardinality(r \cup ir), tl)
               /\ Fits(symbolic, room - Cardinality(r \cup ir \cup tl), sy)
               /\ rela' = r \cup ir \cup tl \cup sy
                            \cup layout.glob_dat \cup layout.copies \cup layout.plt
               /\ layout' = [layout EXCEPT !.writes = TlsWrites]
        ELSE UNCHANGED <<rela, layout>>
  /\ pc' = "apply"
  /\ UNCHANGED <<prog, table, slots, count, field>>
-----------------------------------------------------------------------------
(* apply_reloc for one site: sections are written in parallel, so in any   *)
(* order.  A reference in an executable to the helper of a relaxed access  *)
(* and one to a local whose section is gone are skipped.                   *)
Skipped(i) ==
  \/ ~prog.shared /\ TypeOf(i) \in {"PLT32", "PC32"} /\ Attr(i).helper
  \/ Local(Sym(i)) /\ Attr(i).def \in {"section", "tls"} /\ ~Attr(i).placed

Unresolved(i) == ~Local(Sym(i)) /\ ~IsDefined(Sym(i)) /\ Attr(i).bind # "weak"

(* S, G and L of resolve_reloc_action.                                     *)
S(i) == IF Local(Sym(i)) THEN IF Attr(i).def = "abs" THEN Const(Sym(i)) ELSE Here(Sym(i))
        ELSE table[Sym(i)].va
G(i) == IF Local(Sym(i)) THEN Null ELSE table[Sym(i)].got

(* Bug: a PLT32 reference always resolves directly.                        *)
LNone(i) == Null

L(i) == IF Local(Sym(i)) \/ ~IsDefined(Sym(i)) THEN Null ELSE table[Sym(i)].plt

(* The slot of a TLS reference, 0 if the layout has none.                  *)
TlsSlot(tag, r) == IF Slot(tag, r) \in slots THEN Slot(tag, r) ELSE Null

(* Offset of a symbol in the TLS block, 0 if it is not in it.              *)
TlsOffset(s, from) == IF TlsHere(s) THEN from ELSE Junk

(* patch_buf: what the place or the rewritten instructions hold.  An       *)
(* executable turns General-Dynamic and descriptor accesses into           *)
(* Initial-Exec or Local-Exec ones, and Local-Dynamic into Local-Exec.     *)
TpRelative(i) == TlsOffset(Sym(i), TpOffset(Sym(i)))
DtpRelative(i) == IF prog.shared THEN TlsOffset(Sym(i), DtpOffset(Sym(i))) ELSE TpRelative(i)
TlsImported(i) == ~Local(Sym(i)) /\ Attr(i).import /\ ~table[Sym(i)].defined_in
Relaxed(i) == IF TlsImported(i) THEN TlsSlot("TlsIe", TlsRef(Sym(i))) ELSE TpRelative(i)
GeneralDynamic(i) == IF prog.shared THEN TlsSlot("TlsGd", TlsRef(Sym(i))) ELSE Relaxed(i)
LocalDynamic(i) == IF prog.shared THEN TlsSlot("TlsLdm", NoId) ELSE <<"fs:0">>
InitialExec(i) == TlsSlot("TlsIe", TlsRef(Sym(i)))
Descriptor(i) == IF prog.shared THEN TlsSlot("TlsDesc", TlsRef(Sym(i))) ELSE Relaxed(i)

PatchBuf(i) ==
  LET t == TypeOf(i) IN
  CASE t \in {"R64", "R32", "PC32"} -> S(i)
    [] t = "PLT32" -> IF L(i) # Null THEN L(i) ELSE S(i)
    [] t = "GOT" -> G(i)
    [] t = "TPOFF" -> TpRelative(i)
    [] t = "DTPOFF" -> DtpRelative(i)
    [] t = "TLSGD" -> GeneralDynamic(i)
    [] t = "TLSLD" -> LocalDynamic(i)
    [] t = "GOTTPOFF" -> InitialExec(i)
    [] t = "TLSDESC" -> Descriptor(i)

Pending == {i \in Sites : SitePlaced(i) /\ field[i] = Null}

ApplyReloc(i) ==
  /\ pc = "apply"
  /\ SitePlaced(i) /\ field[i] = Null
  /\ \/ /\ Skipped(i)
        /\ field' = [field EXCEPT ![i] = <<"skipped">>]
        /\ UNCHANGED pc
     \/ /\ ~Skipped(i) /\ Unresolved(i)
        /\ pc' = "failed"
        /\ UNCHANGED field
     \/ /\ ~Skipped(i) /\ ~Unresolved(i)
        /\ field' = [field EXCEPT ![i] = <<"is", PatchBuf(i)>>]
        /\ UNCHANGED pc
  /\ UNCHANGED <<prog, table, slots, count, layout, rela>>

Done ==
  /\ pc = "apply"
  /\ Pending = {}
  /\ pc' = "done"
  /\ UNCHANGED <<prog, table, slots, count, layout, rela, field>>

Next ==
  \/ AssignWeakGotIds \/ ScanRelocations \/ MarkCopyRelocs \/ CountDynamicRelocs
  \/ PredefineAndDefsym \/ ComputeLayout \/ FinalizeSymbols \/ CheckUndefined
  \/ AppendDynamicRelocs
  \/ \E i \in Sites : ApplyReloc(i)
  \/ Done

Spec == Init /\ [][Next]_vars
-----------------------------------------------------------------------------
(* The dynamic loader (external), for a load address other than 0 when the *)
(* output is ET_DYN: the value of a word that holds content in the file.   *)

IsCopied(s) == Entry(Here(s), "COPY", s) \in rela

(* What a symbol lookup at run time finds.                                 *)
Definition(s) == IF IsCopied(s) THEN Here(s) ELSE There(s)

Relocated(e) ==
  CASE e.type = "RELATIVE"  -> IF e.value[1] = "here" THEN e.value ELSE Junk
    [] e.type = "IRELATIVE" -> Chosen(e.value)
    [] e.type = "SYMBOL"    -> Definition(e.value)

AtRunTime(w, content) ==
  IF \E e \in rela : e.at = w THEN Relocated(CHOOSE e \in rela : e.at = w)
  ELSE IF EtDyn /\ content[1] = "here" THEN Junk
  ELSE content

(* A displacement to an address of the image moves with the image.         *)
Displaced(v) == IF EtDyn /\ v[1] # "here" THEN Junk ELSE v

(* The variable a TLS slot leads to.                                       *)
Filled(w, types, values) ==
  \/ \E e \in rela : e.at = w /\ e.type \in types /\ e.value \in values
  \/ \E x \in layout.writes : x.at = w /\ x.value \in values

Leads(w, r) ==
  LET vals == {r, DtpOffset(r)} IN
  \/ w = Slot("TlsIe", r) /\ Filled(w, {"TPOFF64"}, vals \cup {TpOffset(r)})
  \/ /\ w = Slot("TlsGd", r)
     /\ Filled(w, {"DTPMOD64"}, vals) /\ Filled(Second(w), {"DTPOFF64"}, vals)
  \/ w = Slot("TlsDesc", r) /\ Filled(w, {"TLSDESC"}, vals)
  \/ ~prog.shared /\ w = TpOffset(r)

(* What site i designates once the program is loaded.                      *)
Designates(i) ==
  LET v == field[i][2]
      t == TypeOf(i)
  IN
  IF field[i][1] = "skipped" THEN <<"skipped">> ELSE
  CASE ~Alloc(i) -> v
    [] Alloc(i) /\ t \in {"R64", "R32"} -> AtRunTime(SiteWord(i), v)
    [] Alloc(i) /\ t = "PC32" -> Displaced(v)
    [] Alloc(i) /\ t = "PLT32" -> IF v[1] = "slot" THEN AtRunTime(v, Null) ELSE Displaced(v)
    [] Alloc(i) /\ t = "GOT" -> IF v[1] = "slot" THEN AtRunTime(v, table[v[3]].va) ELSE Junk
    [] Alloc(i) /\ t = "TLSLD" ->
         IF v[1] = "slot" /\ ~Filled(v, {"DTPMOD64"}, {DtpOffset(NoId)}) THEN Junk ELSE v
    [] Alloc(i) /\ t = "DTPOFF" -> v
    [] Alloc(i) /\ t \in {"TPOFF", "TLSGD", "GOTTPOFF", "TLSDESC"} ->
         IF Leads(v, Sym(i)) THEN Thread(Sym(i)) ELSE Junk

(* What it should designate, by the relocation's meaning alone.            *)
Address(s) ==
  LET a == prog.attr[s] IN
  IF a.ifunc THEN Chosen(s)
  ELSE IF a.late = "defsym" \/ a.def = "abs" THEN Const(s)
  ELSE IF a.late = "provided" \/ a.def = "section" THEN Here(s)
  ELSE IF a.import THEN Definition(s)
  ELSE Null

Meaning(i) ==
  LET s == Sym(i)
      t == TypeOf(i)
  IN
  IF \/ Attr(i).helper /\ ~prog.shared
     \/ Local(s) /\ Attr(i).def # "abs" /\ ~Attr(i).placed
  THEN <<"skipped">> ELSE
  CASE t \notin TlsTypes -> Address(s)
    [] t = "TLSLD" -> IF prog.shared THEN Slot("TlsLdm", NoId) ELSE <<"fs:0">>
    [] t = "DTPOFF" -> IF prog.shared \/ ~Alloc(i) THEN DtpOffset(s) ELSE TpOffset(s)
    [] OTHER -> Thread(s)
-----------------------------------------------------------------------------
(* References the passes do not handle, each with the line that misses it. *)

(* The symbol is defined after the scan and the count (main.rs:579): a     *)
(* strong GOT reference has no slot, and a bias was not counted.           *)
DefinedTooLate(i) ==
  /\ Attr(i).late # "no"
  /\ \/ TypeOf(i) = "GOT" /\ (EtDyn \/ Attr(i).bind # "weak")
     \/ TypeOf(i) = "R64" /\ Alloc(i) /\ SitePlaced(i) /\ EtDyn

(* collect_tls_got takes a TLS symbol that was dropped with its section    *)
(* for an imported one (tls.rs:72 and 111), count_tls_relocs does not      *)
(* (tls.rs:156), nor does the driver without imports (main.rs:465).        *)
DroppedTls(i) ==
  /\ ~Attr(i).placed
  /\ \/ TypeOf(i) = "TLSGD" /\ prog.shared
     \/ TypeOf(i) = "GOTTPOFF" /\ ~EtDyn /\ Imports = {}

(* Both can leave .rela.dyn too small.                                     *)
Undercounted == \E i \in Sites : DefinedTooLate(i) \/ DroppedTls(i)

(* A fixed-address executable emits no symbolic relocations (main.rs:710)  *)
(* and no canonical PLT entries, so a direct reference to what it does not *)
(* copy stays 0.                                                           *)
UncopiedImport(i) ==
  /\ ~EtDyn /\ TypeOf(i) \in CopyTypes /\ Attr(i).import
  /\ ~\E j \in Sites : Sym(j) = Sym(i) /\ NeedsCopy(j)

(* The TLS slots of an output without dynamic section stay 0 (main.rs:705).*)
StaticInitialExec(i) == TypeOf(i) = "GOTTPOFF" /\ ~Dynamic

(* Direct references give the resolver, and without ET_DYN or without a    *)
(* PLT so do indirect ones (main.rs:710, layout lib.rs:2587).              *)
IfuncResolver(i) ==
  /\ Attr(i).ifunc
  /\ \/ TypeOf(i) \in {"PC32", "R32"}
     \/ TypeOf(i) \in {"R64", "GOT"} /\ ~EtDyn
     \/ TypeOf(i) = "PLT32" /\ ~Dynamic

(* A global absolute symbol is biased like an address (dynamic.rs:394).    *)
BiasedConstant(i) ==
  EtDyn /\ Attr(i).def = "abs" /\ ~Local(Sym(i)) /\ TypeOf(i) \in {"R64", "GOT"}

(* Locals have no GOT slots (scan.rs:127).                                 *)
LocalThroughGot(i) == Local(Sym(i)) /\ TypeOf(i) = "GOT"

(* Only a direct call of the helper is skipped (apply.rs:145).             *)
HelperThroughGot(i) == ~prog.shared /\ Attr(i).helper /\ TypeOf(i) = "GOT"

(* Debug information is relaxed like code (apply.rs:409).                  *)
DebugOffset(i) == ~prog.shared /\ TypeOf(i) = "DTPOFF" /\ ~Alloc(i)

Gap(i) ==
  \/ DefinedTooLate(i) \/ DroppedTls(i) \/ UncopiedImport(i) \/ StaticInitialExec(i)
  \/ IfuncResolver(i) \/ BiasedConstant(i) \/ LocalThroughGot(i) \/ HelperThroughGot(i) \/ DebugOffset(i)
-----------------------------------------------------------------------------
(* What the passes count, reserve, define, collect and patch fits          *)
(* together: once loaded, at any address, every relocated place that is    *)
(* not one of the gaps above designates what its relocation means          *)
(* (apply_reloc, collect_data_and_symbolic_relocs, collect_tls_got).       *)
MeaningKept ==
  (pc = "done" /\ ~Undercounted) =>
     \A i \in Sites : SitePlaced(i) /\ ~Gap(i) => Designates(i) = Meaning(i)

(* The comments in append_all_dynamic_relocs call a dropped entry a bug:   *)
(* what count_dynamic_relocs reserved before layout is enough for what is  *)
(* collected after it, whatever was dropped, copied or aliased in between, *)
(* apart from the two gaps in the count.                                   *)
NothingDropped ==
  (/\ pc \in {"apply", "done"}
   /\ Dynamic
   /\ ~Undercounted) =>
     /\ TlsEntries \subseteq rela
     /\ EtDyn => Relative \cup Irelative \cup Symbolic \subseteq rela

(* No word of the output is relocated twice: .rela.dyn comes from five     *)
(* collections that look at sites, GOT slots and TLS slots on their own.   *)
OneRelocPerWord ==
  \A e1, e2 \in rela : e1.at = e2.at => e1 = e2

(* Every GOT and PLT slot the scan makes has a symbol to be filled from.   *)
SlotsNamed == NoId \notin Refs("Got") \cup Refs("Plt")

(* .rela.dyn and the slots it fills are complete and say one thing about   *)
(* every word.                                                             *)
RelaExact == NothingDropped /\ OneRelocPerWord /\ SlotsNamed

(* check_undefined runs after provided symbols are defined: an executable  *)
(* never contains a strong reference to nothing, and no link fails over a  *)
(* symbol the linker provides or over the helper it relaxes away.          *)
FailsExactly ==
  LET nothing(s) == /\ prog.attr[s].def = "none" /\ ~prog.attr[s].import
                    /\ prog.attr[s].bind = "global" /\ prog.attr[s].late = "no"
                    /\ prog.attr[s].helper => prog.shared
  IN /\ pc = "failed" => \E s \in Globals : nothing(s)
     /\ pc = "done" => \A i \in Sites : SitePlaced(i) => ~nothing(Sym(i))
=============================================================================
