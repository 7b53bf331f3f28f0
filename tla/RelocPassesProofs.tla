------------------------- MODULE RelocPassesProofs -------------------------
(***************************************************************************)
(* Proofs about the relocation passes, for programs with any number of     *)
(* sites and symbols.  Each pass leaves a part of the state that is from   *)
(* then on a function of the program alone; the inductive invariant says   *)
(* which, pass by pass.                                                    *)
(***************************************************************************)
EXTENDS RelocPasses, FiniteSetTheorems, TLAPS

Symbols == DOMAIN prog.attr
Tags == {"Got", "Plt", "TlsIe", "TlsGd", "TlsLdm", "TlsDesc"}

(* The passes that are over, by the next one.                              *)
AfterAppend == {"apply", "done"}
AfterFinalize == AfterAppend \cup {"check", "failed", "collect"}
AfterLayout == AfterFinalize \cup {"finalize"}
AfterProvide == AfterLayout \cup {"layout"}
AfterCount == AfterProvide \cup {"provide"}
AfterCopy == AfterCount \cup {"count"}
AfterScan == AfterCopy \cup {"copy"}
AfterIds == AfterScan \cup {"scan"}

(* What the inputs define, what has an id, and what gets a copy.           *)
Known(s) == prog.attr[s].def # "none" \/ prog.attr[s].import
Named(s) ==
  \/ Known(s)
  \/ \E i \in Sites : Sym(i) = s /\ TypeOf(i) = "GOT" /\ prog.attr[s].bind = "weak"
Copied(s) == ~prog.shared /\ \E i \in Sites : Sym(i) = s /\ NeedsCopy(i)

(* The table, as far as the passes before finalize_symbols write it.       *)
TableOK ==
  /\ DOMAIN table = Globals
  /\ \A s \in Globals :
       /\ table[s].defined_in <=>
            prog.attr[s].def # "none" \/ (pc \in AfterProvide /\ prog.attr[s].late # "no")
       /\ table[s].id = IF Known(s) \/ (pc \in AfterIds /\ Named(s)) THEN s ELSE NoId
       /\ table[s].copy_reloc <=> pc \in AfterCopy /\ Copied(s)
       /\ pc \in AfterCount => (table[s].dynsym <=> prog.attr[s].import)

(* The slot of a kind that site i asks for.                                *)
Needs(i, tag, r) ==
  LET t == TypeOf(i) IN
  \/ /\ tag = "Got" /\ t = "GOT" /\ r = Sym(i)
     /\ ~Local(Sym(i)) /\ (Known(Sym(i)) \/ Attr(i).bind = "weak")
  \/ /\ tag = "Plt" /\ t = "PLT32" /\ r = Sym(i) /\ ~Local(Sym(i))
     /\ Attr(i).ifunc \/ (Attr(i).import /\ (prog.shared \/ ~Attr(i).helper))
  \/ /\ tag = "TlsIe" /\ r = Sym(i)
     /\ t = "GOTTPOFF" \/ (t \in {"TLSGD", "TLSDESC"} /\ ~prog.shared /\ Attr(i).import)
  \/ tag = "TlsGd" /\ t = "TLSGD" /\ prog.shared /\ r = Sym(i)
  \/ tag = "TlsDesc" /\ t = "TLSDESC" /\ prog.shared /\ r = Sym(i)
  \/ tag = "TlsLdm" /\ t = "TLSLD" /\ prog.shared /\ r = NoId

SlotsOK ==
  /\ pc \notin AfterScan => slots = {}
  /\ pc \in AfterScan =>
       \A tag \in Tags, r \in Symbols \cup {NoId} :
         Slot(tag, r) \in slots <=> \E i \in Sites : Needs(i, tag, r)

Wanted(tag) == {r \in Symbols \cup {NoId} : \E i \in Sites : Needs(i, tag, r)}

(* What count_dynamic_relocs counts: biased words, symbolic words, and the *)
(* slots of what the image defines; pairs that take two relocations.       *)
Outside(s) == prog.attr[s].import /\ ~Copied(s)
RelSites == {i \in Sites : /\ Alloc(i) /\ TypeOf(i) = "R64"
                           /\ IF Local(Sym(i)) THEN Attr(i).def = "section"
                              ELSE Known(Sym(i)) /\ ~Outside(Sym(i))}
SymSites == {i \in Sites : /\ Alloc(i) /\ TypeOf(i) = "R64"
                           /\ ~Local(Sym(i)) /\ Outside(Sym(i))}
RelGot == {s \in Wanted("Got") : Known(s) /\ ~Outside(s)}
GdPairs == {r \in Wanted("TlsGd") : prog.attr[r].def = "none"}

TlsRoom ==
  IF ~prog.shared THEN Cardinality(Wanted("TlsIe"))
  ELSE Cardinality(Wanted("TlsGd")) + Cardinality(GdPairs) + Cardinality(Wanted("TlsDesc"))
         + Cardinality(Wanted("TlsIe")) + Cardinality(Wanted("TlsLdm"))

CountOK ==
  pc \in AfterCount =>
    /\ count.relative_total = IF EtDyn THEN Cardinality(RelSites) + Cardinality(RelGot) ELSE 0
    /\ count.symbolic_data = IF EtDyn THEN Cardinality(SymSites) ELSE 0
    /\ count.tls = IF EtDyn \/ Imports # {} THEN TlsRoom ELSE 0

(* What compute_layout makes room for, or makes at once.                   *)
OutGot == {s \in Wanted("Got") : Outside(s)}
CopySyms == {s \in Globals : Copied(s)}

LayoutOK ==
  /\ (pc \notin AfterLayout \/ ~Dynamic) =>
       layout = [cap |-> 0, glob_dat |-> {}, copies |-> {}, plt |-> {}, writes |-> {}]
  /\ (pc \in AfterLayout /\ Dynamic) =>
       /\ "writes" \in DOMAIN layout
       /\ layout.cap = Cardinality(OutGot) + Cardinality(CopySyms)
                         + count.relative_total + count.tls + count.symbolic_data
       /\ layout.glob_dat = {Entry(Slot("Got", s), "SYMBOL", s) : s \in OutGot}
       /\ layout.copies = {Entry(Here(s), "COPY", s) : s \in CopySyms}
       /\ layout.plt = {Entry(Slot("Plt", s), IF prog.attr[s].ifunc THEN "IRELATIVE" ELSE "SYMBOL",
                              s) : s \in Wanted("Plt")}

(* The addresses finalize_symbols gives.                                   *)
FinalVa(s) ==
  LET a == prog.attr[s] IN
  IF Copied(s) THEN Here(s)
  ELSE IF a.late = "defsym" \/ a.def = "abs" THEN Const(s)
  ELSE IF a.late = "provided" \/ (a.def \in {"section", "tls"} /\ a.placed) THEN Here(s)
  ELSE Null

AddressesOK ==
  pc \in AfterFinalize =>
    \A s \in Globals :
      /\ table[s].va = FinalVa(s)
      /\ table[s].got = IF s \in Wanted("Got") THEN Slot("Got", s) ELSE Null
      /\ s \notin Wanted("Plt") => table[s].plt = Null
      /\ s \in Wanted("Plt") /\ Dynamic => table[s].plt = Slot("Plt", s)

Started == prog \in Programs /\ pc \in AfterIds \cup {"weak_ids"}
-----------------------------------------------------------------------------
(* What ProgramsAssumption says of a site.                                 *)
LEMMA SiteFacts ==
  ASSUME prog \in Programs, NEW i \in Sites
  PROVE  /\ Sym(i) \in Symbols /\ Sym(i) # NoId
         /\ IsSymbol(Attr(i))
         /\ IsReference(prog, Attr(i), TypeOf(i), prog.sites[i].sec)
         /\ ~Local(Sym(i)) => Sym(i) \in Globals
BY ProgramsAssumption DEF Sites, Sym, Attr, TypeOf, Symbols, Globals, Local

LEMMA SymbolFacts ==
  ASSUME prog \in Programs, NEW s \in Symbols
  PROVE  IsSymbol(prog.attr[s]) /\ s # NoId
BY ProgramsAssumption DEF Symbols

LEMMA ProgramFacts ==
  ASSUME prog \in Programs
  PROVE  /\ prog.shared \in BOOLEAN /\ prog.pie \in BOOLEAN
         /\ IsFiniteSet(Sites) /\ IsFiniteSet(Symbols) /\ Globals \subseteq Symbols
         /\ NoId \notin Symbols
BY ProgramsAssumption DEF Sites, Symbols, Globals

LEMMA InitFacts ==
  ASSUME Init
  PROVE  Started /\ TableOK /\ SlotsOK
<1>1. Started
  BY DEF Init, Started
<1>2. pc = "weak_ids" /\ table = [s \in Globals |-> Loaded(s)]
  BY DEF Init
<1>3. \A s \in Globals : /\ table[s].id = IF Known(s) THEN s ELSE NoId
                         /\ table[s].defined_in = (prog.attr[s].def # "none")
                         /\ table[s].copy_reloc = FALSE
  BY <1>2 DEF Loaded, Known
<1>4. TableOK
  BY <1>2, <1>3 DEF TableOK, AfterIds, AfterScan, AfterCopy, AfterCount, AfterProvide, AfterLayout,
                    AfterFinalize, AfterAppend
<1>5. SlotsOK
  BY <1>2 DEF Init, SlotsOK, AfterScan, AfterCopy, AfterCount, AfterProvide, AfterLayout,
              AfterFinalize, AfterAppend
<1> QED BY <1>1, <1>4, <1>5

LEMMA PassesKept ==
  ASSUME Started, Next
  PROVE  prog' = prog /\ Started'
BY DEF Next, Started, AssignWeakGotIds, ScanRelocations, MarkCopyRelocs, CountDynamicRelocs,
       PredefineAndDefsym, ComputeLayout, FinalizeSymbols, CheckUndefined, AppendDynamicRelocs,
       ApplyReloc, Done, AfterIds, AfterScan, AfterCopy, AfterCount, AfterProvide, AfterLayout,
       AfterFinalize, AfterAppend

(* What depends on the program alone stays.                                *)
LEMMA ProgramKept ==
  ASSUME prog' = prog
  PROVE  /\ Sites' = Sites /\ Globals' = Globals /\ Symbols' = Symbols /\ EtDyn' = EtDyn
         /\ \A s : Known(s)' = Known(s) /\ Named(s)' = Named(s) /\ Copied(s)' = Copied(s)
         /\ \A s : Local(s)' = Local(s)
         /\ \A i : /\ Sym(i)' = Sym(i) /\ TypeOf(i)' = TypeOf(i) /\ Attr(i)' = Attr(i)
                   /\ Alloc(i)' = Alloc(i) /\ SitePlaced(i)' = SitePlaced(i)
         /\ \A i, tag, r : Needs(i, tag, r)' = Needs(i, tag, r)
BY DEF Sites, Globals, Symbols, EtDyn, Known, Named, Copied, Local, Sym, TypeOf, Attr, Alloc,
       SitePlaced, Needs, NeedsCopy, Writable

(* The three passes that rewrite the table before layout.                  *)
LEMMA TablePasses ==
  ASSUME Started, TableOK,
         AssignWeakGotIds \/ MarkCopyRelocs \/ CountDynamicRelocs \/ PredefineAndDefsym
  PROVE  TableOK'
<1> USE DEF AfterIds, AfterScan, AfterCopy, AfterCount, AfterProvide, AfterLayout,
            AfterFinalize, AfterAppend
<1>1. prog' = prog
  BY DEF AssignWeakGotIds, MarkCopyRelocs, CountDynamicRelocs, PredefineAndDefsym
<1>2. /\ Sites' = Sites /\ Globals' = Globals
      /\ \A s : Known(s)' = Known(s) /\ Named(s)' = Named(s) /\ Copied(s)' = Copied(s)
  BY <1>1, ProgramKept
<1>3. CASE AssignWeakGotIds
  <2>1. pc = "weak_ids" /\ pc' = "scan" /\ DOMAIN table' = Globals
    BY <1>3 DEF AssignWeakGotIds
  <2>2. ASSUME NEW s \in Globals
        PROVE  /\ table'[s].id = IF Named(s) THEN s ELSE NoId
               /\ table'[s].defined_in = table[s].defined_in
               /\ table'[s].copy_reloc = table[s].copy_reloc
    <3>1. IsDefined(s) <=> Known(s)
      BY <2>1 DEF TableOK, IsDefined, Known
    <3>2. CASE \E i \in Sites : /\ Sym(i) = s /\ TypeOf(i) = "GOT"
                                /\ Attr(i).bind = "weak" /\ ~IsDefined(s)
      <4>1. table'[s] = [table[s] EXCEPT !.id = s]
        BY <1>3, <3>2 DEF AssignWeakGotIds
      <4>2. Named(s)
        BY <3>2 DEF Named, Attr
      <4> QED BY <4>1, <4>2
    <3>3. CASE ~\E i \in Sites : /\ Sym(i) = s /\ TypeOf(i) = "GOT"
                                 /\ Attr(i).bind = "weak" /\ ~IsDefined(s)
      <4>1. table'[s] = table[s]
        BY <1>3, <3>3 DEF AssignWeakGotIds
      <4>2. Named(s) <=> Known(s)
        BY <3>1, <3>3 DEF Named, Attr
      <4> QED BY <2>1, <4>1, <4>2 DEF TableOK
    <3> QED BY <3>2, <3>3
  <2>3. \A s \in Globals : Known(s) => Named(s)
    BY DEF Named
  <2> QED BY <1>1, <1>2, <2>1, <2>2, <2>3 DEF TableOK
<1>4. CASE MarkCopyRelocs
  <2>1. pc = "copy" /\ pc' = "count" /\ DOMAIN table' = Globals
    BY <1>4 DEF MarkCopyRelocs
  <2>2. ASSUME NEW s \in Globals
        PROVE  /\ table'[s].id = table[s].id
               /\ table'[s].defined_in = table[s].defined_in
               /\ table'[s].copy_reloc <=> Copied(s)
    <3> DEFINE c == ~prog.shared /\ \E i \in Sites : Sym(i) = s /\ NeedsCopy(i)
    <3>1. table'[s] = [table[s] EXCEPT !.copy_reloc = c]
      BY <1>4 DEF MarkCopyRelocs
    <3>2. c = Copied(s)
      BY DEF Copied
    <3> HIDE DEF c
    <3> QED BY <3>1, <3>2
  <2> QED BY <1>1, <1>2, <2>1, <2>2 DEF TableOK
<1>5. CASE CountDynamicRelocs
  <2>1. pc = "count" /\ pc' = "provide" /\ DOMAIN table' = Globals
    BY <1>5 DEF CountDynamicRelocs
  <2>2. ASSUME NEW s \in Globals
        PROVE  /\ table'[s].id = table[s].id
               /\ table'[s].defined_in = table[s].defined_in
               /\ table'[s].copy_reloc = table[s].copy_reloc
               /\ table'[s].dynsym = prog.attr[s].import
    <3>1. table'[s] = [table[s] EXCEPT !.dynsym = prog.attr[s].import]
      BY <1>5 DEF CountDynamicRelocs
    <3> QED BY <3>1
  <2> QED BY <1>1, <1>2, <2>1, <2>2 DEF TableOK
<1>6. CASE PredefineAndDefsym
  <2>1. pc = "provide" /\ pc' = "layout" /\ DOMAIN table' = Globals
    BY <1>6 DEF PredefineAndDefsym
  <2>2. ASSUME NEW s \in Globals
        PROVE  /\ table'[s].id = table[s].id
               /\ table'[s].defined_in <=> table[s].defined_in \/ prog.attr[s].late # "no"
               /\ table'[s].copy_reloc = table[s].copy_reloc
               /\ table'[s].dynsym = table[s].dynsym
    <3> DEFINE d == table[s].defined_in \/ prog.attr[s].late # "no"
    <3>1. table'[s] = [table[s] EXCEPT !.defined_in = d]
      BY <1>6 DEF PredefineAndDefsym
    <3> HIDE DEF d
    <3>2. /\ table'[s].id = table[s].id /\ table'[s].defined_in = d
          /\ table'[s].copy_reloc = table[s].copy_reloc /\ table'[s].dynsym = table[s].dynsym
      BY <3>1
    <3> QED BY <3>2 DEF d
  <2> QED BY <1>1, <1>2, <2>1, <2>2 DEF TableOK
<1> QED BY <1>3, <1>4, <1>5, <1>6

(* The passes after that leave this part of the table alone.               *)
LEMMA TableKept ==
  ASSUME Started, TableOK,
         \/ ScanRelocations \/ ComputeLayout \/ FinalizeSymbols \/ CheckUndefined
         \/ AppendDynamicRelocs \/ (\E i \in Sites : ApplyReloc(i)) \/ Done
  PROVE  /\ TableOK'
         /\ \A s \in Globals : /\ table'[s].defined_in = table[s].defined_in
                               /\ table'[s].copy_reloc = table[s].copy_reloc
<1> USE DEF AfterIds, AfterScan, AfterCopy, AfterCount, AfterProvide, AfterLayout,
            AfterFinalize, AfterAppend
<1>1. /\ prog' = prog
      /\ pc' \in AfterIds <=> pc \in AfterIds
      /\ pc' \in AfterCopy <=> pc \in AfterCopy
      /\ pc' \in AfterCount <=> pc \in AfterCount
      /\ pc' \in AfterProvide <=> pc \in AfterProvide
  BY DEF ScanRelocations, ComputeLayout, FinalizeSymbols, CheckUndefined,
         AppendDynamicRelocs, ApplyReloc, Done
<1>2. /\ Sites' = Sites /\ Globals' = Globals
      /\ \A s : Known(s)' = Known(s) /\ Named(s)' = Named(s) /\ Copied(s)' = Copied(s)
  BY <1>1, ProgramKept
<1>3. /\ DOMAIN table' = Globals
      /\ \A s \in Globals : /\ table'[s].id = table[s].id
                            /\ table'[s].defined_in = table[s].defined_in
                            /\ table'[s].copy_reloc = table[s].copy_reloc
                            /\ table'[s].dynsym = table[s].dynsym
  <2>1. CASE FinalizeSymbols
    <3>1. PICK first : table' = [s \in Globals |->
             [table[s] EXCEPT !.va = VirtualAddress(s),
                              !.got = IF s \in GotSyms THEN Slot("Got", s) ELSE Null,
                              !.plt = PltAddress(s, first)]]
      BY <2>1 DEF FinalizeSymbols
    <3>2. ASSUME NEW s \in Globals
          PROVE  \E va, got, plt : table'[s] = [table[s] EXCEPT !.va = va, !.got = got, !.plt = plt]
      BY <3>1
    <3>3. DOMAIN table' = Globals
      BY <3>1
    <3>4. ASSUME NEW s \in Globals
          PROVE  /\ table'[s].id = table[s].id
                 /\ table'[s].defined_in = table[s].defined_in
                 /\ table'[s].copy_reloc = table[s].copy_reloc
                 /\ table'[s].dynsym = table[s].dynsym
      <4>1. PICK va, got, plt :
              table'[s] = [table[s] EXCEPT !.va = va, !.got = got, !.plt = plt]
        BY <3>2
      <4> QED BY <4>1
    <3> QED BY <3>3, <3>4
  <2>2. CASE table' = table
    BY <2>2 DEF TableOK
  <2> QED BY <2>1, <2>2 DEF ScanRelocations, ComputeLayout, CheckUndefined,
             AppendDynamicRelocs, ApplyReloc, Done
<1> HIDE DEF AfterIds, AfterScan, AfterCopy, AfterCount, AfterProvide, AfterLayout,
             AfterFinalize, AfterAppend
<1> QED BY <1>1, <1>2, <1>3 DEF TableOK

-----------------------------------------------------------------------------
(* scan_object asks for the slots Needs names: the ids are in place by     *)
(* then, so each is named after its symbol.                                *)
LEMMA ScanFinds ==
  ASSUME Started, TableOK, pc = "scan", NEW i \in Sites,
         NEW tag \in Tags, NEW r \in Symbols \cup {NoId}
  PROVE  Slot(tag, r) \in ScanObject(i) <=> Needs(i, tag, r)
<1> DEFINE s == Sym(i)
           t == TypeOf(i)
<1>1. /\ s \in Symbols /\ s # NoId /\ IsSymbol(Attr(i)) /\ t \in Types
      /\ IsReference(prog, Attr(i), t, prog.sites[i].sec)
      /\ ~Local(s) => s \in Globals
      /\ Attr(i) = prog.attr[s]
  BY SiteFacts DEF Started, IsReference, Attr
<1>2. ~Local(s) => /\ IsDefined(s) <=> Known(s)
                   /\ table[s].id = IF Named(s) THEN s ELSE NoId
  <2>1. pc \in AfterIds /\ pc \notin AfterProvide
    BY DEF AfterIds, AfterScan, AfterCopy, AfterCount, AfterProvide, AfterLayout, AfterFinalize,
           AfterAppend
  <2> QED BY <1>1, <2>1 DEF TableOK, IsDefined, Known, Named
<1>3. t \in TlsTypes => TlsRef(s) = s
  <2> SUFFICES ASSUME t \in TlsTypes PROVE TlsRef(s) = s
    OBVIOUS
  <2>1. Known(s)
    BY <1>1 DEF IsReference, Known
  <2> QED BY <1>2, <2>1 DEF TlsRef, Named
<1>4. \A u, q : Slot(tag, r) = Slot(u, q) <=> tag = u /\ r = q
  BY DEF Slot
<1> HIDE DEF s, t
<1>5. CASE t \in {"GOTTPOFF", "TLSGD", "TLSDESC", "TLSLD"}
  <2>1. t \in TlsTypes
    BY <1>5 DEF TlsTypes
  <2>2. Attr(i).import => ~Local(s)
    BY <1>1 DEF IsSymbol, Local
  <2>3. CASE t = "GOTTPOFF"
    <3>1. ScanObject(i) = {Slot("TlsIe", s)}
      BY <1>3, <2>1, <2>3 DEF ScanObject, s, t
    <3> QED BY <1>4, <2>3, <3>1 DEF Needs, s, t
  <2>4. CASE t = "TLSGD"
    <3>1. ScanObject(i) = IF prog.shared THEN {Slot("TlsGd", s)}
                          ELSE IF Attr(i).import THEN {Slot("TlsIe", s)} ELSE {}
      BY <1>3, <2>1, <2>2, <2>4 DEF ScanObject, s, t
    <3> QED BY <1>4, <2>4, <3>1 DEF Needs, s, t
  <2>5. CASE t = "TLSDESC"
    <3>1. ScanObject(i) = IF prog.shared THEN {Slot("TlsDesc", s)}
                          ELSE IF Attr(i).import THEN {Slot("TlsIe", s)} ELSE {}
      BY <1>3, <2>1, <2>2, <2>5 DEF ScanObject, s, t
    <3> QED BY <1>4, <2>5, <3>1 DEF Needs, s, t
  <2>6. CASE t = "TLSLD"
    <3>1. ScanObject(i) = IF prog.shared THEN {Slot("TlsLdm", NoId)} ELSE {}
      BY <2>6 DEF ScanObject, t
    <3> QED BY <1>4, <2>6, <3>1 DEF Needs, s, t
  <2> QED BY <1>5, <2>3, <2>4, <2>5, <2>6
<1>6. CASE t = "GOT"
  <2>1. CASE Local(s)
    <3>1. ScanObject(i) = {}
      BY <1>6, <2>1 DEF ScanObject, s, t
    <3> QED BY <1>6, <2>1, <3>1 DEF Needs, s, t
  <2>2. CASE ~Local(s)
    <3>1. ScanObject(i) = IF IsDefined(s) \/ Attr(i).bind = "weak" THEN {Slot("Got", table[s].id)}
                          ELSE {}
      BY <1>6, <2>2 DEF ScanObject, s, t
    <3>2. Attr(i).bind = "weak" => Named(s)
      BY <1>1, <1>6 DEF Named, s, t
    <3>3. Known(s) => Named(s)
      BY DEF Named
    <3>4. ScanObject(i) = IF Known(s) \/ Attr(i).bind = "weak" THEN {Slot("Got", s)} ELSE {}
      BY <1>2, <2>2, <3>1, <3>2, <3>3
    <3> QED BY <1>4, <1>6, <2>2, <3>4 DEF Needs, s, t
  <2> QED BY <2>1, <2>2
<1>7. CASE t = "PLT32"
  <2>1. CASE Local(s)
    <3>1. ScanObject(i) = {}
      BY <1>7, <2>1 DEF ScanObject, s, t
    <3> QED BY <1>7, <2>1, <3>1 DEF Needs, s, t
  <2>2. CASE ~Local(s)
    <3>1. ScanObject(i) = IF \/ Attr(i).import /\ (prog.shared \/ ~Attr(i).helper)
                             \/ IfuncHere(s)
                          THEN {Slot("Plt", table[s].id)} ELSE {}
      BY <1>7, <2>2 DEF ScanObject, s, t
    <3>2. IfuncHere(s) <=> Attr(i).ifunc
      BY <1>1, <1>2, <2>2 DEF IfuncHere, IsSymbol, Known
    <3>3. Attr(i).ifunc \/ Attr(i).import => Named(s)
      BY <1>1 DEF IsSymbol, Known, Named
    <3>4. ScanObject(i) =
            IF Attr(i).ifunc \/ (Attr(i).import /\ (prog.shared \/ ~Attr(i).helper))
            THEN {Slot("Plt", s)} ELSE {}
      BY <1>2, <2>2, <3>1, <3>2, <3>3
    <3> QED BY <1>4, <1>7, <2>2, <3>4 DEF Needs, s, t
  <2> QED BY <2>1, <2>2
<1>8. CASE t \in {"TPOFF", "DTPOFF", "R64", "R32", "PC32"}
  <2>1. ScanObject(i) = {}
    BY <1>8 DEF ScanObject, t
  <2> QED BY <1>8, <2>1 DEF Needs, t
<1> QED BY <1>1, <1>5, <1>6, <1>7, <1>8 DEF Types, TlsTypes, CopyTypes

LEMMA ScanSlots ==
  ASSUME Started, TableOK, ScanRelocations
  PROVE  SlotsOK'
<1>1. /\ prog' = prog /\ pc = "scan" /\ slots' = UNION {ScanObject(i) : i \in Sites}
      /\ pc' \in AfterScan
  BY DEF ScanRelocations, AfterScan
<1>2. \A tag \in Tags, r \in Symbols \cup {NoId} :
        Slot(tag, r) \in slots' <=> \E i \in Sites : Needs(i, tag, r)
  BY <1>1, ScanFinds
<1>3. /\ Sites' = Sites /\ Symbols' = Symbols
      /\ \A i, tag, r : Needs(i, tag, r)' = Needs(i, tag, r)
  BY <1>1, ProgramKept
<1>4. \A tag, r : Slot(tag, r)' = Slot(tag, r)
  BY DEF Slot
<1> QED BY <1>1, <1>2, <1>3, <1>4 DEF SlotsOK

LEMMA SlotsKept ==
  ASSUME Started, SlotsOK, pc # "scan", Next
  PROVE  SlotsOK'
<1>1. /\ prog' = prog /\ slots' = slots
      /\ pc' \in AfterScan <=> pc \in AfterScan
  BY DEF Next, AssignWeakGotIds, ScanRelocations, MarkCopyRelocs, CountDynamicRelocs,
         PredefineAndDefsym, ComputeLayout, FinalizeSymbols, CheckUndefined, AppendDynamicRelocs,
         ApplyReloc, Done, AfterScan, AfterCopy, AfterCount, AfterProvide, AfterLayout,
         AfterFinalize, AfterAppend
<1>2. /\ Sites' = Sites /\ Symbols' = Symbols
      /\ \A i, tag, r : Needs(i, tag, r)' = Needs(i, tag, r)
  BY <1>1, ProgramKept
<1> QED BY <1>1, <1>2 DEF SlotsOK, Slot

(* What the collections find in the slots.                                 *)
LEMMA RefsWanted ==
  ASSUME SlotsOK, pc \in AfterScan, NEW tag \in Tags
  PROVE  Refs(tag) = Wanted(tag)
BY DEF SlotsOK, Refs, Wanted, Symbols

(* A slot other than the one of the module itself is named.                *)
LEMMA WantedNamed ==
  ASSUME prog \in Programs, NEW tag \in Tags, tag # "TlsLdm"
  PROVE  /\ NoId \notin Wanted(tag) /\ Wanted(tag) \subseteq Symbols
         /\ tag \in {"Got", "Plt"} => Wanted(tag) \subseteq Globals
<1>1. \A i \in Sites : \A r : Needs(i, tag, r) => r = Sym(i) /\ (tag \in {"Got", "Plt"} => ~Local(Sym(i)))
  BY DEF Needs
<1> QED BY <1>1, SiteFacts DEF Wanted

LEMMA GotPltWanted ==
  ASSUME Started, SlotsOK, pc \in AfterScan
  PROVE  GotSyms = Wanted("Got") /\ PltSyms = Wanted("Plt")
<1>1. Refs("Got") = Wanted("Got") /\ Refs("Plt") = Wanted("Plt")
  BY RefsWanted DEF Tags
<1>2. NoId \notin Wanted("Got") /\ NoId \notin Wanted("Plt")
  BY WantedNamed DEF Tags, Started
<1> QED BY <1>1, <1>2 DEF GotSyms, PltSyms

LEMMA ScansNamed ==
  ASSUME Started, SlotsOK
  PROVE  SlotsNamed
<1>1. CASE pc \in AfterScan
  <2>1. Refs("Got") = Wanted("Got") /\ Refs("Plt") = Wanted("Plt")
    BY <1>1, RefsWanted DEF Tags
  <2>2. NoId \notin Wanted("Got") /\ NoId \notin Wanted("Plt")
    BY WantedNamed DEF Tags, Started
  <2> QED BY <2>1, <2>2 DEF SlotsNamed
<1>2. CASE pc \notin AfterScan
  BY <1>2 DEF SlotsOK, SlotsNamed, Refs
<1> QED BY <1>1, <1>2

LEMMA CountsKept ==
  ASSUME prog' = prog
  PROVE  /\ RelSites' = RelSites /\ SymSites' = SymSites /\ RelGot' = RelGot
         /\ TlsRoom' = TlsRoom /\ Imports' = Imports /\ EtDyn' = EtDyn /\ Dynamic' = Dynamic
         /\ \A tag : Wanted(tag)' = Wanted(tag)
         /\ \A s : Outside(s)' = Outside(s)
<1>1. \A tag : Wanted(tag)' = Wanted(tag)
  BY ProgramKept DEF Wanted
<1>2. \A s : Outside(s)' = Outside(s)
  BY ProgramKept DEF Outside
<1>3. RelSites' = RelSites /\ SymSites' = SymSites
  BY <1>2, ProgramKept DEF RelSites, SymSites
<1>4. RelGot' = RelGot /\ GdPairs' = GdPairs
  BY <1>1, <1>2, ProgramKept DEF RelGot, GdPairs
<1>5. TlsRoom' = TlsRoom
  BY <1>1, <1>4 DEF TlsRoom
<1>6. Imports' = Imports /\ EtDyn' = EtDyn /\ Dynamic' = Dynamic
  BY DEF Imports, Globals, Local, EtDyn, Dynamic
<1> QED BY <1>1, <1>2, <1>3, <1>4, <1>5, <1>6

(* count_dynamic_relocs.                                                   *)
LEMMA CountPass ==
  ASSUME Started, TableOK, SlotsOK, CountDynamicRelocs
  PROVE  CountOK'
<1>1. /\ pc = "count" /\ prog' = prog /\ prog \in Programs
      /\ pc \in AfterScan /\ pc \in AfterCopy /\ pc \notin AfterProvide
  BY DEF CountDynamicRelocs, Started, AfterScan, AfterCopy, AfterCount, AfterProvide, AfterLayout,
         AfterFinalize, AfterAppend
<1>2. \A s \in Globals : /\ IsDefined(s) <=> Known(s)
                         /\ NotCopied(s) <=> Outside(s)
                         /\ table[s].defined_in <=> prog.attr[s].def # "none"
  BY <1>1 DEF TableOK, IsDefined, Known, NotCopied, Outside
<1>3. \A i \in Sites : ~Local(Sym(i)) => Sym(i) \in Globals
  BY <1>1, SiteFacts
<1>4. {i \in Sites : CountsRelative(i)} = RelSites
  BY <1>2, <1>3 DEF CountsRelative, RelSites
<1>5. {i \in Sites : CountsSymbolic(i)} = SymSites
  BY <1>2, <1>3 DEF CountsSymbolic, SymSites
<1>6. CountGotRelative = RelGot
  BY <1>1, <1>2, GotPltWanted, WantedNamed DEF CountGotRelative, RelGot, Tags
<1>7. CountTlsRelocs = TlsRoom
  <2>1. /\ Refs("TlsGd") = Wanted("TlsGd") /\ Refs("TlsDesc") = Wanted("TlsDesc")
        /\ Refs("TlsIe") = Wanted("TlsIe") /\ Refs("TlsLdm") = Wanted("TlsLdm")
    BY <1>1, RefsWanted DEF Tags
  <2>2. NoId \notin Wanted("TlsGd") /\ Wanted("TlsGd") \subseteq Symbols
    BY <1>1, WantedNamed DEF Tags
  <2>3. {r \in Refs("TlsGd") : r = NoId \/ (~Local(r) /\ ~table[r].defined_in)} = GdPairs
    <3>1. \A r \in Symbols : Local(r) => prog.attr[r].def # "none"
      BY <1>1, SymbolFacts DEF IsSymbol, Local
    <3>2. \A r \in Symbols : ~Local(r) => r \in Globals
      BY DEF Globals, Symbols
    <3> QED BY <1>2, <2>1, <2>2, <3>1, <3>2 DEF GdPairs
  <2> QED BY <2>1, <2>3 DEF CountTlsRelocs, TlsRoom
<1>8. /\ count'.relative_total = IF EtDyn THEN Cardinality(RelSites) + Cardinality(RelGot) ELSE 0
      /\ count'.symbolic_data = IF EtDyn THEN Cardinality(SymSites) ELSE 0
      /\ count'.tls = IF EtDyn \/ Imports # {} THEN TlsRoom ELSE 0
  BY <1>4, <1>5, <1>6, <1>7 DEF CountDynamicRelocs
<1> QED BY <1>1, <1>8, CountsKept DEF CountOK

LEMMA CountsStay ==
  ASSUME Started, CountOK, pc # "count", Next
  PROVE  CountOK' /\ count' = count
<1>1. /\ prog' = prog /\ count' = count
      /\ pc' \in AfterCount => pc \in AfterCount
  BY DEF Next, AssignWeakGotIds, ScanRelocations, MarkCopyRelocs, CountDynamicRelocs,
         PredefineAndDefsym, ComputeLayout, FinalizeSymbols, CheckUndefined, AppendDynamicRelocs,
         ApplyReloc, Done, AfterCount, AfterProvide, AfterLayout,
         AfterFinalize, AfterAppend
<1> QED BY <1>1, CountsKept DEF CountOK

-----------------------------------------------------------------------------
LEMMA LayoutPass ==
  ASSUME Started, TableOK, SlotsOK, LayoutOK, ComputeLayout
  PROVE  LayoutOK'
<1>1. /\ pc = "layout" /\ pc' = "finalize" /\ prog' = prog /\ prog \in Programs /\ count' = count
      /\ pc \in AfterScan /\ pc \in AfterCopy /\ pc \notin AfterLayout /\ pc' \in AfterLayout
  BY DEF ComputeLayout, Started, AfterScan, AfterCopy, AfterCount, AfterProvide, AfterLayout,
         AfterFinalize, AfterAppend
<1>2. \A s \in Globals : /\ NotCopied(s) <=> Outside(s)
                         /\ table[s].copy_reloc <=> Copied(s)
                         /\ IfuncHere(s) <=> prog.attr[s].ifunc
  <2> TAKE s \in Globals
  <2>1. IsSymbol(prog.attr[s])
    BY <1>1, SymbolFacts, ProgramFacts
  <2>2. table[s].copy_reloc <=> Copied(s)
    BY <1>1 DEF TableOK
  <2>3. prog.attr[s].def # "none" => table[s].defined_in
    BY DEF TableOK
  <2>4. IfuncHere(s) <=> prog.attr[s].ifunc
    BY <2>1, <2>3 DEF IsSymbol, IfuncHere, IsDefined
  <2> QED BY <2>2, <2>4 DEF NotCopied, Outside
<1>3. /\ GotSyms = Wanted("Got") /\ PltSyms = Wanted("Plt")
      /\ Wanted("Got") \subseteq Globals /\ Wanted("Plt") \subseteq Globals
  BY <1>1, GotPltWanted, WantedNamed DEF Tags
<1>4. GlobDat = OutGot /\ Copies = CopySyms
  BY <1>2, <1>3 DEF GlobDat, OutGot, Copies, CopySyms
<1>5. PltEntries = {Entry(Slot("Plt", s), IF prog.attr[s].ifunc THEN "IRELATIVE" ELSE "SYMBOL",
                          s) : s \in Wanted("Plt")}
  BY <1>2, <1>3 DEF PltEntries
<1>6. RelaDynSize = Cardinality(OutGot) + Cardinality(CopySyms)
                      + count.relative_total + count.tls + count.symbolic_data
  BY <1>4 DEF RelaDynSize
<1>7. Dynamic =>
        /\ "writes" \in DOMAIN layout'
        /\ layout'.cap = RelaDynSize
        /\ layout'.glob_dat = {Entry(Slot("Got", s), "SYMBOL", s) : s \in OutGot}
        /\ layout'.copies = {Entry(Here(s), "COPY", s) : s \in CopySyms}
        /\ layout'.plt = PltEntries
  BY <1>4 DEF ComputeLayout
<1>8. ~Dynamic => layout' = layout
  BY DEF ComputeLayout
<1>9. /\ OutGot' = OutGot /\ CopySyms' = CopySyms /\ Dynamic' = Dynamic
      /\ Wanted("Plt")' = Wanted("Plt")
  BY <1>1, ProgramKept, CountsKept DEF OutGot, CopySyms
<1> QED BY <1>1, <1>5, <1>6, <1>7, <1>8, <1>9 DEF LayoutOK, Entry, Slot, Here

LEMMA LayoutKept ==
  ASSUME Started, CountOK, LayoutOK, pc # "layout", Next
  PROVE  LayoutOK'
<1>1. /\ prog' = prog
      /\ pc' \in AfterLayout <=> pc \in AfterLayout
      /\ \/ layout' = layout
         \/ /\ pc \in AfterLayout /\ Dynamic
            /\ layout' = [layout EXCEPT !.writes = TlsWrites]
  BY DEF Next, AssignWeakGotIds, ScanRelocations, MarkCopyRelocs, CountDynamicRelocs,
         PredefineAndDefsym, ComputeLayout, FinalizeSymbols, CheckUndefined, AppendDynamicRelocs,
         ApplyReloc, Done, AfterLayout, AfterFinalize, AfterAppend
<1>2. pc \in AfterLayout => count' = count
  BY CountsStay DEF AfterLayout, AfterFinalize, AfterAppend
<1>3. /\ OutGot' = OutGot /\ CopySyms' = CopySyms /\ Dynamic' = Dynamic
      /\ Wanted("Plt")' = Wanted("Plt")
  BY <1>1, ProgramKept, CountsKept DEF OutGot, CopySyms
<1>4. CASE layout' = layout
  BY <1>1, <1>2, <1>3, <1>4 DEF LayoutOK, Entry, Slot, Here
<1>5. CASE /\ pc \in AfterLayout /\ Dynamic
           /\ layout' = [layout EXCEPT !.writes = TlsWrites]
  <2>1. /\ layout'.cap = layout.cap /\ layout'.glob_dat = layout.glob_dat
        /\ layout'.copies = layout.copies /\ layout'.plt = layout.plt
        /\ DOMAIN layout' = DOMAIN layout
    BY <1>5
  <2> QED BY <1>1, <1>2, <1>3, <1>5, <2>1 DEF LayoutOK, Entry, Slot, Here
<1> QED BY <1>1, <1>4, <1>5

LEMMA FinalizePass ==
  ASSUME Started, TableOK, SlotsOK, FinalizeSymbols
  PROVE  AddressesOK'
<1>1. /\ pc = "finalize" /\ prog' = prog /\ prog \in Programs
      /\ pc \in AfterScan /\ pc \in AfterCopy
  BY DEF FinalizeSymbols, Started, AfterScan, AfterCopy, AfterCount, AfterProvide, AfterLayout
<1>2. PICK first : table' = [s \in Globals |->
             [table[s] EXCEPT !.va = VirtualAddress(s),
                              !.got = IF s \in GotSyms THEN Slot("Got", s) ELSE Null,
                              !.plt = PltAddress(s, first)]]
  BY DEF FinalizeSymbols
<1>3. GotSyms = Wanted("Got") /\ PltSyms = Wanted("Plt")
  BY <1>1, GotPltWanted
<1>4. ASSUME NEW s \in Globals
      PROVE  /\ table'[s].va = FinalVa(s)
             /\ table'[s].got = IF s \in Wanted("Got") THEN Slot("Got", s) ELSE Null
             /\ s \notin Wanted("Plt") => table'[s].plt = Null
             /\ s \in Wanted("Plt") /\ Dynamic => table'[s].plt = Slot("Plt", s)
  <2>1. VirtualAddress(s) = FinalVa(s)
    <3>1. IsSymbol(prog.attr[s])
      BY <1>1, SymbolFacts, ProgramFacts
    <3>2. table[s].copy_reloc <=> Copied(s)
      BY <1>1 DEF TableOK
    <3>3. prog.attr[s].late \in {"provided", "defsym"} => prog.attr[s].def = "none"
      BY <3>1 DEF IsSymbol
    <3>4. prog.attr[s].late \in {"provided", "defsym", "no"}
          /\ prog.attr[s].def \in {"section", "tls", "abs", "none"}
      BY <3>1 DEF IsSymbol
    <3>5. CASE Copied(s)
      <4>1. prog.attr[s].late = "no" /\ prog.attr[s].def = "none"
        BY <3>1, <3>5 DEF Copied, NeedsCopy, Attr, IsSymbol
      <4>2. VirtualAddress(s) = Here(s)
        BY <3>2, <3>5, <4>1 DEF VirtualAddress
      <4> QED BY <3>5, <4>2 DEF FinalVa
    <3>6. CASE ~Copied(s) /\ prog.attr[s].late = "defsym"
      <4>1. prog.attr[s].def = "none"
        BY <3>3, <3>6
      <4>2. VirtualAddress(s) = Const(s)
        BY <3>2, <3>6, <4>1 DEF VirtualAddress
      <4> QED BY <3>6, <4>2 DEF FinalVa
    <3>7. CASE ~Copied(s) /\ prog.attr[s].late = "provided"
      <4>1. prog.attr[s].def = "none"
        BY <3>3, <3>7
      <4>2. VirtualAddress(s) = Here(s)
        BY <3>2, <3>7, <4>1 DEF VirtualAddress
      <4> QED BY <3>7, <4>1, <4>2 DEF FinalVa
    <3>8. CASE ~Copied(s) /\ prog.attr[s].late = "no"
      <4>1. CASE prog.attr[s].def = "abs"
        BY <3>2, <3>8, <4>1 DEF VirtualAddress, FinalVa
      <4>2. CASE prog.attr[s].def \in {"section", "tls"} /\ prog.attr[s].placed
        BY <3>2, <3>8, <4>2 DEF VirtualAddress, FinalVa
      <4>3. CASE prog.attr[s].def = "none" \/ ~prog.attr[s].placed
        <5>1. prog.attr[s].def # "abs"
          BY <3>1, <4>3 DEF IsSymbol
        <5> QED BY <3>2, <3>4, <3>8, <4>3, <5>1 DEF VirtualAddress, FinalVa
      <4> QED BY <3>4, <4>1, <4>2, <4>3
    <3> QED BY <3>4, <3>5, <3>6, <3>7, <3>8
  <2>2. PltAddress(s, first) = IF s \notin Wanted("Plt") THEN Null
                               ELSE IF Dynamic THEN Slot("Plt", s)
                               ELSE IF s = first THEN Null ELSE Junk
    BY <1>3 DEF PltAddress
  <2> DEFINE va == VirtualAddress(s)
             got == IF s \in GotSyms THEN Slot("Got", s) ELSE Null
             plt == PltAddress(s, first)
  <2>3. table'[s] = [table[s] EXCEPT !.va = va, !.got = got, !.plt = plt]
    BY <1>2
  <2>4. got = IF s \in Wanted("Got") THEN Slot("Got", s) ELSE Null
    BY <1>3
  <2>5. va = FinalVa(s)
    BY <2>1
  <2>6. /\ s \notin Wanted("Plt") => plt = Null
        /\ s \in Wanted("Plt") /\ Dynamic => plt = Slot("Plt", s)
    BY <2>2
  <2> HIDE DEF va, got, plt
  <2>7. table'[s].va = va /\ table'[s].got = got /\ table'[s].plt = plt
    BY <2>3
  <2> QED BY <2>4, <2>5, <2>6, <2>7
<1>5. /\ Globals' = Globals /\ Dynamic' = Dynamic /\ \A tag : Wanted(tag)' = Wanted(tag)
      /\ \A s : FinalVa(s)' = FinalVa(s)
  BY <1>1, ProgramKept, CountsKept DEF FinalVa, Here, Const, Null
<1> QED BY <1>4, <1>5 DEF AddressesOK, Slot, Null

LEMMA AddressesKept ==
  ASSUME Started, AddressesOK, pc # "finalize", Next
  PROVE  AddressesOK'
<1>1. /\ prog' = prog
      /\ pc' \in AfterFinalize => pc \in AfterFinalize /\ table' = table
  BY DEF Next, AssignWeakGotIds, ScanRelocations, MarkCopyRelocs, CountDynamicRelocs,
         PredefineAndDefsym, ComputeLayout, FinalizeSymbols, CheckUndefined, AppendDynamicRelocs,
         ApplyReloc, Done, AfterFinalize, AfterAppend
<1>2. /\ Globals' = Globals /\ Dynamic' = Dynamic /\ \A tag : Wanted(tag)' = Wanted(tag)
      /\ \A s : FinalVa(s)' = FinalVa(s)
  BY <1>1, ProgramKept, CountsKept DEF FinalVa, Here, Const, Null
<1> QED BY <1>1, <1>2 DEF AddressesOK, Slot, Null

-----------------------------------------------------------------------------
(* What apply_reloc has written, by site.  The passes it relies on are     *)
(* over, so what it would write stays the same while it runs.              *)
FieldOK ==
  /\ DOMAIN field = Sites
  /\ \A i \in Sites : field[i] # Null =>
       /\ pc \in AfterAppend \cup {"failed"}
       /\ \/ Skipped(i) /\ field[i] = <<"skipped">>
          \/ ~Skipped(i) /\ ~Unresolved(i) /\ field[i] = <<"is", PatchBuf(i)>>
  /\ pc = "done" => Pending = {}

LEMMA PatchKept ==
  ASSUME prog' = prog, table' = table, slots' = slots
  PROVE  \A i : /\ Skipped(i)' = Skipped(i) /\ Unresolved(i)' = Unresolved(i)
                /\ PatchBuf(i)' = PatchBuf(i)
<1> TAKE i
<1>1. Skipped(i)' = Skipped(i) /\ Unresolved(i)' = Unresolved(i)
  BY DEF Skipped, Unresolved, TypeOf, Attr, Sym, Local, IsDefined
<1>2. /\ TypeOf(i)' = TypeOf(i) /\ S(i)' = S(i) /\ L(i)' = L(i) /\ G(i)' = G(i)
      /\ Null' = Null
  BY DEF S, L, G, Local, Sym, Attr, Const, Here, IsDefined, Null, TypeOf
<1>3. TpRelative(i)' = TpRelative(i) /\ DtpRelative(i)' = DtpRelative(i)
  BY DEF TpRelative, DtpRelative, TlsOffset, TlsHere, TpOffset, DtpOffset, Sym, Junk
<1>4. \A tag, r : TlsSlot(tag, r)' = TlsSlot(tag, r)
  BY DEF TlsSlot, Slot, Null
<1>5. TlsRef(Sym(i))' = TlsRef(Sym(i)) /\ TlsImported(i)' = TlsImported(i)
  BY DEF TlsRef, Sym, TlsImported, Local, Attr
<1>6. Relaxed(i)' = Relaxed(i)
  BY <1>3, <1>4, <1>5 DEF Relaxed
<1>7. /\ GeneralDynamic(i)' = GeneralDynamic(i) /\ LocalDynamic(i)' = LocalDynamic(i)
      /\ InitialExec(i)' = InitialExec(i) /\ Descriptor(i)' = Descriptor(i)
  BY <1>4, <1>5, <1>6 DEF GeneralDynamic, LocalDynamic, InitialExec, Descriptor
<1>8. PatchBuf(i)' = PatchBuf(i)
  BY <1>2, <1>3, <1>7 DEF PatchBuf
<1> QED BY <1>1, <1>8

LEMMA FieldKept ==
  ASSUME Started, FieldOK, Next
  PROVE  FieldOK'
<1>1. /\ prog' = prog /\ Sites' = Sites
      /\ \A i : SitePlaced(i)' = SitePlaced(i)
  BY PassesKept, ProgramKept
<1>2. CASE \E i \in Sites : ApplyReloc(i)
  <2>1. PICK i \in Sites : ApplyReloc(i)
    BY <1>2
  <2>2. pc = "apply" /\ table' = table /\ slots' = slots
    BY <2>1 DEF ApplyReloc
  <2>3. \A j : /\ Skipped(j)' = Skipped(j) /\ Unresolved(j)' = Unresolved(j)
               /\ PatchBuf(j)' = PatchBuf(j)
    BY <1>1, <2>2, PatchKept
  <2>4. /\ pc' \in {"apply", "failed"}
        /\ \/ field' = field
           \/ Skipped(i) /\ field' = [field EXCEPT ![i] = <<"skipped">>]
           \/ ~Skipped(i) /\ ~Unresolved(i) /\ field' = [field EXCEPT ![i] = <<"is", PatchBuf(i)>>]
    BY <2>1 DEF ApplyReloc
  <2>5. DOMAIN field' = Sites
    BY <2>4 DEF FieldOK
  <2>6. \A j \in Sites : field'[j] # Null =>
          \/ Skipped(j) /\ field'[j] = <<"skipped">>
          \/ ~Skipped(j) /\ ~Unresolved(j) /\ field'[j] = <<"is", PatchBuf(j)>>
    BY <2>4 DEF FieldOK
  <2> QED BY <1>1, <2>3, <2>4, <2>5, <2>6 DEF FieldOK, AfterAppend, Null
<1>3. CASE field' = field /\ pc # "apply"
  <2>1. CASE pc \in AfterAppend \cup {"failed"}
    <3>1. FALSE
      BY <1>3, <2>1 DEF Next, AssignWeakGotIds, ScanRelocations, MarkCopyRelocs,
         CountDynamicRelocs, PredefineAndDefsym, ComputeLayout, FinalizeSymbols, CheckUndefined,
         AppendDynamicRelocs, ApplyReloc, Done, AfterAppend
    <3> QED BY <3>1
  <2>2. CASE pc \notin AfterAppend \cup {"failed"}
    <3>1. pc' # "done"
      BY <1>3 DEF Next, AssignWeakGotIds, ScanRelocations, MarkCopyRelocs,
         CountDynamicRelocs, PredefineAndDefsym, ComputeLayout, FinalizeSymbols, CheckUndefined,
         AppendDynamicRelocs, ApplyReloc, Done
    <3> QED BY <1>1, <1>3, <2>2, <3>1 DEF FieldOK, Null
  <2> QED BY <2>1, <2>2
<1>4. CASE Done
  <2>1. \A j : /\ Skipped(j)' = Skipped(j) /\ Unresolved(j)' = Unresolved(j)
               /\ PatchBuf(j)' = PatchBuf(j)
    BY <1>1, <1>4, PatchKept DEF Done
  <2>2. /\ field' = field /\ pc = "apply" /\ pc' = "done" /\ Pending = {}
    BY <1>4 DEF Done
  <2>3. Pending' = {}
    BY <1>1, <2>2 DEF Pending, Null
  <2> QED BY <1>1, <2>1, <2>2, <2>3 DEF FieldOK, AfterAppend, Null
<1> QED BY <1>2, <1>3, <1>4 DEF Next, AssignWeakGotIds, ScanRelocations, MarkCopyRelocs,
           CountDynamicRelocs, PredefineAndDefsym, ComputeLayout, FinalizeSymbols,
           CheckUndefined, AppendDynamicRelocs

(* A link fails over a symbol nobody defines, in check_undefined or at the *)
(* reference, and only then.                                               *)
Nothing(s) ==
  /\ prog.attr[s].def = "none" /\ ~prog.attr[s].import
  /\ prog.attr[s].bind = "global" /\ prog.attr[s].late = "no"
  /\ prog.attr[s].helper => prog.shared

FailedOK == pc = "failed" => \E s \in Globals : Nothing(s)

LEMMA FailuresKept ==
  ASSUME Started, TableOK, FailedOK, Next
  PROVE  FailedOK'
<1>1. prog' = prog /\ prog \in Programs
  BY PassesKept DEF Started
<1>2. Globals' = Globals /\ \A s : Nothing(s)' = Nothing(s)
  BY <1>1, ProgramKept DEF Nothing
<1>3. \A s \in Globals : pc \in AfterProvide /\ ~IsDefined(s) /\ prog.attr[s].bind # "weak" =>
        /\ prog.attr[s].def = "none" /\ ~prog.attr[s].import
        /\ prog.attr[s].bind = "global" /\ prog.attr[s].late = "no"
  <2> TAKE s \in Globals
  <2>1. IsSymbol(prog.attr[s]) /\ ~Local(s)
    BY <1>1, SymbolFacts, ProgramFacts DEF Globals
  <2> QED BY <2>1 DEF IsSymbol, TableOK, IsDefined, Local
<1>4. CASE CheckUndefined
  <2>1. \A s \in Undefined : Nothing(s)
    BY <1>3, <1>4 DEF Undefined, Nothing, CheckUndefined, AfterProvide, AfterLayout, AfterFinalize
  <2>2. Undefined \subseteq Globals
    BY DEF Undefined
  <2> QED BY <1>2, <1>4, <2>1, <2>2 DEF CheckUndefined, FailedOK
<1>5. CASE \E i \in Sites : ApplyReloc(i)
  <2>1. PICK i \in Sites : ApplyReloc(i)
    BY <1>5
  <2>2. CASE pc' = "failed"
    <3>1. pc = "apply" /\ ~Skipped(i) /\ Unresolved(i)
      BY <2>1, <2>2 DEF ApplyReloc
    <3>2. Sym(i) \in Globals
      BY <1>1, <3>1, SiteFacts DEF Unresolved
    <3>3. /\ prog.attr[Sym(i)].def = "none" /\ ~prog.attr[Sym(i)].import
          /\ prog.attr[Sym(i)].bind = "global" /\ prog.attr[Sym(i)].late = "no"
      BY <1>3, <3>1, <3>2 DEF Unresolved, Attr, AfterProvide, AfterLayout, AfterFinalize,
                              AfterAppend
    <3>4. Attr(i).helper => TypeOf(i) = "PLT32"
      BY <1>1, <3>3, SiteFacts DEF IsReference, Attr
    <3>5. Nothing(Sym(i))
      BY <3>1, <3>3, <3>4 DEF Nothing, Skipped, Attr
    <3> QED BY <1>2, <3>2, <3>5 DEF FailedOK
  <2> QED BY <2>2 DEF FailedOK
<1>6. CASE pc' # "failed"
  BY <1>6 DEF FailedOK
<1> QED BY <1>4, <1>5, <1>6 DEF Next, AssignWeakGotIds, ScanRelocations, MarkCopyRelocs,
           CountDynamicRelocs, PredefineAndDefsym, ComputeLayout, FinalizeSymbols,
           AppendDynamicRelocs, Done

LEMMA FailsRight ==
  ASSUME Started, TableOK, FieldOK, FailedOK
  PROVE  FailsExactly
<1>1. ASSUME pc = "done", NEW i \in Sites, SitePlaced(i), Nothing(Sym(i))
      PROVE  FALSE
  <2>1. field[i] # Null
    BY <1>1 DEF FieldOK, Pending
  <2>2. ~Local(Sym(i)) /\ Sym(i) \in Globals
    BY <1>1, SiteFacts DEF Nothing, Local, Started
  <2>3. ~Skipped(i)
    BY <1>1, <2>2 DEF Skipped, Nothing, Attr
  <2>4. ~IsDefined(Sym(i))
    BY <1>1, <2>2 DEF TableOK, IsDefined, Nothing
  <2>5. Unresolved(i)
    BY <1>1, <2>2, <2>4 DEF Unresolved, Nothing, Attr
  <2> QED BY <2>1, <2>3, <2>5 DEF FieldOK
<1> QED BY <1>1 DEF FailsExactly, FailedOK, Nothing

-----------------------------------------------------------------------------
(* Sizes.  A list of entries made from a set is not longer than the set.   *)
LEMMA ImageSize ==
  ASSUME NEW X, IsFiniteSet(X), NEW f, NEW Z, Z \subseteq {f[x] : x \in X}
  PROVE  IsFiniteSet(Z) /\ Cardinality(Z) \in Nat /\ Cardinality(Z) <= Cardinality(X)
<1> DEFINE g == [x \in X |-> f[x]]
           Y == {f[x] : x \in X}
<1>1. g \in Surjection(X, Y)
  BY DEF Surjection
<1>2. IsFiniteSet(Y) /\ Cardinality(Y) <= Cardinality(X)
  BY <1>1, FS_Surjection
<1>3. IsFiniteSet(Z) /\ Cardinality(Z) <= Cardinality(Y)
  BY <1>2, FS_Subset
<1>4. Cardinality(X) \in Nat /\ Cardinality(Y) \in Nat /\ Cardinality(Z) \in Nat
  BY <1>2, <1>3, FS_CardinalityType
<1> QED BY <1>2, <1>3, <1>4

LEMMA UnionSize ==
  ASSUME NEW X, IsFiniteSet(X), NEW Y, IsFiniteSet(Y)
  PROVE  /\ IsFiniteSet(X \cup Y) /\ Cardinality(X \cup Y) \in Nat
         /\ Cardinality(X) \in Nat /\ Cardinality(Y) \in Nat
         /\ Cardinality(X \cup Y) <= Cardinality(X) + Cardinality(Y)
         /\ X \cap Y = {} => Cardinality(X \cup Y) = Cardinality(X) + Cardinality(Y)
<1>1. IsFiniteSet(X \cap Y)
  BY FS_Subset
<1>2. /\ IsFiniteSet(X \cup Y)
      /\ Cardinality(X \cup Y) = Cardinality(X) + Cardinality(Y) - Cardinality(X \cap Y)
  BY FS_Union
<1>3. /\ Cardinality(X) \in Nat /\ Cardinality(Y) \in Nat /\ Cardinality(X \cap Y) \in Nat
      /\ Cardinality(X \cup Y) \in Nat
  BY <1>1, <1>2, FS_CardinalityType
<1>4. X \cap Y = {} => Cardinality(X \cap Y) = 0
  BY FS_EmptySet
<1> QED BY <1>2, <1>3, <1>4

(* A list there is room for is appended whole.                             *)
LEMMA FitsAll ==
  ASSUME NEW list, IsFiniteSet(list), NEW room \in Int, Cardinality(list) <= room,
         NEW kept, Fits(list, room, kept)
  PROVE  kept = list
<1>1. Cardinality(list) \in Nat
  BY FS_CardinalityType
<1> DEFINE n == Cardinality(list)
<1>2. Min({n, room}) = n
  <2> HIDE DEF n
  <2>1. n \in Int /\ n <= room
    BY <1>1 DEF n
  <2>2. \A y \in {n, room} : n <= y
    BY <2>1
  <2>3. \A x \in {n, room} : (\A y \in {n, room} : x <= y) => x = n
    BY <2>1
  <2>4. \E x \in {n, room} : \A y \in {n, room} : x <= y
    BY <2>2
  <2> QED BY <2>3, <2>4 DEF Min
<1>3. kept \in SUBSET list /\ Cardinality(kept) = Cardinality(list)
  BY <1>2 DEF Fits
<1> QED BY <1>3, FS_Subset

(* Four lists in a row, each finding the room the ones before it left.     *)
LEMMA FitsInTurn ==
  ASSUME NEW A, NEW B, NEW C, NEW D,
         IsFiniteSet(A), IsFiniteSet(B), IsFiniteSet(C), IsFiniteSet(D),
         NEW room \in Int,
         Cardinality(A) + Cardinality(B) + Cardinality(C) + Cardinality(D) <= room,
         NEW a, NEW b, NEW c, NEW d,
         Fits(A, room, a), Fits(B, room - Cardinality(a), b),
         Fits(C, room - Cardinality(a \cup b), c), Fits(D, room - Cardinality(a \cup b \cup c), d)
  PROVE  a = A /\ b = B /\ c = C /\ d = D
<1>1. /\ Cardinality(A) \in Nat /\ Cardinality(B) \in Nat
      /\ Cardinality(C) \in Nat /\ Cardinality(D) \in Nat
  BY FS_CardinalityType
<1>2. a = A
  BY <1>1, FitsAll
<1>3. b = B
  <2>1. Cardinality(B) <= room - Cardinality(A) /\ room - Cardinality(A) \in Int
    BY <1>1
  <2> QED BY <1>2, <2>1, FitsAll
<1>4. /\ IsFiniteSet(A \cup B) /\ Cardinality(A \cup B) \in Nat
      /\ Cardinality(A \cup B) <= Cardinality(A) + Cardinality(B)
  BY UnionSize
<1>5. c = C
  <2>1. Cardinality(C) <= room - Cardinality(A \cup B) /\ room - Cardinality(A \cup B) \in Int
    BY <1>1, <1>4
  <2> QED BY <1>2, <1>3, <2>1, FitsAll
<1>6. /\ Cardinality(A \cup B \cup C) \in Nat
      /\ Cardinality(A \cup B \cup C) <= Cardinality(A \cup B) + Cardinality(C)
  BY <1>4, UnionSize
<1>7. d = D
  <2>1. /\ Cardinality(D) <= room - Cardinality(A \cup B \cup C)
        /\ room - Cardinality(A \cup B \cup C) \in Int
    BY <1>1, <1>4, <1>6
  <2> QED BY <1>2, <1>3, <1>5, <2>1, FitsAll
<1> QED BY <1>2, <1>3, <1>5, <1>7

-----------------------------------------------------------------------------
(* What the collections find is what was counted, but for the gaps.        *)
Passed == Started /\ TableOK /\ SlotsOK /\ CountOK /\ LayoutOK /\ pc \in AfterFinalize

LEMMA FinalTable ==
  ASSUME Passed
  PROVE  /\ prog \in Programs /\ GotSyms = Wanted("Got") /\ Wanted("Got") \subseteq Globals
         /\ \A tag \in Tags : Refs(tag) = Wanted(tag)
         /\ \A s \in Globals :
              /\ IsSymbol(prog.attr[s]) /\ ~Local(s)
              /\ NotCopied(s) <=> Outside(s)
              /\ InImage(s) <=> (Known(s) \/ prog.attr[s].late # "no") /\ ~Outside(s)
              /\ table[s].dynsym <=> prog.attr[s].import
              /\ table[s].defined_in <=> prog.attr[s].def # "none" \/ prog.attr[s].late # "no"
<1>1. /\ prog \in Programs /\ pc \in AfterScan /\ pc \in AfterCopy /\ pc \in AfterCount
      /\ pc \in AfterProvide
  BY DEF Passed, Started, AfterScan, AfterCopy, AfterCount, AfterProvide, AfterLayout
<1>2. /\ GotSyms = Wanted("Got") /\ Wanted("Got") \subseteq Globals
      /\ \A tag \in Tags : Refs(tag) = Wanted(tag)
  BY <1>1, GotPltWanted, WantedNamed, RefsWanted DEF Tags, Passed
<1>3. ASSUME NEW s \in Globals
      PROVE  /\ IsSymbol(prog.attr[s]) /\ ~Local(s)
             /\ NotCopied(s) <=> Outside(s)
             /\ InImage(s) <=> (Known(s) \/ prog.attr[s].late # "no") /\ ~Outside(s)
             /\ table[s].dynsym <=> prog.attr[s].import
             /\ table[s].defined_in <=> prog.attr[s].def # "none" \/ prog.attr[s].late # "no"
  <2>1. IsSymbol(prog.attr[s]) /\ ~Local(s)
    BY <1>1, SymbolFacts, ProgramFacts DEF Globals
  <2>2. /\ table[s].defined_in <=> prog.attr[s].def # "none" \/ prog.attr[s].late # "no"
        /\ table[s].copy_reloc <=> Copied(s)
        /\ table[s].dynsym <=> prog.attr[s].import
    BY <1>1 DEF Passed, TableOK
  <2>3. NotCopied(s) <=> Outside(s)
    BY <2>2 DEF NotCopied, Outside
  <2> QED BY <2>1, <2>2, <2>3 DEF InImage, IsDefined, Known
<1> QED BY <1>1, <1>2, <1>3

LEMMA RelativeSize ==
  ASSUME Passed, ~Undercounted, EtDyn
  PROVE  /\ IsFiniteSet(Relative) /\ IsFiniteSet(Irelative)
         /\ Cardinality(Relative) + Cardinality(Irelative) <= count.relative_total
<1>1. /\ prog \in Programs /\ GotSyms = Wanted("Got") /\ Wanted("Got") \subseteq Globals
      /\ \A s \in Globals :
           InImage(s) <=> (Known(s) \/ prog.attr[s].late # "no") /\ ~Outside(s)
  BY FinalTable
<1>2. {j \in DataSites : Biased(j)} \subseteq RelSites
  <2> SUFFICES ASSUME NEW j \in DataSites, Biased(j) PROVE j \in RelSites
    OBVIOUS
  <2>1. j \in Sites /\ Alloc(j) /\ SitePlaced(j) /\ TypeOf(j) = "R64"
    BY DEF DataSites
  <2>2. CASE Local(Sym(j))
    BY <2>1, <2>2 DEF Biased, RelSites
  <2>3. CASE ~Local(Sym(j))
    <3>1. Sym(j) \in Globals /\ InImage(Sym(j))
      BY <1>1, <2>1, <2>3, SiteFacts DEF Biased
    <3>2. Attr(j).late = "no"
      BY <2>1 DEF Undercounted, DefinedTooLate
    <3> QED BY <1>1, <2>1, <2>3, <3>1, <3>2 DEF RelSites, Attr
  <2> QED BY <2>2, <2>3
<1>3. CollectGot \subseteq RelGot
  <2> SUFFICES ASSUME NEW s \in CollectGot PROVE s \in RelGot
    OBVIOUS
  <2>1. s \in Wanted("Got") /\ s \in Globals /\ InImage(s)
    BY <1>1 DEF CollectGot
  <2>2. PICK i \in Sites : Sym(i) = s /\ TypeOf(i) = "GOT"
    BY <2>1 DEF Wanted, Needs
  <2>3. prog.attr[s].late = "no"
    BY <2>2 DEF Undercounted, DefinedTooLate, Attr
  <2> QED BY <1>1, <2>1, <2>3 DEF RelGot
<1>4. IsFiniteSet(RelSites) /\ IsFiniteSet(RelGot)
  <2>1. RelSites \subseteq Sites /\ RelGot \subseteq Symbols
    BY <1>1, ProgramFacts DEF RelSites, RelGot
  <2> QED BY <1>1, <2>1, ProgramFacts, FS_Subset
<1> DEFINE f == [i \in RelSites |->
                   IF Attr(i).ifunc THEN Entry(SiteWord(i), "IRELATIVE", Sym(i))
                   ELSE Entry(SiteWord(i), "RELATIVE", Target(Sym(i)))]
           g == [s \in RelGot |->
                   IF prog.attr[s].ifunc THEN Entry(Slot("Got", s), "IRELATIVE", s)
                   ELSE Entry(Slot("Got", s), "RELATIVE", table[s].va)]
           Fs == {f[i] : i \in RelSites}
           Gs == {g[s] : s \in RelGot}
<1>5. Relative \cup Irelative \subseteq Fs \cup Gs
  <2>1. ASSUME NEW i \in DataSites, Biased(i), ~Attr(i).ifunc
        PROVE  Entry(SiteWord(i), "RELATIVE", Target(Sym(i))) \in Fs
    <3>1. i \in RelSites /\ f[i] = Entry(SiteWord(i), "RELATIVE", Target(Sym(i)))
      BY <1>2, <2>1
    <3> HIDE DEF f
    <3> QED BY <3>1
  <2>2. ASSUME NEW i \in DataSites, Biased(i), Attr(i).ifunc
        PROVE  Entry(SiteWord(i), "IRELATIVE", Sym(i)) \in Fs
    <3>1. i \in RelSites /\ f[i] = Entry(SiteWord(i), "IRELATIVE", Sym(i))
      BY <1>2, <2>2
    <3> HIDE DEF f
    <3> QED BY <3>1
  <2>3. ASSUME NEW s \in CollectGot, ~prog.attr[s].ifunc
        PROVE  Entry(Slot("Got", s), "RELATIVE", table[s].va) \in Gs
    <3>1. s \in RelGot /\ g[s] = Entry(Slot("Got", s), "RELATIVE", table[s].va)
      BY <1>3, <2>3
    <3> HIDE DEF g
    <3> QED BY <3>1
  <2>4. ASSUME NEW s \in CollectGot, prog.attr[s].ifunc
        PROVE  Entry(Slot("Got", s), "IRELATIVE", s) \in Gs
    <3>1. s \in RelGot /\ g[s] = Entry(Slot("Got", s), "IRELATIVE", s)
      BY <1>3, <2>4
    <3> HIDE DEF g
    <3> QED BY <3>1
  <2> HIDE DEF Fs, Gs
  <2> QED BY <2>1, <2>2, <2>3, <2>4 DEF Relative, Irelative
<1>6. IsFiniteSet(Fs) /\ Cardinality(Fs) <= Cardinality(RelSites)
  <2> HIDE DEF f
  <2> QED BY <1>4, ImageSize
<1>7. IsFiniteSet(Gs) /\ Cardinality(Gs) <= Cardinality(RelGot)
  <2> HIDE DEF g
  <2> QED BY <1>4, ImageSize
<1> HIDE DEF Fs, Gs
<1>8. Relative \cap Irelative = {}
  <2>1. \A e \in Relative : e.type = "RELATIVE"
    BY DEF Relative, Entry
  <2>2. \A e \in Irelative : e.type = "IRELATIVE"
    BY DEF Irelative, Entry
  <2> QED BY <2>1, <2>2
<1>9. /\ IsFiniteSet(Fs \cup Gs) /\ Cardinality(Fs \cup Gs) \in Nat
      /\ Cardinality(Fs \cup Gs) <= Cardinality(Fs) + Cardinality(Gs)
      /\ Cardinality(Fs) \in Nat /\ Cardinality(Gs) \in Nat
  BY <1>6, <1>7, UnionSize
<1>10. /\ IsFiniteSet(Relative \cup Irelative)
       /\ Cardinality(Relative \cup Irelative) <= Cardinality(Fs \cup Gs)
  BY <1>5, <1>9, FS_Subset
<1>11. IsFiniteSet(Relative) /\ IsFiniteSet(Irelative)
  <2>1. Relative \in SUBSET (Relative \cup Irelative) /\ Irelative \in SUBSET (Relative \cup Irelative)
    OBVIOUS
  <2> QED BY <1>10, <2>1, FS_Subset
<1>12. /\ Cardinality(Relative \cup Irelative) = Cardinality(Relative) + Cardinality(Irelative)
       /\ Cardinality(Relative) \in Nat /\ Cardinality(Irelative) \in Nat
  BY <1>8, <1>11, UnionSize
<1>13. count.relative_total = Cardinality(RelSites) + Cardinality(RelGot)
  BY DEF Passed, CountOK, AfterCount, AfterProvide, AfterLayout
<1>14. Cardinality(RelSites) \in Nat /\ Cardinality(RelGot) \in Nat
  BY <1>4, FS_CardinalityType
<1> QED BY <1>6, <1>7, <1>9, <1>10, <1>11, <1>12, <1>13, <1>14

LEMMA SymbolicSize ==
  ASSUME Passed, EtDyn
  PROVE  IsFiniteSet(Symbolic) /\ Cardinality(Symbolic) <= count.symbolic_data
<1>1. /\ prog \in Programs
      /\ \A s \in Globals : NotCopied(s) <=> Outside(s)
  BY FinalTable
<1>2. IsFiniteSet(SymSites)
  <2>1. SymSites \subseteq Sites
    BY DEF SymSites
  <2> QED BY <1>1, <2>1, ProgramFacts, FS_Subset
<1> DEFINE f == [i \in SymSites |-> Entry(SiteWord(i), "SYMBOL", Sym(i))]
<1>3. Symbolic \subseteq {f[i] : i \in SymSites}
  <2> SUFFICES ASSUME NEW j \in DataSites, ~Local(Sym(j)), NotCopied(Sym(j))
               PROVE  Entry(SiteWord(j), "SYMBOL", Sym(j)) \in {f[i] : i \in SymSites}
    BY DEF Symbolic
  <2>1. j \in SymSites
    BY <1>1, SiteFacts DEF SymSites, DataSites
  <2>2. f[j] = Entry(SiteWord(j), "SYMBOL", Sym(j))
    BY <2>1
  <2> HIDE DEF f
  <2> QED BY <2>1, <2>2
<1>4. count.symbolic_data = Cardinality(SymSites)
  BY DEF Passed, CountOK, AfterCount, AfterProvide, AfterLayout
<1> HIDE DEF f
<1> QED BY <1>2, <1>3, <1>4, ImageSize

(* A slot that is not filled at link time belongs to an import: apart from *)
(* DroppedTls, what has no place in the TLS block is not defined here.     *)
LEMMA TlsNotHere ==
  ASSUME prog \in Programs, ~Undercounted, NEW r \in Symbols, ~TlsHere(r),
         \/ r \in Wanted("TlsGd")
         \/ r \in Wanted("TlsIe") /\ ~EtDyn /\ Imports = {}
  PROVE  prog.attr[r].def = "none" /\ prog.attr[r].import /\ r \in Imports
<1>1. PICK i \in Sites : /\ Sym(i) = r
                         /\ \/ TypeOf(i) = "TLSGD" /\ prog.shared
                            \/ TypeOf(i) = "GOTTPOFF" /\ ~EtDyn /\ Imports = {}
                            \/ TypeOf(i) \in {"TLSGD", "TLSDESC"} /\ Attr(i).import
  BY DEF Wanted, Needs, Symbols
<1>2. /\ IsSymbol(prog.attr[r]) /\ r # NoId
      /\ IsReference(prog, prog.attr[r], TypeOf(i), prog.sites[i].sec)
  BY <1>1, SiteFacts DEF Attr
<1>3. TypeOf(i) \in TlsTypes
  BY <1>1 DEF TlsTypes
<1>4. prog.attr[r].import => prog.attr[r].def = "none" /\ r \in Imports
  BY <1>2 DEF IsSymbol, Imports, Globals, Local, Symbols
<1>5. ~prog.attr[r].import => prog.attr[r].def = "tls" /\ ~prog.attr[r].placed
  BY <1>2, <1>3 DEF IsReference, TlsHere
<1>6. ~prog.attr[r].import => DroppedTls(i)
  BY <1>1, <1>5 DEF DroppedTls, Attr
<1> QED BY <1>4, <1>6 DEF Undercounted

LEMMA TlsSize ==
  ASSUME Passed, ~Undercounted
  PROVE  IsFiniteSet(TlsEntries) /\ Cardinality(TlsEntries) <= count.tls
<1>1. /\ prog \in Programs
      /\ Refs("TlsGd") = Wanted("TlsGd") /\ Refs("TlsDesc") = Wanted("TlsDesc")
      /\ Refs("TlsIe") = Wanted("TlsIe") /\ Refs("TlsLdm") = Wanted("TlsLdm")
  BY FinalTable DEF Tags
<1>2. \A tag \in Tags : IsFiniteSet(Wanted(tag)) /\ Cardinality(Wanted(tag)) \in Nat
  <2> TAKE tag \in Tags
  <2>1. IsFiniteSet(Symbols \cup {NoId})
    BY <1>1, ProgramFacts, FS_AddElement
  <2>2. Wanted(tag) \in SUBSET (Symbols \cup {NoId})
    BY DEF Wanted
  <2> QED BY <2>1, <2>2, FS_Subset, FS_CardinalityType
<1>3. count.tls = IF EtDyn \/ Imports # {} THEN TlsRoom ELSE 0
  BY DEF Passed, CountOK, AfterCount, AfterProvide, AfterLayout
<1> DEFINE Ie == {Entry(Slot("TlsIe", r), "TPOFF64", TlsSymbol(r)) :
                    r \in {q \in Wanted("TlsIe") : prog.shared \/ ~TlsHere(q)}}
           ie == [r \in Wanted("TlsIe") |-> Entry(Slot("TlsIe", r), "TPOFF64", TlsSymbol(r))]
<1>4. IsFiniteSet(Ie) /\ Cardinality(Ie) \in Nat /\ Cardinality(Ie) <= Cardinality(Wanted("TlsIe"))
  <2>1. Ie \subseteq {ie[r] : r \in Wanted("TlsIe")}
    OBVIOUS
  <2> HIDE DEF Ie, ie
  <2> QED BY <1>2, <2>1, ImageSize DEF Tags
<1>5. CASE ~prog.shared
  <2>1. TlsEntries = Ie
    BY <1>1, <1>5 DEF TlsEntries
  <2>2. CASE EtDyn \/ Imports # {}
    <3> HIDE DEF Ie
    <3> QED BY <1>3, <1>4, <1>5, <2>1, <2>2 DEF TlsRoom
  <2>3. CASE ~(EtDyn \/ Imports # {})
    <3>1. \A r \in Wanted("TlsIe") : TlsHere(r)
      <4> SUFFICES ASSUME NEW r \in Wanted("TlsIe"), ~TlsHere(r) PROVE FALSE
        OBVIOUS
      <4>1. r \in Symbols
        BY <1>1, WantedNamed DEF Tags
      <4> QED BY <1>1, <2>3, <4>1, TlsNotHere
    <3>2. Ie = {}
      BY <1>5, <3>1
    <3> HIDE DEF Ie
    <3> QED BY <1>3, <2>1, <2>3, <3>2, FS_EmptySet
  <2> QED BY <2>2, <2>3
<1>6. CASE prog.shared
  <2> DEFINE Gd == {Entry(Slot("TlsGd", r), "DTPMOD64", TlsSymbol(r)) : r \in Wanted("TlsGd")}
             gd == [r \in Wanted("TlsGd") |-> Entry(Slot("TlsGd", r), "DTPMOD64", TlsSymbol(r))]
             Gd2 == {Entry(Second(Slot("TlsGd", r)), "DTPOFF64", r) :
                       r \in {q \in Wanted("TlsGd") : ~TlsHere(q)}}
             gd2 == [r \in GdPairs |-> Entry(Second(Slot("TlsGd", r)), "DTPOFF64", r)]
             Desc == {Entry(Slot("TlsDesc", r), "TLSDESC", TlsSymbol(r)) : r \in Wanted("TlsDesc")}
             desc == [r \in Wanted("TlsDesc") |-> Entry(Slot("TlsDesc", r), "TLSDESC", TlsSymbol(r))]
             Ldm == {Entry(Slot("TlsLdm", r), "DTPMOD64", DtpOffset(r)) : r \in Wanted("TlsLdm")}
             ldm == [r \in Wanted("TlsLdm") |-> Entry(Slot("TlsLdm", r), "DTPMOD64", DtpOffset(r))]
  <2>1. TlsEntries = Gd \cup Gd2 \cup Desc \cup Ldm \cup Ie
    BY <1>1, <1>6 DEF TlsEntries
  <2>2. IsFiniteSet(Gd) /\ Cardinality(Gd) \in Nat /\ Cardinality(Gd) <= Cardinality(Wanted("TlsGd"))
    <3>1. Gd \subseteq {gd[r] : r \in Wanted("TlsGd")}
      OBVIOUS
    <3> HIDE DEF Gd, gd
    <3> QED BY <1>2, <3>1, ImageSize DEF Tags
  <2>3. IsFiniteSet(GdPairs) /\ Cardinality(GdPairs) \in Nat
    <3>1. GdPairs \in SUBSET Wanted("TlsGd")
      BY DEF GdPairs
    <3>2. IsFiniteSet(Wanted("TlsGd"))
      BY <1>2 DEF Tags
    <3> QED BY <3>1, <3>2, FS_Subset, FS_CardinalityType
  <2>4. IsFiniteSet(Gd2) /\ Cardinality(Gd2) \in Nat /\ Cardinality(Gd2) <= Cardinality(GdPairs)
    <3>1. \A q \in Wanted("TlsGd") : ~TlsHere(q) => q \in GdPairs
      <4>1. Wanted("TlsGd") \subseteq Symbols
        BY <1>1, WantedNamed DEF Tags
      <4> QED BY <1>1, <4>1, TlsNotHere DEF GdPairs
    <3>2. Gd2 \subseteq {gd2[r] : r \in GdPairs}
      BY <3>1
    <3> HIDE DEF Gd2, gd2
    <3> QED BY <2>3, <3>2, ImageSize
  <2>5. /\ IsFiniteSet(Desc) /\ Cardinality(Desc) \in Nat
        /\ Cardinality(Desc) <= Cardinality(Wanted("TlsDesc"))
    <3>1. Desc \subseteq {desc[r] : r \in Wanted("TlsDesc")}
      OBVIOUS
    <3> HIDE DEF Desc, desc
    <3> QED BY <1>2, <3>1, ImageSize DEF Tags
  <2>6. /\ IsFiniteSet(Ldm) /\ Cardinality(Ldm) \in Nat
        /\ Cardinality(Ldm) <= Cardinality(Wanted("TlsLdm"))
    <3>1. Ldm \subseteq {ldm[r] : r \in Wanted("TlsLdm")}
      OBVIOUS
    <3> HIDE DEF Ldm, ldm
    <3> QED BY <1>2, <3>1, ImageSize DEF Tags
  <2> HIDE DEF Gd, Gd2, Desc, Ldm, Ie
  <2>7. /\ IsFiniteSet(Gd \cup Gd2) /\ Cardinality(Gd \cup Gd2) \in Nat
        /\ Cardinality(Gd \cup Gd2) <= Cardinality(Gd) + Cardinality(Gd2)
    BY <2>2, <2>4, UnionSize
  <2>8. /\ IsFiniteSet(Gd \cup Gd2 \cup Desc) /\ Cardinality(Gd \cup Gd2 \cup Desc) \in Nat
        /\ Cardinality(Gd \cup Gd2 \cup Desc) <= Cardinality(Gd \cup Gd2) + Cardinality(Desc)
    BY <2>5, <2>7, UnionSize
  <2>9. /\ IsFiniteSet(Gd \cup Gd2 \cup Desc \cup Ldm)
        /\ Cardinality(Gd \cup Gd2 \cup Desc \cup Ldm) \in Nat
        /\ Cardinality(Gd \cup Gd2 \cup Desc \cup Ldm)
             <= Cardinality(Gd \cup Gd2 \cup Desc) + Cardinality(Ldm)
    BY <2>6, <2>8, UnionSize
  <2>10. /\ IsFiniteSet(TlsEntries) /\ Cardinality(TlsEntries) \in Nat
         /\ Cardinality(TlsEntries) <= Cardinality(Gd \cup Gd2 \cup Desc \cup Ldm) + Cardinality(Ie)
    BY <1>4, <2>1, <2>9, UnionSize
  <2>11. count.tls = Cardinality(Wanted("TlsGd")) + Cardinality(GdPairs)
                       + Cardinality(Wanted("TlsDesc")) + Cardinality(Wanted("TlsIe"))
                       + Cardinality(Wanted("TlsLdm"))
    BY <1>3, <1>6 DEF TlsRoom, EtDyn
  <2>12. /\ Cardinality(Wanted("TlsGd")) \in Nat /\ Cardinality(Wanted("TlsDesc")) \in Nat
         /\ Cardinality(Wanted("TlsIe")) \in Nat /\ Cardinality(Wanted("TlsLdm")) \in Nat
    BY <1>2 DEF Tags
  <2> QED BY <1>4, <2>2, <2>3, <2>4, <2>5, <2>6, <2>7, <2>8, <2>9, <2>10, <2>11, <2>12
<1> QED BY <1>5, <1>6

(* The room .rela.dyn has for the four lists of append_all_dynamic_relocs. *)
LEMMA RoomEnough ==
  ASSUME Passed, ~Undercounted, Dynamic
  PROVE  LET relative == IF EtDyn THEN Relative ELSE {}
             irelative == IF EtDyn THEN Irelative ELSE {}
             symbolic == IF EtDyn THEN Symbolic ELSE {}
             room == layout.cap - Cardinality(layout.glob_dat) - Cardinality(layout.copies)
         IN /\ IsFiniteSet(relative) /\ IsFiniteSet(irelative) /\ IsFiniteSet(symbolic)
            /\ room \in Int
            /\ Cardinality(relative) + Cardinality(irelative) + Cardinality(TlsEntries)
                 + Cardinality(symbolic) <= room
<1> DEFINE relative == IF EtDyn THEN Relative ELSE {}
           irelative == IF EtDyn THEN Irelative ELSE {}
           symbolic == IF EtDyn THEN Symbolic ELSE {}
           room == layout.cap - Cardinality(layout.glob_dat) - Cardinality(layout.copies)
<1>1. prog \in Programs /\ Wanted("Got") \subseteq Globals /\ pc \in AfterLayout /\ pc \in AfterCount
  BY FinalTable DEF Passed, AfterCount, AfterProvide, AfterLayout
<1>2. /\ layout.cap = Cardinality(OutGot) + Cardinality(CopySyms)
                        + count.relative_total + count.tls + count.symbolic_data
      /\ layout.glob_dat = {Entry(Slot("Got", s), "SYMBOL", s) : s \in OutGot}
      /\ layout.copies = {Entry(Here(s), "COPY", s) : s \in CopySyms}
  BY <1>1 DEF Passed, LayoutOK
<1>3. /\ IsFiniteSet(OutGot) /\ IsFiniteSet(CopySyms)
      /\ Cardinality(OutGot) \in Nat /\ Cardinality(CopySyms) \in Nat
  <2>1. OutGot \subseteq Symbols /\ CopySyms \subseteq Symbols /\ IsFiniteSet(Symbols)
    BY <1>1, ProgramFacts DEF OutGot, CopySyms
  <2> QED BY <2>1, FS_Subset, FS_CardinalityType
<1>4. Cardinality(layout.glob_dat) \in Nat /\ Cardinality(layout.glob_dat) <= Cardinality(OutGot)
  <2> DEFINE f == [s \in OutGot |-> Entry(Slot("Got", s), "SYMBOL", s)]
  <2>1. layout.glob_dat \subseteq {f[s] : s \in OutGot}
    BY <1>2
  <2> HIDE DEF f
  <2> QED BY <1>3, <2>1, ImageSize
<1>5. Cardinality(layout.copies) \in Nat /\ Cardinality(layout.copies) <= Cardinality(CopySyms)
  <2> DEFINE f == [s \in CopySyms |-> Entry(Here(s), "COPY", s)]
  <2>1. layout.copies \subseteq {f[s] : s \in CopySyms}
    BY <1>2
  <2> HIDE DEF f
  <2> QED BY <1>3, <2>1, ImageSize
<1>6. /\ count.relative_total \in Nat /\ count.symbolic_data \in Nat
      /\ IsFiniteSet(relative) /\ IsFiniteSet(irelative) /\ IsFiniteSet(symbolic)
      /\ Cardinality(relative) + Cardinality(irelative) <= count.relative_total
      /\ Cardinality(symbolic) <= count.symbolic_data
  <2>1. CASE EtDyn
    <3>1. IsFiniteSet(RelSites) /\ IsFiniteSet(SymSites) /\ IsFiniteSet(RelGot)
      <4>1. RelSites \subseteq Sites /\ SymSites \subseteq Sites /\ RelGot \subseteq Symbols
        BY <1>1, ProgramFacts DEF RelSites, SymSites, RelGot
      <4> QED BY <1>1, <4>1, ProgramFacts, FS_Subset
    <3>2. /\ Cardinality(RelSites) \in Nat /\ Cardinality(SymSites) \in Nat
          /\ Cardinality(RelGot) \in Nat
      BY <3>1, FS_CardinalityType
    <3>3. /\ count.relative_total = Cardinality(RelSites) + Cardinality(RelGot)
          /\ count.symbolic_data = Cardinality(SymSites)
      BY <1>1, <2>1 DEF Passed, CountOK
    <3> QED BY <2>1, <3>2, <3>3, RelativeSize, SymbolicSize
  <2>2. CASE ~EtDyn
    <3>1. count.relative_total = 0 /\ count.symbolic_data = 0
      BY <1>1, <2>2 DEF Passed, CountOK
    <3>2. relative = {} /\ irelative = {} /\ symbolic = {}
      BY <2>2
    <3>3. IsFiniteSet({}) /\ Cardinality({}) = 0
      BY FS_EmptySet
    <3> HIDE DEF relative, irelative, symbolic
    <3> QED BY <3>1, <3>2, <3>3
  <2> QED BY <2>1, <2>2
<1>7. /\ Cardinality(TlsEntries) <= count.tls /\ Cardinality(TlsEntries) \in Nat
      /\ count.tls \in Nat
  <2>1. IsFiniteSet(TlsEntries) /\ Cardinality(TlsEntries) <= count.tls
    BY TlsSize
  <2>2. count.tls = IF EtDyn \/ Imports # {} THEN TlsRoom ELSE 0
    BY <1>1 DEF Passed, CountOK
  <2>3. TlsRoom \in Nat
    <3>1. \A tag \in Tags : Cardinality(Wanted(tag)) \in Nat /\ IsFiniteSet(Wanted(tag))
      <4> TAKE tag \in Tags
      <4>1. IsFiniteSet(Symbols \cup {NoId})
        BY <1>1, ProgramFacts, FS_AddElement
      <4>2. Wanted(tag) \in SUBSET (Symbols \cup {NoId})
        BY DEF Wanted
      <4> QED BY <4>1, <4>2, FS_Subset, FS_CardinalityType
    <3>2. Cardinality(GdPairs) \in Nat
      <4>1. GdPairs \in SUBSET Wanted("TlsGd") /\ IsFiniteSet(Wanted("TlsGd"))
        BY <3>1 DEF GdPairs, Tags
      <4> QED BY <4>1, FS_Subset, FS_CardinalityType
    <3>3. /\ Cardinality(Wanted("TlsGd")) \in Nat /\ Cardinality(Wanted("TlsDesc")) \in Nat
          /\ Cardinality(Wanted("TlsIe")) \in Nat /\ Cardinality(Wanted("TlsLdm")) \in Nat
      BY <3>1 DEF Tags
    <3> QED BY <3>2, <3>3 DEF TlsRoom
  <2> QED BY <2>1, <2>2, <2>3, FS_CardinalityType
<1>8. /\ Cardinality(relative) \in Nat /\ Cardinality(irelative) \in Nat
      /\ Cardinality(symbolic) \in Nat
  <2> HIDE DEF relative, irelative, symbolic
  <2> QED BY <1>6, FS_CardinalityType
<1>9. room \in Int
  BY <1>2, <1>3, <1>4, <1>5, <1>6, <1>7
<1>10. Cardinality(relative) + Cardinality(irelative) + Cardinality(TlsEntries)
         + Cardinality(symbolic) <= room
  <2> HIDE DEF relative, irelative, symbolic
  <2> QED BY <1>2, <1>3, <1>4, <1>5, <1>6, <1>7, <1>8
<1> QED BY <1>6, <1>9, <1>10
-----------------------------------------------------------------------------
(* .rela.dyn and .rela.plt: nothing before append_all_dynamic_relocs, then *)
(* what was collected, whole unless the count was too small.               *)
Collected ==
  TlsEntries \cup (IF EtDyn THEN Relative \cup Irelative \cup Symbolic ELSE {})

Reserved == layout.glob_dat \cup layout.copies \cup layout.plt

RelaOK ==
  /\ rela \subseteq IF pc \in AfterAppend \cup {"failed"} /\ Dynamic THEN Collected \cup Reserved
                    ELSE {}
  /\ (pc \in AfterAppend /\ Dynamic) =>
       /\ Reserved \subseteq rela /\ layout.writes = TlsWrites
       /\ ~Undercounted => Collected \subseteq rela

LEMMA CollectedKept ==
  ASSUME prog' = prog, table' = table, slots' = slots
  PROVE  /\ Collected' = Collected /\ TlsWrites' = TlsWrites
         /\ Undercounted' = Undercounted /\ Dynamic' = Dynamic
<1> USE DEF Entry, SiteWord, Slot, Second, DtpOffset, TpOffset, Here
<1>1. /\ DataSites' = DataSites
      /\ \A s : InImage(s)' = InImage(s) /\ NotCopied(s)' = NotCopied(s) /\ Target(s)' = Target(s)
      /\ \A i : Biased(i)' = Biased(i) /\ Sym(i)' = Sym(i) /\ Attr(i)' = Attr(i)
      /\ \A s : Local(s)' = Local(s)
  BY DEF DataSites, Sites, Alloc, SitePlaced, TypeOf, InImage, NotCopied, IsDefined, Target,
         Biased, Sym, Attr, Local
<1>2. \A tag : Refs(tag)' = Refs(tag)
  BY DEF Refs
<1>3. CollectGot' = CollectGot
  BY <1>1, <1>2 DEF CollectGot, GotSyms
<1>4. Relative' = Relative
  BY <1>1, <1>3 DEF Relative
<1>5. Irelative' = Irelative
  BY <1>1, <1>3 DEF Irelative
<1>6. Symbolic' = Symbolic
  BY <1>1 DEF Symbolic
<1>7. \A r : TlsHere(r)' = TlsHere(r) /\ TlsSymbol(r)' = TlsSymbol(r)
  BY DEF TlsHere, TlsSymbol
<1>8. TlsEntries' = TlsEntries
  BY <1>2, <1>7 DEF TlsEntries
<1>9. TlsWrites' = TlsWrites
  BY <1>2, <1>7 DEF TlsWrites
<1>10. EtDyn' = EtDyn /\ Imports' = Imports /\ Dynamic' = Dynamic
  BY CountsKept
<1>11. Undercounted' = Undercounted
  BY <1>10, ProgramKept DEF Undercounted, DefinedTooLate, DroppedTls
<1> QED BY <1>4, <1>5, <1>6, <1>8, <1>9, <1>10, <1>11 DEF Collected

(* append_all_dynamic_relocs.                                              *)
LEMMA AppendPass ==
  ASSUME Passed, RelaOK, AppendDynamicRelocs
  PROVE  RelaOK'
<1>1. /\ pc = "collect" /\ pc' = "apply" /\ prog' = prog /\ table' = table /\ slots' = slots
  BY DEF AppendDynamicRelocs
<1>2. /\ Collected' = Collected /\ TlsWrites' = TlsWrites
      /\ Undercounted' = Undercounted /\ Dynamic' = Dynamic
  BY <1>1, CollectedKept
<1>3. CASE Dynamic
  <2> DEFINE relative == IF EtDyn THEN Relative ELSE {}
             irelative == IF EtDyn THEN Irelative ELSE {}
             symbolic == IF EtDyn THEN Symbolic ELSE {}
             room == layout.cap - Cardinality(layout.glob_dat) - Cardinality(layout.copies)
  <2>1. PICK r \in SUBSET relative, ir \in SUBSET irelative,
             tl \in SUBSET TlsEntries, sy \in SUBSET symbolic :
          /\ Fits(relative, room, r)
          /\ Fits(irelative, room - Cardinality(r), ir)
          /\ Fits(TlsEntries, room - Cardinality(r \cup ir), tl)
          /\ Fits(symbolic, room - Cardinality(r \cup ir \cup tl), sy)
          /\ rela' = r \cup ir \cup tl \cup sy
                       \cup layout.glob_dat \cup layout.copies \cup layout.plt
          /\ layout' = [layout EXCEPT !.writes = TlsWrites]
    BY <1>3 DEF AppendDynamicRelocs
  <2>2. Collected = relative \cup irelative \cup TlsEntries \cup symbolic
    BY DEF Collected
  <2>3. /\ layout'.glob_dat = layout.glob_dat /\ layout'.copies = layout.copies
        /\ layout'.plt = layout.plt
    BY <2>1
  <2>4. layout'.writes = TlsWrites
    <3>1. "writes" \in DOMAIN layout
      BY <1>3 DEF Passed, LayoutOK, AfterLayout
    <3> QED BY <2>1, <3>1
  <2>5. Reserved' = Reserved
    BY <2>3 DEF Reserved
  <2>6. Reserved \subseteq rela' /\ rela' \subseteq Collected \cup Reserved
    <3> HIDE DEF relative, irelative, symbolic, room
    <3> QED BY <2>1, <2>2 DEF Reserved
  <2>7. ~Undercounted => Collected \subseteq rela'
    <3> SUFFICES ASSUME ~Undercounted PROVE Collected \subseteq rela'
      OBVIOUS
    <3>1. /\ IsFiniteSet(relative) /\ IsFiniteSet(irelative) /\ IsFiniteSet(symbolic)
          /\ room \in Int
          /\ Cardinality(relative) + Cardinality(irelative) + Cardinality(TlsEntries)
               + Cardinality(symbolic) <= room
      BY <1>3, RoomEnough
    <3>2. IsFiniteSet(TlsEntries)
      BY TlsSize
    <3> HIDE DEF relative, irelative, symbolic, room
    <3>3. r = relative /\ ir = irelative /\ tl = TlsEntries /\ sy = symbolic
      BY <2>1, <3>1, <3>2, FitsInTurn
    <3> QED BY <2>1, <2>2, <3>3
  <2> QED BY <1>1, <1>2, <1>3, <2>4, <2>5, <2>6, <2>7 DEF RelaOK, AfterAppend
<1>4. CASE ~Dynamic
  <2>1. rela' = rela
    BY <1>4 DEF AppendDynamicRelocs
  <2> QED BY <1>2, <1>4, <2>1 DEF RelaOK
<1> QED BY <1>3, <1>4

LEMMA RelaKept ==
  ASSUME Started, RelaOK, pc # "collect", Next
  PROVE  RelaOK'
<1>1. /\ prog' = prog /\ rela' = rela
  BY DEF Next, AssignWeakGotIds, ScanRelocations, MarkCopyRelocs, CountDynamicRelocs,
         PredefineAndDefsym, ComputeLayout, FinalizeSymbols, CheckUndefined, AppendDynamicRelocs,
         ApplyReloc, Done
<1>2. Dynamic' = Dynamic
  BY <1>1, CountsKept
<1>3. CASE pc \in AfterAppend
  <2>1. table' = table /\ slots' = slots /\ layout' = layout /\ pc' \in AfterAppend \cup {"failed"}
    BY <1>3 DEF AfterAppend, Next, AssignWeakGotIds, ScanRelocations, MarkCopyRelocs,
         CountDynamicRelocs, PredefineAndDefsym, ComputeLayout, FinalizeSymbols, CheckUndefined,
         AppendDynamicRelocs, ApplyReloc, Done
  <2>2. /\ Collected' = Collected /\ TlsWrites' = TlsWrites
        /\ Undercounted' = Undercounted /\ Reserved' = Reserved
    BY <1>1, <2>1, CollectedKept DEF Reserved
  <2> QED BY <1>1, <1>2, <1>3, <2>1, <2>2 DEF RelaOK
<1>4. CASE pc \notin AfterAppend
  <2>1. pc' \notin AfterAppend /\ pc # "failed"
    BY <1>4 DEF AfterAppend, Next, AssignWeakGotIds, ScanRelocations, MarkCopyRelocs,
         CountDynamicRelocs, PredefineAndDefsym, ComputeLayout, FinalizeSymbols, CheckUndefined,
         AppendDynamicRelocs, ApplyReloc, Done
  <2> QED BY <1>1, <1>4, <2>1 DEF RelaOK
<1> QED BY <1>3, <1>4

-----------------------------------------------------------------------------
(* One relocation per word: what is collected for a word depends on the    *)
(* word alone, whichever of the collections finds it.                      *)
EntryFor(w) ==
  IF w[1] = "site" THEN
    IF ~Local(Sym(w[2])) /\ NotCopied(Sym(w[2])) THEN Entry(w, "SYMBOL", Sym(w[2]))
    ELSE IF Attr(w[2]).ifunc THEN Entry(w, "IRELATIVE", Sym(w[2]))
    ELSE Entry(w, "RELATIVE", Target(Sym(w[2])))
  ELSE IF w[1] = "here" THEN Entry(w, "COPY", w[2])
  ELSE IF w[1] = "second" THEN Entry(w, "DTPOFF64", w[2][3])
  ELSE IF w[2] = "Got" THEN
    IF NotCopied(w[3]) THEN Entry(w, "SYMBOL", w[3])
    ELSE IF prog.attr[w[3]].ifunc THEN Entry(w, "IRELATIVE", w[3])
    ELSE Entry(w, "RELATIVE", table[w[3]].va)
  ELSE IF w[2] = "Plt" THEN
    Entry(w, IF prog.attr[w[3]].ifunc THEN "IRELATIVE" ELSE "SYMBOL", w[3])
  ELSE IF w[2] = "TlsGd" THEN Entry(w, "DTPMOD64", TlsSymbol(w[3]))
  ELSE IF w[2] = "TlsDesc" THEN Entry(w, "TLSDESC", TlsSymbol(w[3]))
  ELSE IF w[2] = "TlsLdm" THEN Entry(w, "DTPMOD64", DtpOffset(w[3]))
  ELSE Entry(w, "TPOFF64", TlsSymbol(w[3]))

LEMMA EntryAt ==
  ASSUME NEW w, NEW type, NEW value
  PROVE  Entry(w, type, value).at = w
BY DEF Entry

LEMMA CollectedByWord ==
  ASSUME Passed, Dynamic, NEW e \in Collected \cup Reserved
  PROVE  e = EntryFor(e.at)
<1>1. /\ prog \in Programs /\ GotSyms = Wanted("Got") /\ Wanted("Got") \subseteq Globals
      /\ \A s \in Globals : NotCopied(s) <=> Outside(s)
  BY FinalTable
<1>2. /\ layout.glob_dat = {Entry(Slot("Got", s), "SYMBOL", s) : s \in OutGot}
      /\ layout.copies = {Entry(Here(s), "COPY", s) : s \in CopySyms}
      /\ layout.plt = {Entry(Slot("Plt", s), IF prog.attr[s].ifunc THEN "IRELATIVE" ELSE "SYMBOL",
                             s) : s \in Wanted("Plt")}
  BY DEF Passed, LayoutOK, AfterLayout
<1>3. CASE e \in layout.glob_dat
  <2>1. PICK s \in OutGot : e = Entry(Slot("Got", s), "SYMBOL", s)
    BY <1>2, <1>3
  <2>2. NotCopied(s)
    BY <1>1 DEF OutGot
  <2>3. EntryFor(Slot("Got", s)) = Entry(Slot("Got", s), "SYMBOL", s)
    BY <2>2 DEF EntryFor, Slot
  <2> QED BY <2>1, <2>3, EntryAt
<1>4. CASE e \in layout.copies
  <2>1. PICK s \in CopySyms : e = Entry(Here(s), "COPY", s)
    BY <1>2, <1>4
  <2>2. EntryFor(Here(s)) = Entry(Here(s), "COPY", s)
    BY DEF EntryFor, Here
  <2> QED BY <2>1, <2>2, EntryAt
<1>5. CASE e \in layout.plt
  <2>1. PICK s \in Wanted("Plt") :
          e = Entry(Slot("Plt", s), IF prog.attr[s].ifunc THEN "IRELATIVE" ELSE "SYMBOL", s)
    BY <1>2, <1>5
  <2>2. EntryFor(Slot("Plt", s)) =
          Entry(Slot("Plt", s), IF prog.attr[s].ifunc THEN "IRELATIVE" ELSE "SYMBOL", s)
    BY DEF EntryFor, Slot
  <2> QED BY <2>1, <2>2, EntryAt
<1>6. CASE e \in Relative \cup Irelative
  <2>1. CASE \E i \in DataSites :
               /\ Biased(i)
               /\ e = IF Attr(i).ifunc THEN Entry(SiteWord(i), "IRELATIVE", Sym(i))
                      ELSE Entry(SiteWord(i), "RELATIVE", Target(Sym(i)))
    <3>1. PICK i \in DataSites :
               /\ Biased(i)
               /\ e = IF Attr(i).ifunc THEN Entry(SiteWord(i), "IRELATIVE", Sym(i))
                      ELSE Entry(SiteWord(i), "RELATIVE", Target(Sym(i)))
      BY <2>1
    <3>2. Local(Sym(i)) \/ ~NotCopied(Sym(i))
      BY <3>1 DEF Biased, InImage
    <3>3. EntryFor(SiteWord(i)) = IF Attr(i).ifunc THEN Entry(SiteWord(i), "IRELATIVE", Sym(i))
                                  ELSE Entry(SiteWord(i), "RELATIVE", Target(Sym(i)))
      BY <3>2 DEF EntryFor, SiteWord
    <3> QED BY <3>1, <3>3, EntryAt
  <2>2. CASE \E s \in CollectGot :
               e = IF prog.attr[s].ifunc THEN Entry(Slot("Got", s), "IRELATIVE", s)
                   ELSE Entry(Slot("Got", s), "RELATIVE", table[s].va)
    <3>1. PICK s \in CollectGot :
               e = IF prog.attr[s].ifunc THEN Entry(Slot("Got", s), "IRELATIVE", s)
                   ELSE Entry(Slot("Got", s), "RELATIVE", table[s].va)
      BY <2>2
    <3>2. ~NotCopied(s)
      BY DEF CollectGot, InImage
    <3>3. EntryFor(Slot("Got", s)) = IF prog.attr[s].ifunc THEN Entry(Slot("Got", s), "IRELATIVE", s)
                                     ELSE Entry(Slot("Got", s), "RELATIVE", table[s].va)
      BY <3>2 DEF EntryFor, Slot
    <3> QED BY <3>1, <3>3, EntryAt
  <2> QED BY <1>6, <2>1, <2>2 DEF Relative, Irelative
<1>7. CASE e \in Symbolic
  <2>1. PICK i \in DataSites : /\ ~Local(Sym(i)) /\ NotCopied(Sym(i))
                               /\ e = Entry(SiteWord(i), "SYMBOL", Sym(i))
    BY <1>7 DEF Symbolic
  <2>2. EntryFor(SiteWord(i)) = Entry(SiteWord(i), "SYMBOL", Sym(i))
    BY <2>1 DEF EntryFor, SiteWord
  <2> QED BY <2>1, <2>2, EntryAt
<1>8. CASE e \in TlsEntries
  <2>1. \/ \E r : e = Entry(Slot("TlsGd", r), "DTPMOD64", TlsSymbol(r))
        \/ \E r : e = Entry(Second(Slot("TlsGd", r)), "DTPOFF64", r)
        \/ \E r : e = Entry(Slot("TlsDesc", r), "TLSDESC", TlsSymbol(r))
        \/ \E r : e = Entry(Slot("TlsLdm", r), "DTPMOD64", DtpOffset(r))
        \/ \E r : e = Entry(Slot("TlsIe", r), "TPOFF64", TlsSymbol(r))
    BY <1>8 DEF TlsEntries
  <2>2. \A r : EntryFor(Slot("TlsGd", r)) = Entry(Slot("TlsGd", r), "DTPMOD64", TlsSymbol(r))
    BY DEF EntryFor, Slot
  <2>3. \A r : EntryFor(Second(Slot("TlsGd", r))) = Entry(Second(Slot("TlsGd", r)), "DTPOFF64", r)
    BY DEF EntryFor, Slot, Second
  <2>4. \A r : EntryFor(Slot("TlsDesc", r)) = Entry(Slot("TlsDesc", r), "TLSDESC", TlsSymbol(r))
    BY DEF EntryFor, Slot
  <2>5. \A r : EntryFor(Slot("TlsLdm", r)) = Entry(Slot("TlsLdm", r), "DTPMOD64", DtpOffset(r))
    BY DEF EntryFor, Slot
  <2>6. \A r : EntryFor(Slot("TlsIe", r)) = Entry(Slot("TlsIe", r), "TPOFF64", TlsSymbol(r))
    BY DEF EntryFor, Slot
  <2> QED BY <2>1, <2>2, <2>3, <2>4, <2>5, <2>6, EntryAt
<1> QED BY <1>3, <1>4, <1>5, <1>6, <1>7, <1>8 DEF Collected, Reserved

LEMMA RelaRight ==
  ASSUME Started, TableOK, SlotsOK, CountOK, LayoutOK, RelaOK
  PROVE  RelaExact
<1>1. SlotsNamed
  BY ScansNamed
<1>2. OneRelocPerWord
  <2>1. CASE pc \in AfterAppend \cup {"failed"} /\ Dynamic
    <3>1. Passed
      BY <2>1 DEF Passed, AfterFinalize
    <3>2. rela \subseteq Collected \cup Reserved
      BY <2>1 DEF RelaOK
    <3>3. \A e \in rela : e = EntryFor(e.at)
      BY <2>1, <3>1, <3>2, CollectedByWord
    <3> QED BY <3>3 DEF OneRelocPerWord
  <2>2. CASE ~(pc \in AfterAppend \cup {"failed"} /\ Dynamic)
    <3>1. rela = {}
      BY <2>2 DEF RelaOK
    <3> QED BY <3>1 DEF OneRelocPerWord
  <2> QED BY <2>1, <2>2
<1>3. NothingDropped
  BY DEF NothingDropped, RelaOK, AfterAppend, Collected
<1> QED BY <1>1, <1>2, <1>3 DEF RelaExact

-----------------------------------------------------------------------------
(* What the loader makes of the finished output.                           *)
Ended == Passed /\ AddressesOK /\ FieldOK /\ RelaOK /\ pc = "done" /\ ~Undercounted

LEMMA Loader ==
  ASSUME Ended
  PROVE  /\ Dynamic => rela = Collected \cup Reserved /\ layout.writes = TlsWrites
         /\ ~Dynamic => rela = {}
         /\ \A e \in rela : \A c : AtRunTime(e.at, c) = Relocated(e)
         /\ EtDyn => Dynamic
         /\ prog.shared => EtDyn
         /\ \A s \in Globals : prog.attr[s].import => Dynamic
<1>1. Dynamic => rela = Collected \cup Reserved /\ layout.writes = TlsWrites
  BY DEF Ended, RelaOK, AfterAppend
<1>2. ~Dynamic => rela = {}
  BY DEF Ended, RelaOK
<1>3. OneRelocPerWord
  BY RelaRight DEF Ended, Passed, RelaExact
<1>4. ASSUME NEW e \in rela, NEW c
      PROVE  AtRunTime(e.at, c) = Relocated(e)
  <2>1. \A d \in rela : d.at = e.at => d = e
    BY <1>3 DEF OneRelocPerWord
  <2>2. (CHOOSE d \in rela : d.at = e.at) = e
    BY <2>1
  <2> QED BY <2>2 DEF AtRunTime
<1> QED BY <1>1, <1>2, <1>4 DEF Dynamic, EtDyn, Imports

(* Which sites and GOT slots the loader writes.                            *)
LEMMA Written ==
  ASSUME Ended, NEW e \in rela
  PROVE  /\ \A i : e.at = SiteWord(i) =>
              EtDyn /\ i \in DataSites /\ (Biased(i) \/ (~Local(Sym(i)) /\ NotCopied(Sym(i))))
         /\ \A s : e.at = Slot("Got", s) => s \in OutGot \/ (EtDyn /\ s \in CollectGot)
<1> DEFINE Goal == 
         /\ \A i : e.at = SiteWord(i) =>
              EtDyn /\ i \in DataSites /\ (Biased(i) \/ (~Local(Sym(i)) /\ NotCopied(Sym(i))))
         /\ \A s : e.at = Slot("Got", s) => s \in OutGot \/ (EtDyn /\ s \in CollectGot)
<1>1. Dynamic /\ e \in Collected \cup Reserved
  BY Loader
<1>2. /\ layout.glob_dat = {Entry(Slot("Got", s), "SYMBOL", s) : s \in OutGot}
      /\ layout.copies = {Entry(Here(s), "COPY", s) : s \in CopySyms}
      /\ layout.plt = {Entry(Slot("Plt", s), IF prog.attr[s].ifunc THEN "IRELATIVE" ELSE "SYMBOL",
                             s) : s \in Wanted("Plt")}
  BY <1>1 DEF Ended, Passed, LayoutOK, AfterLayout
<1>3. CASE e \in Reserved
  <2>1. \/ \E s \in OutGot : e.at = Slot("Got", s)
        \/ \E s : e.at = Here(s)
        \/ \E s : e.at = Slot("Plt", s)
    BY <1>2, <1>3 DEF Reserved, Entry
  <2> QED BY <2>1 DEF Slot, Here, SiteWord
<1>4. CASE e \in TlsEntries
  <2>1. \/ \E tag \in {"TlsGd", "TlsDesc", "TlsLdm", "TlsIe"} : \E r : e.at = Slot(tag, r)
        \/ \E r : e.at = Second(Slot("TlsGd", r))
    BY <1>4 DEF TlsEntries, Entry
  <2> QED BY <2>1 DEF Slot, Second, SiteWord
<1>5. CASE EtDyn /\ e \in Relative \cup Irelative \cup Symbolic
  <2>1. \/ \E i \in DataSites : /\ e.at = SiteWord(i)
                                /\ Biased(i) \/ (~Local(Sym(i)) /\ NotCopied(Sym(i)))
        \/ \E s \in CollectGot : e.at = Slot("Got", s)
    BY <1>5 DEF Relative, Irelative, Symbolic, Entry
  <2> QED BY <1>5, <2>1 DEF Slot, SiteWord
<1> QED BY <1>1, <1>3, <1>4, <1>5 DEF Collected

(* What is known of a site that is no gap when all is written.             *)
LEMMA AtEnd ==
  ASSUME Ended, NEW i \in Sites, SitePlaced(i), ~Gap(i)
  PROVE  LET s == Sym(i)
             a == prog.attr[Sym(i)]
         IN
         /\ prog \in Programs /\ s \in Symbols /\ s # NoId /\ Attr(i) = a
         /\ IsSymbol(a) /\ IsReference(prog, a, TypeOf(i), prog.sites[i].sec)
         /\ \/ Skipped(i) /\ field[i] = <<"skipped">>
            \/ ~Skipped(i) /\ ~Unresolved(i) /\ field[i] = <<"is", PatchBuf(i)>>
         /\ a.placed \/ (Local(s) /\ a.def = "section")
         /\ Local(s) => a.def # "none" /\ ~a.import /\ a.late = "no" /\ ~a.ifunc
         /\ ~Local(s) =>
              /\ s \in Globals /\ table[s].va = FinalVa(s) /\ table[s].id = IF Named(s) THEN s ELSE NoId
              /\ IsDefined(s) <=> Known(s) \/ a.late # "no"
<1> DEFINE s == Sym(i)
           a == prog.attr[Sym(i)]
<1>1. /\ prog \in Programs /\ s \in Symbols /\ s # NoId /\ Attr(i) = a
      /\ IsSymbol(a) /\ IsReference(prog, a, TypeOf(i), prog.sites[i].sec)
      /\ ~Local(s) => s \in Globals
  BY SiteFacts DEF Ended, Passed, Started, Attr
<1>2. field[i] # Null
  BY DEF Ended, FieldOK, Pending
<1>3. \/ Skipped(i) /\ field[i] = <<"skipped">>
      \/ ~Skipped(i) /\ ~Unresolved(i) /\ field[i] = <<"is", PatchBuf(i)>>
  BY <1>2 DEF Ended, FieldOK
<1>4. a.placed \/ (Local(s) /\ a.def = "section")
  BY <1>1 DEF IsReference, SitePlaced, Local
<1>5. Local(s) => a.def # "none" /\ ~a.import /\ a.late = "no" /\ ~a.ifunc
  BY <1>1 DEF IsSymbol, Local
<1>6. ~Local(s) =>
        /\ table[s].va = FinalVa(s) /\ table[s].id = IF Named(s) THEN s ELSE NoId
        /\ IsDefined(s) <=> Known(s) \/ a.late # "no"
  <2> SUFFICES ASSUME ~Local(s)
               PROVE  /\ table[s].va = FinalVa(s) /\ table[s].id = IF Named(s) THEN s ELSE NoId
                      /\ IsDefined(s) <=> Known(s) \/ a.late # "no"
    OBVIOUS
  <2>1. s \in Globals /\ pc \in AfterFinalize /\ pc \in AfterIds /\ pc \in AfterProvide
    BY <1>1 DEF Ended, Passed, AfterFinalize, AfterIds, AfterScan, AfterCopy, AfterCount,
                AfterProvide, AfterLayout
  <2>2. table[s].va = FinalVa(s)
    BY <2>1 DEF Ended, AddressesOK
  <2>3. /\ table[s].id = IF Named(s) THEN s ELSE NoId
        /\ table[s].defined_in <=> a.def # "none" \/ a.late # "no"
    BY <2>1 DEF Ended, Passed, TableOK, Named
  <2> QED BY <2>2, <2>3 DEF IsDefined, Known
<1> QED BY <1>1, <1>3, <1>4, <1>5, <1>6

(* Where the image holds the symbol, the table has the address that is     *)
(* meant.                                                                  *)
LEMMA TableAddress ==
  ASSUME Ended, NEW i \in Sites, SitePlaced(i), ~Gap(i), TypeOf(i) \notin TlsTypes,
         ~Local(Sym(i)), ~Attr(i).ifunc, ~Outside(Sym(i))
  PROVE  table[Sym(i)].va = Address(Sym(i))
<1> DEFINE s == Sym(i)
           a == prog.attr[Sym(i)]
<1>1. /\ s \in Globals /\ Attr(i) = a /\ IsSymbol(a) /\ a.placed
      /\ IsReference(prog, a, TypeOf(i), prog.sites[i].sec)
      /\ table[s].va = FinalVa(s)
  BY AtEnd
<1>2. CASE Copied(s)
  <2>1. a.import
    BY <1>2 DEF Copied, NeedsCopy, Attr
  <2>2. a.def = "none" /\ a.late = "no"
    BY <1>1, <2>1 DEF IsSymbol
  <2>3. IsCopied(s)
    <3>1. Dynamic /\ rela = Collected \cup Reserved
      BY <1>1, <2>1, Loader
    <3>2. layout.copies = {Entry(Here(r), "COPY", r) : r \in CopySyms}
      BY <3>1 DEF Ended, Passed, LayoutOK, AfterLayout
    <3>3. s \in CopySyms
      BY <1>1, <1>2 DEF CopySyms
    <3> QED BY <3>1, <3>2, <3>3 DEF IsCopied, Reserved
  <2>4. Address(s) = Here(s)
    BY <1>1, <2>1, <2>2, <2>3 DEF Address, Definition
  <2> QED BY <1>1, <1>2, <2>4 DEF FinalVa
<1>3. CASE ~Copied(s)
  <2>1. ~a.import
    BY <1>3 DEF Outside
  <2>2. a.def \in {"section", "abs", "none"} /\ (a.late # "no" => a.def = "none")
    BY <1>1 DEF IsReference, IsSymbol
  <2> QED BY <1>1, <1>3, <2>1, <2>2 DEF FinalVa, Address
<1> QED BY <1>2, <1>3

(* A local symbol that is not skipped is in the image, or a constant.      *)
LEMMA LocalAddress ==
  ASSUME Ended, NEW i \in Sites, SitePlaced(i), ~Gap(i), TypeOf(i) \notin TlsTypes,
         Local(Sym(i)), ~Skipped(i)
  PROVE  /\ S(i) = Address(Sym(i))
         /\ \/ Attr(i).def = "abs" /\ S(i) = Const(Sym(i))
            \/ Attr(i).def = "section" /\ Attr(i).placed /\ S(i) = Here(Sym(i))
<1> DEFINE s == Sym(i)
           a == prog.attr[Sym(i)]
<1>1. /\ Attr(i) = a /\ IsSymbol(a) /\ IsReference(prog, a, TypeOf(i), prog.sites[i].sec)
      /\ a.def # "none" /\ ~a.import /\ a.late = "no" /\ ~a.ifunc
  BY AtEnd
<1>2. a.def \in {"abs", "section"}
  BY <1>1 DEF IsReference, IsSymbol
<1>3. a.def = "section" => a.placed
  BY <1>1 DEF Skipped
<1> QED BY <1>1, <1>2, <1>3 DEF S, Address

(* An absolute word.                                                       *)
LEMMA WordMeaning ==
  ASSUME Ended, NEW i \in Sites, SitePlaced(i), ~Gap(i), TypeOf(i) \in {"R64", "R32"},
         ~Skipped(i), Alloc(i)
  PROVE  AtRunTime(SiteWord(i), S(i)) = Address(Sym(i))
<1> DEFINE s == Sym(i)
           a == prog.attr[Sym(i)]
<1>1. /\ Attr(i) = a /\ IsSymbol(a) /\ IsReference(prog, a, TypeOf(i), prog.sites[i].sec)
      /\ ~Local(s) => /\ s \in Globals /\ table[s].va = FinalVa(s)
                      /\ IsDefined(s) <=> Known(s) \/ a.late # "no"
      /\ ~Local(s) => a.placed
      /\ TypeOf(i) \notin TlsTypes
  BY AtEnd DEF TlsTypes
<1>2. \A q \in Globals :
        /\ NotCopied(q) <=> Outside(q)
        /\ InImage(q) <=> (Known(q) \/ prog.attr[q].late # "no") /\ ~Outside(q)
        /\ table[q].dynsym <=> prog.attr[q].import
  BY FinalTable DEF Ended
<1>3. CASE ~EtDyn
  <2>1. ~\E e \in rela : e.at = SiteWord(i)
    BY <1>3, Written
  <2>2. AtRunTime(SiteWord(i), S(i)) = S(i)
    BY <1>3, <2>1 DEF AtRunTime
  <2>3. CASE Local(s)
    BY <1>1, <2>2, <2>3, LocalAddress
  <2>4. CASE ~Local(s)
    <3>1. ~a.ifunc
      BY <1>1, <1>3 DEF Gap, IfuncResolver
    <3>2. ~Outside(s)
      <4>1. a.import => \E j \in Sites : Sym(j) = s /\ NeedsCopy(j)
        BY <1>1, <1>3 DEF Gap, UncopiedImport, CopyTypes
      <4> QED BY <1>3, <4>1 DEF Outside, Copied, EtDyn
    <3>3. table[s].va = Address(s)
      BY <1>1, <2>4, <3>1, <3>2, TableAddress
    <3> QED BY <2>2, <2>4, <3>3 DEF S
  <2> QED BY <2>3, <2>4
<1>4. CASE EtDyn
  <2>1. TypeOf(i) = "R64"
    BY <1>1, <1>4 DEF IsReference, EtDyn
  <2>2. i \in DataSites
    BY <2>1 DEF DataSites
  <2>3. rela = Collected \cup Reserved
    BY <1>4, Loader
  <2>4. Relative \cup Irelative \cup Symbolic \subseteq rela
    BY <1>4, <2>3 DEF Collected
  <2>5. \A e, c : e \in rela => AtRunTime(e.at, c) = Relocated(e)
    BY Loader
  <2>6. ASSUME ~\E e \in rela : e.at = SiteWord(i)
        PROVE  AtRunTime(SiteWord(i), S(i)) = IF S(i)[1] = "here" THEN Junk ELSE S(i)
    BY <1>4, <2>6 DEF AtRunTime
  <2>7. CASE Local(s)
    <3>1. ~a.ifunc
      BY <2>7, AtEnd
    <3>2. CASE a.def = "section"
      <4>1. a.placed /\ Address(s) = Here(s)
        BY <1>1, <2>7, <3>2, LocalAddress
      <4>2. Biased(i) /\ Target(s) = Here(s)
        BY <1>1, <2>7, <3>2, <4>1 DEF Biased, Target
      <4>3. Entry(SiteWord(i), "RELATIVE", Here(s)) \in Relative
        BY <1>1, <2>2, <3>1, <4>2 DEF Relative
      <4>4. AtRunTime(SiteWord(i), S(i)) = Relocated(Entry(SiteWord(i), "RELATIVE", Here(s)))
        BY <2>4, <2>5, <4>3, EntryAt
      <4>5. Relocated(Entry(SiteWord(i), "RELATIVE", Here(s))) = Here(s)
        BY DEF Relocated, Entry, Here
      <4> QED BY <4>1, <4>4, <4>5
    <3>3. CASE a.def = "abs"
      <4>1. S(i) = Const(s) /\ Address(s) = Const(s)
        BY <1>1, <2>7, <3>3, LocalAddress
      <4>2. ~\E e \in rela : e.at = SiteWord(i)
        BY <1>1, <2>7, <3>3, Written DEF Biased
      <4> QED BY <2>6, <4>1, <4>2 DEF Const
    <3> QED BY <1>1, <2>7, <3>2, <3>3, LocalAddress
  <2>8. CASE ~Local(s) /\ Outside(s)
    <3>1. a.import /\ NotCopied(s) /\ table[s].dynsym
      BY <1>1, <1>2, <2>8 DEF Outside
    <3>2. Entry(SiteWord(i), "SYMBOL", s) \in Symbolic
      BY <2>2, <2>8, <3>1 DEF Symbolic
    <3>3. AtRunTime(SiteWord(i), S(i)) = Relocated(Entry(SiteWord(i), "SYMBOL", s))
      BY <2>4, <2>5, <3>2, EntryAt
    <3>4. Relocated(Entry(SiteWord(i), "SYMBOL", s)) = Definition(s)
      BY DEF Relocated, Entry
    <3>5. Address(s) = Definition(s)
      BY <1>1, <3>1 DEF IsSymbol, Address
    <3> QED BY <3>3, <3>4, <3>5
  <2>9. CASE ~Local(s) /\ ~Outside(s) /\ InImage(s)
    <3>1. a.late = "no" /\ a.def # "abs"
      BY <1>1, <1>4, <2>1, <2>9 DEF Gap, DefinedTooLate, BiasedConstant
    <3>2. Biased(i)
      BY <2>9 DEF Biased
    <3>3. CASE a.ifunc
      <4>1. Entry(SiteWord(i), "IRELATIVE", s) \in Irelative
        BY <1>1, <2>2, <3>2, <3>3 DEF Irelative
      <4>2. AtRunTime(SiteWord(i), S(i)) = Relocated(Entry(SiteWord(i), "IRELATIVE", s))
        BY <2>4, <2>5, <4>1, EntryAt
      <4>3. Relocated(Entry(SiteWord(i), "IRELATIVE", s)) = Chosen(s)
        BY DEF Relocated, Entry
      <4> QED BY <3>3, <4>2, <4>3 DEF Address
    <3>4. CASE ~a.ifunc
      <4>1. Entry(SiteWord(i), "RELATIVE", table[s].va) \in Relative
        BY <1>1, <2>2, <2>9, <3>2, <3>4 DEF Relative, Target
      <4>2. AtRunTime(SiteWord(i), S(i)) = Relocated(Entry(SiteWord(i), "RELATIVE", table[s].va))
        BY <2>4, <2>5, <4>1, EntryAt
      <4>3. table[s].va = Address(s)
        BY <1>1, <2>9, <3>4, TableAddress
      <4>4. FinalVa(s) = Here(s)
        <5>1. CASE Copied(s)
          BY <5>1 DEF FinalVa
        <5>2. CASE ~Copied(s)
          <6>1. a.def = "section"
            BY <1>1, <1>2, <2>9, <3>1, <5>2 DEF Known, Outside, IsReference, IsSymbol
          <6> QED BY <1>1, <2>9, <3>1, <6>1 DEF FinalVa
        <5> QED BY <5>1, <5>2
      <4>5. Relocated(Entry(SiteWord(i), "RELATIVE", Here(s))) = Here(s)
        BY DEF Relocated, Entry, Here
      <4> QED BY <1>1, <2>9, <4>2, <4>3, <4>4, <4>5
    <3> QED BY <3>3, <3>4
  <2>10. CASE ~Local(s) /\ ~Outside(s) /\ ~InImage(s)
    <3>1. a.def = "none" /\ ~a.import /\ a.late = "no" /\ ~Copied(s)
      BY <1>1, <1>2, <2>10 DEF Known, Copied, NeedsCopy, Attr
    <3>2. S(i) = Null /\ Address(s) = Null
      BY <1>1, <2>10, <3>1 DEF S, FinalVa, Address, IsSymbol
    <3>3. ~\E e \in rela : e.at = SiteWord(i)
      BY <1>1, <1>2, <2>10, Written DEF Biased
    <3> QED BY <2>6, <3>2, <3>3 DEF Null
  <2> QED BY <2>7, <2>8, <2>9, <2>10
<1> QED BY <1>3, <1>4

(* A displacement to the symbol itself.                                    *)
LEMMA DirectMeaning ==
  ASSUME Ended, NEW i \in Sites, SitePlaced(i), ~Gap(i), TypeOf(i) = "PC32",
         ~Skipped(i), ~Unresolved(i)
  PROVE  Displaced(S(i)) = Address(Sym(i))
<1> DEFINE s == Sym(i)
           a == prog.attr[Sym(i)]
<1>1. /\ Attr(i) = a /\ IsSymbol(a) /\ IsReference(prog, a, TypeOf(i), prog.sites[i].sec)
      /\ ~Local(s) => /\ s \in Globals /\ table[s].va = FinalVa(s)
                      /\ IsDefined(s) <=> Known(s) \/ a.late # "no"
                      /\ a.placed
      /\ TypeOf(i) \notin TlsTypes
  BY AtEnd DEF TlsTypes
<1>2. ~a.ifunc
  BY <1>1 DEF Gap, IfuncResolver
<1>3. ~Outside(s)
  <2>1. EtDyn => ~a.import
    BY <1>1 DEF IsReference, EtDyn
  <2>2. ~EtDyn /\ a.import => \E j \in Sites : Sym(j) = s /\ NeedsCopy(j)
    BY <1>1 DEF Gap, UncopiedImport, CopyTypes
  <2> QED BY <2>1, <2>2 DEF Outside, Copied, EtDyn
<1>4. S(i) = Address(s)
  <2>1. CASE Local(s)
    BY <1>1, <2>1, LocalAddress
  <2>2. CASE ~Local(s)
    BY <1>1, <1>2, <1>3, <2>2, TableAddress DEF S
  <2> QED BY <2>1, <2>2
<1>5. EtDyn => S(i) = Here(s)
  <2> SUFFICES ASSUME EtDyn PROVE S(i) = Here(s)
    OBVIOUS
  <2>1. /\ a.def # "abs" /\ ~a.import /\ a.late # "defsym" /\ a.def # "tls"
        /\ ~(a.def = "none" /\ a.late = "no" /\ a.bind = "weak")
    BY <1>1 DEF IsReference, EtDyn, TlsTypes
  <2>2. CASE Local(s)
    BY <1>1, <2>1, <2>2, LocalAddress
  <2>3. CASE ~Local(s)
    <3>1. IsDefined(s) \/ a.bind = "weak"
      BY <1>1, <2>3 DEF Unresolved
    <3>2. a.def = "section" \/ a.late = "provided"
      BY <1>1, <2>1, <2>3, <3>1 DEF Known, IsSymbol
    <3>3. ~Copied(s)
      BY <2>1 DEF Copied, NeedsCopy, Attr
    <3> QED BY <1>1, <2>1, <2>3, <3>2, <3>3 DEF S, FinalVa
  <2> QED BY <2>2, <2>3
<1> QED BY <1>4, <1>5 DEF Displaced, Here

(* A call, through the PLT where the scan asked for a stub.                *)
CallDesignates(v) == IF v[1] = "slot" THEN AtRunTime(v, Null) ELSE Displaced(v)

LEMMA CallMeaning ==
  ASSUME Ended, NEW i \in Sites, SitePlaced(i), ~Gap(i), TypeOf(i) = "PLT32",
         ~Skipped(i), ~Unresolved(i)
  PROVE  CallDesignates(IF L(i) # Null THEN L(i) ELSE S(i)) = Address(Sym(i))
<1> DEFINE s == Sym(i)
           a == prog.attr[Sym(i)]
           v == IF L(i) # Null THEN L(i) ELSE S(i)
<1>1. /\ prog \in Programs /\ s \in Symbols
      /\ Attr(i) = a /\ IsSymbol(a) /\ IsReference(prog, a, TypeOf(i), prog.sites[i].sec)
      /\ ~Local(s) => /\ s \in Globals /\ table[s].va = FinalVa(s)
                      /\ IsDefined(s) <=> Known(s) \/ a.late # "no"
                      /\ a.placed
      /\ TypeOf(i) \notin TlsTypes
  BY AtEnd DEF TlsTypes
<1>2. a.def \in {"section", "none"} /\ a.late = "no" /\ ~a.copyable
  BY <1>1 DEF IsReference
<1>3. ~Copied(s)
  BY <1>2 DEF Copied, NeedsCopy, Attr
<1>4. ASSUME v = Here(s), Address(s) = Here(s)
      PROVE  CallDesignates(v) = Address(s)
  <2> HIDE DEF v
  <2> QED BY <1>4 DEF CallDesignates, Displaced, Here
<1>5. CASE Local(s)
  <2>1. L(i) = Null
    BY <1>5 DEF L
  <2>2. S(i) = Here(s) /\ Address(s) = Here(s)
    BY <1>1, <1>2, <1>5, LocalAddress
  <2> QED BY <1>4, <2>1, <2>2
<1>6. CASE ~Local(s) /\ ~IsDefined(s)
  <2>1. L(i) = Null
    BY <1>6 DEF L
  <2>2. a.def = "none" /\ ~a.import /\ a.bind = "weak"
    BY <1>1, <1>6 DEF Known, Unresolved
  <2>3. ~EtDyn
    BY <1>1, <1>2, <2>2 DEF IsReference, EtDyn
  <2>4. S(i) = Null /\ Address(s) = Null
    BY <1>1, <1>2, <1>3, <1>6, <2>2 DEF S, FinalVa, Address, IsSymbol
  <2>5. v = Null
    BY <2>1, <2>4
  <2>6. CallDesignates(v) = Null
    <3> HIDE DEF v
    <3> QED BY <2>3, <2>5 DEF CallDesignates, Displaced, Null
  <2> QED BY <2>4, <2>6
<1>7. CASE ~Local(s) /\ IsDefined(s)
  <2>1. L(i) = table[s].plt
    BY <1>7 DEF L
  <2>2. Known(s)
    BY <1>1, <1>2, <1>7
  <2>3. CASE a.import \/ a.ifunc
    <3>1. Dynamic
      <4>1. a.ifunc => Dynamic
        BY <1>1 DEF Gap, IfuncResolver
      <4> QED BY <1>1, <1>7, <2>3, <4>1, Loader
    <3>2. a.import => prog.shared \/ ~a.helper
      BY <1>1 DEF Skipped
    <3>3. s \in Wanted("Plt")
      <4>1. Needs(i, "Plt", s)
        BY <1>1, <1>7, <2>3, <3>2 DEF Needs
      <4> QED BY <1>1, <4>1 DEF Wanted
    <3>4. table[s].plt = Slot("Plt", s)
      BY <1>1, <1>7, <3>1, <3>3 DEF Ended, Passed, AddressesOK
    <3>5. v = Slot("Plt", s)
      BY <2>1, <3>4 DEF Slot, Null
    <3> DEFINE e == Entry(Slot("Plt", s), IF a.ifunc THEN "IRELATIVE" ELSE "SYMBOL", s)
    <3>6. e \in rela
      <4>1. layout.plt = {Entry(Slot("Plt", r), IF prog.attr[r].ifunc THEN "IRELATIVE" ELSE "SYMBOL",
                                r) : r \in Wanted("Plt")}
        BY <3>1 DEF Ended, Passed, LayoutOK, AfterLayout
      <4>2. e \in layout.plt
        BY <3>3, <4>1
      <4> HIDE DEF e
      <4> QED BY <3>1, <4>2, Loader DEF Reserved
    <3>7. AtRunTime(Slot("Plt", s), Null) = Relocated(e)
      <4>1. e.at = Slot("Plt", s)
        BY EntryAt
      <4> HIDE DEF e
      <4> QED BY <3>6, <4>1, Loader
    <3>8. Relocated(e) = IF a.ifunc THEN Chosen(s) ELSE Definition(s)
      BY DEF Relocated, Entry
    <3>9. Address(s) = IF a.ifunc THEN Chosen(s) ELSE Definition(s)
      BY <1>1, <1>2, <2>3 DEF Address, IsSymbol
    <3>10. CallDesignates(v) = AtRunTime(Slot("Plt", s), Null)
      <4> HIDE DEF v
      <4> QED BY <3>5 DEF CallDesignates, Slot
    <3> QED BY <3>7, <3>8, <3>9, <3>10
  <2>4. CASE ~(a.import \/ a.ifunc)
    <3>1. a.def = "section"
      BY <1>2, <2>2, <2>4 DEF Known
    <3>2. s \notin Wanted("Plt")
      BY <2>4 DEF Wanted, Needs, Attr
    <3>3. table[s].plt = Null
      BY <1>1, <1>7, <3>2 DEF Ended, Passed, AddressesOK
    <3>4. S(i) = Here(s) /\ Address(s) = Here(s)
      BY <1>1, <1>2, <1>3, <1>7, <2>4, <3>1 DEF S, FinalVa, Address
    <3> QED BY <1>4, <2>1, <3>3, <3>4
  <2> QED BY <2>3, <2>4
<1> QED BY <1>5, <1>6, <1>7

(* A reference through the GOT.                                            *)
LEMMA GotMeaning ==
  ASSUME Ended, NEW i \in Sites, SitePlaced(i), ~Gap(i), TypeOf(i) = "GOT",
         ~Skipped(i), ~Unresolved(i)
  PROVE  /\ G(i) = Slot("Got", Sym(i))
         /\ AtRunTime(Slot("Got", Sym(i)), table[Sym(i)].va) = Address(Sym(i))
<1> DEFINE s == Sym(i)
           a == prog.attr[Sym(i)]
           w == Slot("Got", Sym(i))
<1>1. /\ prog \in Programs /\ s \in Symbols
      /\ Attr(i) = a /\ IsSymbol(a) /\ IsReference(prog, a, TypeOf(i), prog.sites[i].sec)
      /\ ~Local(s)
      /\ s \in Globals /\ table[s].va = FinalVa(s)
      /\ IsDefined(s) <=> Known(s) \/ a.late # "no"
      /\ a.placed
      /\ TypeOf(i) \notin TlsTypes
  BY AtEnd DEF TlsTypes, Gap, LocalThroughGot
<1>2. /\ NotCopied(s) <=> Outside(s)
      /\ InImage(s) <=> (Known(s) \/ a.late # "no") /\ ~Outside(s)
      /\ GotSyms = Wanted("Got")
  BY <1>1, FinalTable DEF Ended
<1>3. a.late # "no" => ~EtDyn /\ a.bind = "weak"
  BY <1>1 DEF Gap, DefinedTooLate
<1>4. s \in Wanted("Got")
  <2>1. Known(s) \/ a.bind = "weak"
    BY <1>1, <1>3 DEF Unresolved
  <2>2. Needs(i, "Got", s)
    BY <1>1, <2>1 DEF Needs
  <2> QED BY <1>1, <2>2 DEF Wanted
<1>5. G(i) = w
  BY <1>1, <1>4 DEF G, Ended, Passed, AddressesOK
<1>6. \A e, c : e \in rela => AtRunTime(e.at, c) = Relocated(e)
  BY Loader
<1>7. CASE Outside(s)
  <2>1. Dynamic
    BY <1>1, <1>7, Loader DEF Outside
  <2>2. Entry(w, "SYMBOL", s) \in rela
    <3>1. layout.glob_dat = {Entry(Slot("Got", r), "SYMBOL", r) : r \in OutGot}
      BY <2>1 DEF Ended, Passed, LayoutOK, AfterLayout
    <3>2. s \in OutGot
      BY <1>4, <1>7 DEF OutGot
    <3> QED BY <2>1, <3>1, <3>2, Loader DEF Reserved
  <2>3. AtRunTime(w, table[s].va) = Relocated(Entry(w, "SYMBOL", s))
    BY <1>6, <2>2, EntryAt
  <2>4. Relocated(Entry(w, "SYMBOL", s)) = Definition(s)
    BY DEF Relocated, Entry
  <2>5. Address(s) = Definition(s)
    BY <1>1, <1>7 DEF Outside, IsSymbol, Address
  <2> QED BY <1>5, <2>3, <2>4, <2>5
<1>8. CASE ~Outside(s) /\ EtDyn /\ InImage(s)
  <2>1. s \in CollectGot
    BY <1>2, <1>4, <1>8 DEF CollectGot
  <2>2. Relative \cup Irelative \subseteq rela
    BY <1>8, Loader DEF Collected
  <2>3. CASE a.ifunc
    <3>1. Entry(w, "IRELATIVE", s) \in Irelative
      BY <2>1, <2>3 DEF Irelative
    <3>2. AtRunTime(w, table[s].va) = Relocated(Entry(w, "IRELATIVE", s))
      BY <1>6, <2>2, <3>1, EntryAt
    <3>3. Relocated(Entry(w, "IRELATIVE", s)) = Chosen(s)
      BY DEF Relocated, Entry
    <3> QED BY <1>5, <2>3, <3>2, <3>3 DEF Address
  <2>4. CASE ~a.ifunc
    <3>1. Entry(w, "RELATIVE", table[s].va) \in Relative
      BY <2>1, <2>4 DEF Relative
    <3>2. AtRunTime(w, table[s].va) = Relocated(Entry(w, "RELATIVE", table[s].va))
      BY <1>6, <2>2, <3>1, EntryAt
    <3>3. table[s].va = Address(s)
      BY <1>1, <1>8, <2>4, TableAddress
    <3>4. FinalVa(s) = Here(s)
      <4>1. a.late = "no" /\ a.def # "abs"
        BY <1>1, <1>3, <1>8 DEF Gap, BiasedConstant
      <4>2. CASE Copied(s)
        BY <4>2 DEF FinalVa
      <4>3. CASE ~Copied(s)
        <5>1. a.def = "section"
          BY <1>1, <1>2, <1>8, <4>1, <4>3 DEF Known, Outside, IsReference, IsSymbol
        <5> QED BY <1>1, <4>1, <5>1 DEF FinalVa
      <4> QED BY <4>2, <4>3
    <3>5. Relocated(Entry(w, "RELATIVE", Here(s))) = Here(s)
      BY DEF Relocated, Entry, Here
    <3> QED BY <1>1, <1>5, <3>2, <3>3, <3>4, <3>5
  <2> QED BY <2>3, <2>4
<1>9. CASE ~Outside(s) /\ ~(EtDyn /\ InImage(s))
  <2>1. ~\E e \in rela : e.at = w
    BY <1>9, Written DEF OutGot, CollectGot
  <2>2. ~a.ifunc
    <3>1. CASE EtDyn
      BY <1>1, <1>2, <1>9, <3>1 DEF IsSymbol, Known
    <3>2. CASE ~EtDyn
      BY <1>1, <3>2 DEF Gap, IfuncResolver
    <3> QED BY <3>1, <3>2
  <2>3. table[s].va = Address(s)
    BY <1>1, <1>9, <2>2, TableAddress
  <2>4. EtDyn => FinalVa(s) = Null
    <3> SUFFICES ASSUME EtDyn PROVE FinalVa(s) = Null
      OBVIOUS
    <3>1. a.def = "none" /\ a.late = "no" /\ ~a.import
      BY <1>1, <1>2, <1>9 DEF Known
    <3> QED BY <3>1 DEF FinalVa, Copied, NeedsCopy, Attr
  <2>5. AtRunTime(w, table[s].va) = table[s].va
    BY <1>1, <2>1, <2>4 DEF AtRunTime, Null
  <2> QED BY <1>5, <2>3, <2>5
<1> QED BY <1>7, <1>8, <1>9

(* A thread-local reference names its symbol's own slots, and those exist. *)
LEMMA TlsFacts ==
  ASSUME Ended, NEW i \in Sites, SitePlaced(i), ~Gap(i), TypeOf(i) \in TlsTypes, ~Skipped(i)
  PROVE  LET s == Sym(i)
             a == prog.attr[Sym(i)]
         IN
         /\ Attr(i) = a /\ s # NoId /\ TlsRef(s) = s
         /\ TlsHere(s) \/ (a.import /\ ~TlsHere(s) /\ Dynamic)
         /\ TlsImported(i) <=> ~TlsHere(s)
         /\ \A tag \in {"TlsIe", "TlsGd", "TlsDesc"} :
              Needs(i, tag, s) => TlsSlot(tag, s) = Slot(tag, s) /\ s \in Refs(tag)
         /\ a.helper = FALSE \/ ~(a.helper /\ ~prog.shared)
         /\ IsReference(prog, a, TypeOf(i), prog.sites[i].sec)
<1> DEFINE s == Sym(i)
           a == prog.attr[Sym(i)]
<1>1. /\ prog \in Programs /\ s \in Symbols /\ s # NoId
      /\ Attr(i) = a /\ IsSymbol(a) /\ IsReference(prog, a, TypeOf(i), prog.sites[i].sec)
      /\ a.placed \/ (Local(s) /\ a.def = "section")
      /\ Local(s) => ~a.import
      /\ ~Local(s) => s \in Globals /\ table[s].id = IF Named(s) THEN s ELSE NoId
  BY AtEnd
<1>2. (a.def = "tls" /\ ~a.import) \/ (a.import /\ a.def = "none" /\ a.late = "no")
  BY <1>1 DEF IsReference, IsSymbol
<1>3. TlsRef(s) = s
  BY <1>1, <1>2 DEF TlsRef, Named, Known
<1>4. TlsHere(s) <=> a.def = "tls"
  BY <1>1, <1>2 DEF TlsHere
<1>5. TlsHere(s) \/ (a.import /\ ~TlsHere(s) /\ Dynamic)
  BY <1>1, <1>2, <1>4, Loader
<1>6. TlsImported(i) <=> ~TlsHere(s)
  <2>1. CASE Local(s)
    BY <1>1, <1>2, <1>4, <2>1 DEF TlsImported
  <2>2. CASE ~Local(s)
    <3>1. table[s].defined_in <=> a.def # "none" \/ a.late # "no"
      BY <1>1, <2>2, FinalTable DEF Ended
    <3> QED BY <1>1, <1>2, <1>4, <2>2, <3>1 DEF TlsImported
  <2> QED BY <2>1, <2>2
<1>7. ASSUME NEW tag \in {"TlsIe", "TlsGd", "TlsDesc"}, Needs(i, tag, s)
      PROVE  TlsSlot(tag, s) = Slot(tag, s) /\ s \in Refs(tag)
  <2>1. tag \in Tags
    BY DEF Tags
  <2>2. s \in Wanted(tag)
    BY <1>1, <1>7 DEF Wanted
  <2>3. s \in Refs(tag)
    BY <2>1, <2>2, FinalTable DEF Ended
  <2> QED BY <2>3 DEF Refs, TlsSlot
<1>8. a.helper = FALSE \/ ~(a.helper /\ ~prog.shared)
  BY <1>1 DEF IsReference, IsSymbol, TlsTypes
<1> QED BY <1>1, <1>3, <1>5, <1>6, <1>7, <1>8

(* What collect_tls_got fills the slots with.                              *)
LEMMA TlsFilled ==
  ASSUME Ended, Dynamic, NEW r
  PROVE  /\ r \in Refs("TlsGd") /\ prog.shared => Leads(Slot("TlsGd", r), r)
         /\ r \in Refs("TlsDesc") /\ prog.shared => Leads(Slot("TlsDesc", r), r)
         /\ r \in Refs("TlsIe") => Leads(Slot("TlsIe", r), r)
<1>1. TlsEntries \subseteq rela /\ layout.writes = TlsWrites
  BY Loader DEF Collected
<1>2. TlsSymbol(r) \in {r, DtpOffset(r)}
  BY DEF TlsSymbol
<1> DEFINE vals == {r, DtpOffset(r)}
<1>3. ASSUME r \in Refs("TlsGd"), prog.shared
      PROVE  Leads(Slot("TlsGd", r), r)
  <2>1. Filled(Slot("TlsGd", r), {"DTPMOD64"}, vals)
    <3> DEFINE e == Entry(Slot("TlsGd", r), "DTPMOD64", TlsSymbol(r))
    <3>1. e \in TlsEntries
      BY <1>3 DEF TlsEntries
    <3>2. e.at = Slot("TlsGd", r) /\ e.type = "DTPMOD64" /\ e.value = TlsSymbol(r)
      BY DEF Entry
    <3> HIDE DEF e
    <3> QED BY <1>1, <1>2, <3>1, <3>2 DEF Filled
  <2>2. Filled(Second(Slot("TlsGd", r)), {"DTPOFF64"}, vals)
    <3>1. CASE TlsHere(r)
      <4> DEFINE x == [at |-> Second(Slot("TlsGd", r)), value |-> DtpOffset(r)]
      <4>1. x \in TlsWrites
        BY <1>3, <3>1 DEF TlsWrites
      <4>2. x.at = Second(Slot("TlsGd", r)) /\ x.value = DtpOffset(r)
        OBVIOUS
      <4> HIDE DEF x
      <4> QED BY <1>1, <4>1, <4>2 DEF Filled
    <3>2. CASE ~TlsHere(r)
      <4> DEFINE e == Entry(Second(Slot("TlsGd", r)), "DTPOFF64", r)
      <4>1. e \in TlsEntries
        BY <1>3, <3>2 DEF TlsEntries
      <4>2. e.at = Second(Slot("TlsGd", r)) /\ e.type = "DTPOFF64" /\ e.value = r
        BY DEF Entry
      <4> HIDE DEF e
      <4> QED BY <1>1, <4>1, <4>2 DEF Filled
    <3> QED BY <3>1, <3>2
  <2> QED BY <2>1, <2>2 DEF Leads
<1>4. ASSUME r \in Refs("TlsDesc"), prog.shared
      PROVE  Leads(Slot("TlsDesc", r), r)
  <2> DEFINE e == Entry(Slot("TlsDesc", r), "TLSDESC", TlsSymbol(r))
  <2>1. e \in TlsEntries
    BY <1>4 DEF TlsEntries
  <2>2. e.at = Slot("TlsDesc", r) /\ e.type = "TLSDESC" /\ e.value = TlsSymbol(r)
    BY DEF Entry
  <2> HIDE DEF e
  <2>3. Filled(Slot("TlsDesc", r), {"TLSDESC"}, vals)
    BY <1>1, <1>2, <2>1, <2>2 DEF Filled
  <2> QED BY <2>3 DEF Leads
<1>5. ASSUME r \in Refs("TlsIe")
      PROVE  Leads(Slot("TlsIe", r), r)
  <2>1. CASE prog.shared \/ ~TlsHere(r)
    <3> DEFINE e == Entry(Slot("TlsIe", r), "TPOFF64", TlsSymbol(r))
    <3>1. e \in TlsEntries
      BY <1>5, <2>1 DEF TlsEntries
    <3>2. e.at = Slot("TlsIe", r) /\ e.type = "TPOFF64" /\ e.value = TlsSymbol(r)
      BY DEF Entry
    <3> HIDE DEF e
    <3>3. Filled(Slot("TlsIe", r), {"TPOFF64"}, vals \cup {TpOffset(r)})
      BY <1>1, <1>2, <3>1, <3>2 DEF Filled
    <3> QED BY <3>3 DEF Leads
  <2>2. CASE ~prog.shared /\ TlsHere(r)
    <3> DEFINE x == [at |-> Slot("TlsIe", r), value |-> TpOffset(r)]
    <3>1. x \in TlsWrites
      BY <1>5, <2>2 DEF TlsWrites
    <3>2. x.at = Slot("TlsIe", r) /\ x.value = TpOffset(r)
      OBVIOUS
    <3> HIDE DEF x
    <3>3. Filled(Slot("TlsIe", r), {"TPOFF64"}, vals \cup {TpOffset(r)})
      BY <1>1, <3>1, <3>2 DEF Filled
    <3> QED BY <3>3 DEF Leads
  <2> QED BY <2>1, <2>2
<1> QED BY <1>3, <1>4, <1>5

(* The thread-local accesses that lead to one variable.                    *)
LEMMA TlsMeaning ==
  ASSUME Ended, NEW i \in Sites, SitePlaced(i), ~Gap(i), ~Skipped(i),
         TypeOf(i) \in {"TPOFF", "TLSGD", "GOTTPOFF", "TLSDESC"}
  PROVE  Leads(PatchBuf(i), Sym(i))
<1> DEFINE s == Sym(i)
           a == prog.attr[Sym(i)]
<1>1. /\ Attr(i) = a /\ s # NoId /\ TlsRef(s) = s
      /\ TlsHere(s) \/ (a.import /\ ~TlsHere(s) /\ Dynamic)
      /\ TlsImported(i) <=> ~TlsHere(s)
      /\ \A tag \in {"TlsIe", "TlsGd", "TlsDesc"} :
           Needs(i, tag, s) => TlsSlot(tag, s) = Slot(tag, s) /\ s \in Refs(tag)
      /\ IsReference(prog, a, TypeOf(i), prog.sites[i].sec)
  BY TlsFacts DEF TlsTypes
<1>2. prog.shared => Dynamic
  BY Loader
<1>3. ~prog.shared => Leads(TpOffset(s), s)
  BY DEF Leads
<1>4. CASE TypeOf(i) = "TPOFF"
  <2>1. ~prog.shared /\ ~a.import
    BY <1>1, <1>4 DEF IsReference
  <2>2. PatchBuf(i) = TpOffset(s)
    BY <1>1, <1>4, <2>1 DEF PatchBuf, TpRelative, TlsOffset
  <2> QED BY <1>3, <2>1, <2>2
<1>5. ASSUME TypeOf(i) \in {"TLSGD", "TLSDESC"}, ~prog.shared
      PROVE  Leads(Relaxed(i), s)
  <2>1. CASE TlsHere(s)
    BY <1>1, <1>3, <1>5, <2>1 DEF Relaxed, TpRelative, TlsOffset
  <2>2. CASE ~TlsHere(s)
    <3>1. Needs(i, "TlsIe", s)
      BY <1>1, <1>5, <2>2 DEF Needs
    <3>2. Relaxed(i) = Slot("TlsIe", s) /\ s \in Refs("TlsIe")
      BY <1>1, <2>2, <3>1 DEF Relaxed
    <3> QED BY <1>1, <2>2, <3>2, TlsFilled
  <2> QED BY <2>1, <2>2
<1>6. CASE TypeOf(i) = "TLSGD"
  <2>1. PatchBuf(i) = GeneralDynamic(i)
    BY <1>6 DEF PatchBuf
  <2>2. CASE prog.shared
    <3>1. Needs(i, "TlsGd", s)
      BY <1>6, <2>2 DEF Needs
    <3>2. GeneralDynamic(i) = Slot("TlsGd", s) /\ s \in Refs("TlsGd")
      BY <1>1, <2>2, <3>1 DEF GeneralDynamic
    <3> QED BY <1>2, <2>1, <2>2, <3>2, TlsFilled
  <2>3. CASE ~prog.shared
    BY <1>5, <1>6, <2>1, <2>3 DEF GeneralDynamic
  <2> QED BY <2>2, <2>3
<1>7. CASE TypeOf(i) = "TLSDESC"
  <2>1. PatchBuf(i) = Descriptor(i)
    BY <1>7 DEF PatchBuf
  <2>2. CASE prog.shared
    <3>1. Needs(i, "TlsDesc", s)
      BY <1>7, <2>2 DEF Needs
    <3>2. Descriptor(i) = Slot("TlsDesc", s) /\ s \in Refs("TlsDesc")
      BY <1>1, <2>2, <3>1 DEF Descriptor
    <3> QED BY <1>2, <2>1, <2>2, <3>2, TlsFilled
  <2>3. CASE ~prog.shared
    BY <1>5, <1>7, <2>1, <2>3 DEF Descriptor
  <2> QED BY <2>2, <2>3
<1>8. CASE TypeOf(i) = "GOTTPOFF"
  <2>1. Needs(i, "TlsIe", s)
    BY <1>8 DEF Needs
  <2>2. PatchBuf(i) = Slot("TlsIe", s) /\ s \in Refs("TlsIe")
    BY <1>1, <1>8, <2>1 DEF PatchBuf, InitialExec
  <2>3. Dynamic
    BY <1>8 DEF Gap, StaticInitialExec
  <2> QED BY <2>2, <2>3, TlsFilled
<1> QED BY <1>4, <1>6, <1>7, <1>8
-----------------------------------------------------------------------------
LEMMA MeaningRight ==
  ASSUME Ended, NEW i \in Sites, SitePlaced(i), ~Gap(i)
  PROVE  Designates(i) = Meaning(i)
<1> DEFINE s == Sym(i)
           a == prog.attr[Sym(i)]
           t == TypeOf(i)
           helped == Attr(i).helper /\ ~prog.shared
           gone == Local(s) /\ Attr(i).def # "abs" /\ ~Attr(i).placed
<1>1. /\ Attr(i) = a /\ IsSymbol(a) /\ IsReference(prog, a, t, prog.sites[i].sec)
      /\ \/ Skipped(i) /\ field[i] = <<"skipped">>
         \/ ~Skipped(i) /\ ~Unresolved(i) /\ field[i] = <<"is", PatchBuf(i)>>
      /\ Local(s) => a.def # "none"
  BY AtEnd
<1>2. Skipped(i) <=> helped \/ gone
  <2>1. helped => t = "PLT32"
    BY <1>1 DEF IsReference, Gap, HelperThroughGot
  <2>2. gone => Attr(i).def \in {"section", "tls"}
    BY <1>1 DEF IsSymbol
  <2> QED BY <2>1, <2>2 DEF Skipped
<1>3. CASE Skipped(i)
  <2>1. Meaning(i) = <<"skipped">>
    BY <1>2, <1>3 DEF Meaning
  <2>2. field[i] = <<"skipped">>
    BY <1>1, <1>3
  <2> QED BY <2>1, <2>2 DEF Designates
<1>4. CASE ~Skipped(i)
  <2> DEFINE v == PatchBuf(i)
  <2>1. field[i] = <<"is", v>> /\ ~Unresolved(i) /\ ~(helped \/ gone)
    BY <1>1, <1>2, <1>4
  <2>2. field[i][1] # "skipped" /\ field[i][2] = v
    BY <2>1
  <2> HIDE DEF v
  <2>3. Alloc(i) \/ t \in {"R64", "DTPOFF"}
    BY <1>1 DEF IsReference, Alloc, Code, Types, CopyTypes, TlsTypes
  <2>4. t \in Types
    BY <1>1 DEF IsReference
  <2>5. CASE t \in CopyTypes \cup {"PLT32", "GOT"}
    <3>1. t \notin TlsTypes
      BY <2>5 DEF CopyTypes, TlsTypes
    <3>2. Meaning(i) = Address(s)
      BY <2>1, <3>1 DEF Meaning, TlsTypes
    <3>3. CASE t \in {"R64", "R32"} /\ Alloc(i)
      <4>1. v = S(i)
        BY <3>3 DEF PatchBuf, v
      <4>2. Designates(i) = AtRunTime(SiteWord(i), v)
        BY <2>2, <3>3 DEF Designates
      <4> QED BY <1>4, <3>2, <3>3, <4>1, <4>2, WordMeaning
    <3>4. CASE ~Alloc(i)
      <4>1. t = "R64"
        BY <2>3, <2>5, <3>4 DEF CopyTypes
      <4>2. v = S(i)
        BY <4>1 DEF PatchBuf, v
      <4>3. Designates(i) = v
        BY <2>2, <3>4 DEF Designates
      <4>4. a.def = "section" /\ ~a.ifunc
        BY <1>1, <3>1, <3>4 DEF IsReference, Alloc, TlsTypes
      <4>5. S(i) = Address(s)
        <5>1. CASE Local(s)
          BY <1>4, <3>1, <5>1, LocalAddress
        <5>2. CASE ~Local(s)
          <6>1. ~Outside(s)
            BY <1>1, <4>4 DEF Outside, IsSymbol
          <6> QED BY <1>1, <3>1, <4>4, <5>2, <6>1, TableAddress DEF S
        <5> QED BY <5>1, <5>2
      <4> QED BY <3>2, <4>2, <4>3, <4>5
    <3>5. CASE t = "PC32" /\ Alloc(i)
      <4>1. v = S(i)
        BY <3>5 DEF PatchBuf, v
      <4>2. Designates(i) = Displaced(v)
        BY <2>2, <3>5 DEF Designates
      <4> QED BY <1>4, <2>1, <3>2, <3>5, <4>1, <4>2, DirectMeaning
    <3>6. CASE t = "PLT32" /\ Alloc(i)
      <4>1. v = IF L(i) # Null THEN L(i) ELSE S(i)
        BY <3>6 DEF PatchBuf, v
      <4>2. Designates(i) = CallDesignates(v)
        BY <2>2, <3>6 DEF Designates, CallDesignates
      <4> QED BY <1>4, <2>1, <3>2, <3>6, <4>1, <4>2, CallMeaning
    <3>7. CASE t = "GOT" /\ Alloc(i)
      <4>1. v = Slot("Got", s) /\ AtRunTime(Slot("Got", s), table[s].va) = Address(s)
        BY <1>4, <2>1, <3>7, GotMeaning DEF PatchBuf, v
      <4>2. Designates(i) = IF v[1] = "slot" THEN AtRunTime(v, table[v[3]].va) ELSE Junk
        BY <2>2, <3>7 DEF Designates
      <4>3. v[1] = "slot" /\ v[3] = s
        BY <4>1 DEF Slot
      <4> QED BY <3>2, <4>1, <4>2, <4>3
    <3> QED BY <2>5, <3>3, <3>4, <3>5, <3>6, <3>7 DEF CopyTypes
  <2>6. CASE t = "TLSLD"
    <3>1. v = LocalDynamic(i) /\ Alloc(i)
      BY <2>3, <2>6 DEF PatchBuf, v
    <3>2. Meaning(i) = IF prog.shared THEN Slot("TlsLdm", NoId) ELSE <<"fs:0">>
      BY <2>1, <2>6 DEF Meaning, TlsTypes
    <3>3. Designates(i) = IF v[1] = "slot" /\ ~Filled(v, {"DTPMOD64"}, {DtpOffset(NoId)})
                          THEN Junk ELSE v
      BY <2>2, <2>6, <3>1 DEF Designates
    <3>4. CASE ~prog.shared
      <4>1. v = <<"fs:0">>
        BY <3>1, <3>4 DEF LocalDynamic
      <4> QED BY <3>2, <3>3, <3>4, <4>1
    <3>5. CASE prog.shared
      <4>1. Needs(i, "TlsLdm", NoId)
        BY <2>6, <3>5 DEF Needs
      <4>2. NoId \in Wanted("TlsLdm")
        BY <4>1 DEF Wanted
      <4>3. NoId \in Refs("TlsLdm")
        BY <4>2, FinalTable DEF Ended, Tags
      <4>4. v = Slot("TlsLdm", NoId)
        BY <3>1, <3>5, <4>3 DEF LocalDynamic, TlsSlot, Refs
      <4>5. Filled(v, {"DTPMOD64"}, {DtpOffset(NoId)})
        <5> DEFINE e == Entry(Slot("TlsLdm", NoId), "DTPMOD64", DtpOffset(NoId))
        <5>1. e \in TlsEntries
          BY <3>5, <4>3 DEF TlsEntries
        <5>2. TlsEntries \subseteq rela
          BY <3>5, Loader DEF Collected
        <5>3. e.at = Slot("TlsLdm", NoId) /\ e.type = "DTPMOD64" /\ e.value = DtpOffset(NoId)
          BY DEF Entry
        <5> HIDE DEF e
        <5> QED BY <4>4, <5>1, <5>2, <5>3 DEF Filled
      <4> QED BY <3>2, <3>3, <3>5, <4>4, <4>5
    <3> QED BY <3>4, <3>5
  <2>7. CASE t = "DTPOFF"
    <3>1. v = DtpRelative(i)
      BY <2>7 DEF PatchBuf, v
    <3>2. Meaning(i) = IF prog.shared \/ ~Alloc(i) THEN DtpOffset(s) ELSE TpOffset(s)
      BY <2>1, <2>7 DEF Meaning, TlsTypes
    <3>3. Designates(i) = v
      BY <2>2, <2>7 DEF Designates
    <3>4. TlsHere(s)
      <4>1. ~a.import
        BY <1>1, <2>7 DEF IsReference
      <4> QED BY <1>4, <2>7, <4>1, TlsFacts DEF TlsTypes
    <3>5. prog.shared \/ Alloc(i)
      BY <2>7 DEF Gap, DebugOffset
    <3> QED BY <3>1, <3>2, <3>3, <3>4, <3>5 DEF DtpRelative, TpRelative, TlsOffset
  <2>8. CASE t \in {"TPOFF", "TLSGD", "GOTTPOFF", "TLSDESC"}
    <3>1. Leads(v, s)
      BY <1>4, <2>8, TlsMeaning DEF v
    <3>2. Meaning(i) = Thread(s)
      BY <2>1, <2>8 DEF Meaning, TlsTypes
    <3>3. Designates(i) = IF Leads(v, s) THEN Thread(s) ELSE Junk
      BY <2>2, <2>3, <2>8 DEF Designates
    <3> QED BY <3>1, <3>2, <3>3
  <2> QED BY <2>4, <2>5, <2>6, <2>7, <2>8 DEF Types, TlsTypes
<1> QED BY <1>3, <1>4
-----------------------------------------------------------------------------
PassInv ==
  /\ Started /\ TableOK /\ SlotsOK /\ CountOK /\ LayoutOK
  /\ AddressesOK /\ FieldOK /\ FailedOK /\ RelaOK

LEMMA PassInit ==
  ASSUME Init
  PROVE  PassInv
<1>1. Started /\ TableOK /\ SlotsOK
  BY InitFacts
<1>2. /\ pc = "weak_ids" /\ rela = {} /\ field = [i \in Sites |-> Null]
      /\ layout = [cap |-> 0, glob_dat |-> {}, copies |-> {}, plt |-> {}, writes |-> {}]
  BY DEF Init
<1>3. CountOK /\ LayoutOK /\ AddressesOK
  BY <1>2 DEF CountOK, LayoutOK, AddressesOK, AfterCount, AfterProvide, AfterLayout,
              AfterFinalize, AfterAppend
<1>4. FieldOK /\ FailedOK /\ RelaOK
  BY <1>2 DEF FieldOK, FailedOK, RelaOK, AfterAppend
<1> QED BY <1>1, <1>3, <1>4 DEF PassInv

LEMMA PassNext ==
  ASSUME PassInv, [Next]_vars
  PROVE  PassInv'
<1>1. CASE Next
  <2> USE DEF PassInv
  <2>1. Started'
    BY <1>1, PassesKept
  <2>2. TableOK'
    BY <1>1, TablePasses, TableKept DEF Next
  <2>3. SlotsOK'
    <3>1. CASE pc = "scan"
      <4>1. ScanRelocations
        BY <1>1, <3>1 DEF Next, AssignWeakGotIds, MarkCopyRelocs, CountDynamicRelocs,
           PredefineAndDefsym, ComputeLayout, FinalizeSymbols, CheckUndefined,
           AppendDynamicRelocs, ApplyReloc, Done
      <4> QED BY <4>1, ScanSlots
    <3>2. CASE pc # "scan"
      BY <1>1, <3>2, SlotsKept
    <3> QED BY <3>1, <3>2
  <2>4. CountOK'
    <3>1. CASE pc = "count"
      <4>1. CountDynamicRelocs
        BY <1>1, <3>1 DEF Next, AssignWeakGotIds, ScanRelocations, MarkCopyRelocs,
           PredefineAndDefsym, ComputeLayout, FinalizeSymbols, CheckUndefined,
           AppendDynamicRelocs, ApplyReloc, Done
      <4> QED BY <4>1, CountPass
    <3>2. CASE pc # "count"
      BY <1>1, <3>2, CountsStay
    <3> QED BY <3>1, <3>2
  <2>5. LayoutOK'
    <3>1. CASE pc = "layout"
      <4>1. ComputeLayout
        BY <1>1, <3>1 DEF Next, AssignWeakGotIds, ScanRelocations, MarkCopyRelocs,
           CountDynamicRelocs, PredefineAndDefsym, FinalizeSymbols, CheckUndefined,
           AppendDynamicRelocs, ApplyReloc, Done
      <4> QED BY <4>1, LayoutPass
    <3>2. CASE pc # "layout"
      BY <1>1, <3>2, LayoutKept
    <3> QED BY <3>1, <3>2
  <2>6. AddressesOK'
    <3>1. CASE pc = "finalize"
      <4>1. FinalizeSymbols
        BY <1>1, <3>1 DEF Next, AssignWeakGotIds, ScanRelocations, MarkCopyRelocs,
           CountDynamicRelocs, PredefineAndDefsym, ComputeLayout, CheckUndefined,
           AppendDynamicRelocs, ApplyReloc, Done
      <4> QED BY <4>1, FinalizePass
    <3>2. CASE pc # "finalize"
      BY <1>1, <3>2, AddressesKept
    <3> QED BY <3>1, <3>2
  <2>7. FieldOK'
    BY <1>1, FieldKept
  <2>8. FailedOK'
    BY <1>1, FailuresKept
  <2>9. RelaOK'
    <3>1. CASE pc = "collect"
      <4>1. AppendDynamicRelocs
        BY <1>1, <3>1 DEF Next, AssignWeakGotIds, ScanRelocations, MarkCopyRelocs,
           CountDynamicRelocs, PredefineAndDefsym, ComputeLayout, FinalizeSymbols,
           CheckUndefined, ApplyReloc, Done
      <4>2. Passed
        BY <3>1 DEF Passed, AfterFinalize
      <4> QED BY <4>1, <4>2, AppendPass
    <3>2. CASE pc # "collect"
      BY <1>1, <3>2, RelaKept
    <3> QED BY <3>1, <3>2
  <2> QED BY <2>1, <2>2, <2>3, <2>4, <2>5, <2>6, <2>7, <2>8, <2>9
<1>2. CASE UNCHANGED vars
  <2>1. /\ prog' = prog /\ pc' = pc /\ table' = table /\ slots' = slots /\ count' = count
        /\ layout' = layout /\ rela' = rela /\ field' = field
    BY <1>2 DEF vars
  <2>2. /\ Sites' = Sites /\ Globals' = Globals /\ Symbols' = Symbols /\ EtDyn' = EtDyn
        /\ \A s : Known(s)' = Known(s) /\ Named(s)' = Named(s) /\ Copied(s)' = Copied(s)
        /\ \A i : SitePlaced(i)' = SitePlaced(i)
        /\ \A i, tag, r : Needs(i, tag, r)' = Needs(i, tag, r)
    BY <2>1, ProgramKept
  <2>3. /\ RelSites' = RelSites /\ SymSites' = SymSites /\ RelGot' = RelGot
        /\ TlsRoom' = TlsRoom /\ Imports' = Imports /\ Dynamic' = Dynamic
        /\ \A tag : Wanted(tag)' = Wanted(tag)
        /\ OutGot' = OutGot /\ CopySyms' = CopySyms
    BY <2>1, <2>2, CountsKept DEF OutGot, CopySyms
  <2>4. Started' /\ TableOK' /\ SlotsOK'
    BY <2>1, <2>2 DEF PassInv, Started, TableOK, SlotsOK, Slot
  <2>5. CountOK' /\ LayoutOK'
    BY <2>1, <2>2, <2>3 DEF PassInv, CountOK, LayoutOK, Entry, Slot, Here
  <2>6. AddressesOK'
    <3>1. \A s : FinalVa(s)' = FinalVa(s)
      BY <2>1, <2>2 DEF FinalVa, Here, Const, Null
    <3> QED BY <2>1, <2>2, <2>3, <3>1 DEF PassInv, AddressesOK, Slot, Null
  <2>7. FieldOK'
    <3>1. \A i : /\ Skipped(i)' = Skipped(i) /\ Unresolved(i)' = Unresolved(i)
                 /\ PatchBuf(i)' = PatchBuf(i)
      BY <2>1, PatchKept
    <3>2. Pending' = Pending
      BY <2>1, <2>2 DEF Pending, Null
    <3> QED BY <2>1, <2>2, <3>1, <3>2 DEF PassInv, FieldOK, Null
  <2>8. FailedOK'
    BY <2>1, <2>2 DEF PassInv, FailedOK, Nothing
  <2>9. RelaOK'
    <3>1. /\ Collected' = Collected /\ TlsWrites' = TlsWrites
          /\ Undercounted' = Undercounted /\ Reserved' = Reserved
      BY <2>1, CollectedKept DEF Reserved
    <3> QED BY <2>1, <2>3, <3>1 DEF PassInv, RelaOK
  <2> QED BY <2>4, <2>5, <2>6, <2>7, <2>8, <2>9 DEF PassInv
<1> QED BY <1>1, <1>2

(* Every pass leaves its part of the state what it has to be for the       *)
(* program linked: ids before the scan, slots, copies, counts, the layout, *)
(* addresses, .rela.dyn, patched words.                                    *)
THEOREM PassesAgree == Spec => []PassInv
<1>1. Init => PassInv
  BY PassInit
<1>2. PassInv /\ [Next]_vars => PassInv'
  BY PassNext
<1> QED BY <1>1, <1>2, PTL DEF Spec

(* What count_dynamic_relocs reserves is enough for what                   *)
(* append_all_dynamic_relocs collects, no word is relocated twice, and     *)
(* every GOT and PLT slot has a name.                                      *)
THEOREM RelaIsExact == Spec => []RelaExact
<1>1. PassInv => RelaExact
  BY RelaRight DEF PassInv
<1> QED BY <1>1, PassesAgree, PTL

(* A link fails over a reference to nothing, and never succeeds with one.  *)
THEOREM FailuresAreExact == Spec => []FailsExactly
<1>1. PassInv => FailsExactly
  BY FailsRight DEF PassInv
<1> QED BY <1>1, PassesAgree, PTL

(* Once loaded, at any address, every relocated place that is not one of   *)
(* the listed gaps designates what its relocation means: what the scan     *)
(* asks for, the count reserves, layout places, finalize_symbols defines,  *)
(* the collections emit and apply_reloc patches fits together.             *)
THEOREM MeaningIsKept == Spec => []MeaningKept
<1>1. PassInv => MeaningKept
  BY MeaningRight DEF PassInv, MeaningKept, Ended, Passed, AfterFinalize, AfterAppend
<1> QED BY <1>1, PassesAgree, PTL
=============================================================================
