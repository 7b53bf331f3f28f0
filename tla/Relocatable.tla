---------------------------- MODULE Relocatable ----------------------------
(***************************************************************************)
(* emit_relocatable (peony-emit/src/relocatable.rs): the objects of an -r  *)
(* link become one object.  Sections of one name are joined, symbols       *)
(* merged and moved by the offset of their section, relocations carried    *)
(* over as they are.  One action per pass.                                 *)
(*                                                                         *)
(* An -r link is a record                                                  *)
(*   objs     objects: secs (name, type, flags, size, align, relocs: off,  *)
(*            sym, addend) and syms (name, binding, kind, type, section,   *)
(*            value, size, align); section 0 is no section; relocations    *)
(*            name symbols by their index                                  *)
(*   comdat   some object has a COMDAT group                               *)
(*   defsym   name to value                                                *)
(***************************************************************************)
EXTENDS SymbolTable, SequencesExt, FiniteSetsExt

CONSTANT TextSize     \* bytes of a name in a string table

VARIABLES
  prog,     \* the link
  pc,       \* the next pass; "merged", "handoff" at the end
  rel       \* the new object, as far as it is known

EHDR == 64
SHDR == 64
SYM == 24
RELA == 24

Nothing ==
  [table |-> EmptyTable, outs |-> << >>, placement |-> << >>, syms |-> << >>, local_map |-> << >>,
   global_index |-> << >>, first_global |-> 0, rela |-> << >>, heads |-> << >>, shoff |-> 0]

Objs == DOMAIN prog.objs
AlignTo(v, a) == IF a <= 1 THEN v ELSE ((v + a - 1) \div a) * a

(* What the driver hands over: the global symbols of all objects merged in *)
(* order, then --defsym (apply_defsym).                                    *)
Globals(o) == SelectSeq(prog.objs[o].syms, LAMBDA y : y.binding # "Local")
InputTable ==
  FoldLeft(LAMBDA t, o : FoldLeft(LAMBDA u, y : MergeSymbol(u, o, y), t, Globals(o)),
           EmptyTable, [o \in Objs |-> o])

HandOff ==
  /\ pc = "output" /\ prog.relocatable /\ prog.comdat
  /\ pc' = "handoff"
  /\ UNCHANGED <<prog, rel>>

ApplyDefsym ==
  /\ pc = "output" /\ prog.relocatable /\ ~prog.comdat
  /\ rel' = [rel EXCEPT !.table = DefineAbsolute(InputTable, DOMAIN prog.defsym)]
  /\ pc' = "merge_sections"
  /\ UNCHANGED prog
-----------------------------------------------------------------------------
(* Pass 1: sections by name; type of the first, flags of all.              *)
IsRegenerated(type) == type \in {"SYMTAB", "STRTAB", "RELA", "GROUP"}
Section(k) == prog.objs[k[1]].secs[k[2]]
InOrder ==
  FoldLeft(LAMBDA s, o : s \o [i \in DOMAIN prog.objs[o].secs |-> <<o, i>>], << >>,
           [o \in Objs |-> o])

AddSection(r, k) ==
  LET s == Section(k)
      at == {i \in DOMAIN r.outs : r.outs[i].name = s.name}
      i == IF at = {} THEN Len(r.outs) + 1 ELSE Min(at)
      out == IF at # {} THEN r.outs[i]
             ELSE [name |-> s.name, type |-> s.type, flags |-> s.flags, align |-> Max({s.align, 1}),
                   size |-> 0, parts |-> << >>]
      off == AlignTo(out.size, Max({s.align, 1}))
      new == [out EXCEPT !.size = off + s.size, !.align = Max({@, s.align}),
                         !.flags = @ \cup s.flags,
                         !.parts = Append(@, [key |-> k, offset |-> off])]
  IN  IF IsRegenerated(s.type) \/ s.name = "" THEN r
      ELSE [outs |-> IF at = {} THEN Append(r.outs, new) ELSE [r.outs EXCEPT ![i] = new],
            placement |-> Append(r.placement, <<k, i, off>>)]

MergeSections ==
  LET r == FoldLeft(AddSection, [outs |-> << >>, placement |-> << >>], InOrder) IN
  /\ pc = "merge_sections" /\ pc' = "merge_locals"
  /\ rel' = [rel EXCEPT !.outs = r.outs, !.placement = r.placement]
  /\ UNCHANGED prog

(* placement.get: output section and offset, as a set of one or none.      *)
PlacementOf(k) == {<<p[2], p[3]>> : p \in {p \in ToSet(rel.placement) : p[1] = k}}
-----------------------------------------------------------------------------
(* Pass 2: locals first, then one entry for every global name.             *)
Entry(name, bind, shndx, value) == [name |-> name, bind |-> bind, shndx |-> shndx, value |-> value]
OutShndx(i) == <<"section", i % 2 ^ 16>>

(* Bug: a symbol keeps the value it had in its own section.                *)
LocalEntryUnmoved(o, y) ==
  IF y.type = "FILE" \/ y.section = 0 THEN {Entry(y.name, "Local", <<"ABS">>, y.value)}
  ELSE {Entry(y.name, "Local", OutShndx(p[1]), y.value) : p \in PlacementOf(<<o, y.section>>)}

LocalEntry(o, y) ==
  IF y.type = "FILE" \/ y.section = 0 THEN {Entry(y.name, "Local", <<"ABS">>, y.value)}
  ELSE {Entry(y.name, "Local", OutShndx(p[1]), y.value + p[2]) : p \in PlacementOf(<<o, y.section>>)}

(* A local whose section was dropped is skipped.                           *)
AddLocal(r, o, i) ==
  LET y == prog.objs[o].syms[i]
      e == LocalEntry(o, y)
  IN  IF y.binding # "Local" \/ e = {} THEN r
      ELSE [syms |-> Append(r.syms, CHOOSE x \in e : TRUE),
            map |-> Append(r.map, <<o, i, Len(r.syms) + 1>>)]

MergeLocals ==
  LET r == FoldLeft(LAMBDA a, o : FoldLeft(LAMBDA b, i : AddLocal(b, o, i), a,
                                           [i \in DOMAIN prog.objs[o].syms |-> i]),
                    [syms |-> << >>, map |-> << >>], [o \in Objs |-> o])
  IN
  /\ pc = "merge_locals" /\ pc' = "merge_globals"
  /\ rel' = [rel EXCEPT !.syms = r.syms, !.local_map = r.map, !.first_global = Len(r.syms) + 1]
  /\ UNCHANGED prog

(* The value a resolution was given: that of the defining symbol.          *)
ValueOf(n, e) ==
  IF e.defined_in = 0 THEN prog.defsym[n]
  ELSE (CHOOSE y \in ToSet(Globals(e.defined_in)) : y.name = n /\ y.kind = "defined").value

GlobalEntry(n, e) ==
  LET at == PlacementOf(<<e.defined_in, e.section>>) IN
  CASE e.common # None -> Entry(n, e.binding, <<"COMMON">>, e.common[2])
    [] e.common = None /\ e.defined_in # None /\ e.section # None /\ at # {} ->
         LET p == CHOOSE p \in at : TRUE
         IN  Entry(n, e.binding, OutShndx(p[1]), ValueOf(n, e) + p[2])
    [] e.common = None /\ e.defined_in # None /\ e.section = None ->
         Entry(n, e.binding, <<"ABS">>, ValueOf(n, e))
    [] OTHER -> Entry(n, e.binding, <<"UNDEF">>, 0)

(* The table is a hash map: its entries come in any order.                 *)
MergeGlobals ==
  LET t == rel.table.res
      n0 == Len(rel.syms)
  IN
  /\ pc = "merge_globals" /\ pc' = "rela"
  /\ \E order \in SetToSeqs({n \in Names : t[n] # None}) :
       rel' = [rel EXCEPT !.syms = @ \o [k \in DOMAIN order |-> GlobalEntry(order[k], t[order[k]])],
                          !.global_index = [n \in ToSet(order) |->
                                              n0 + (CHOOSE k \in DOMAIN order : order[k] = n)]]
  /\ UNCHANGED prog
-----------------------------------------------------------------------------
(* Pass 3: the relocations of each output section, in order.               *)
OutSymFor(o, i) ==
  LET local == {m[3] : m \in {m \in ToSet(rel.local_map) : m[1] = o /\ m[2] = i}}
      name == prog.objs[o].syms[i].name
  IN  IF local # {} THEN Max(local)
      ELSE IF name \in DOMAIN rel.global_index THEN rel.global_index[name] ELSE 0

Carried(part, r) ==
  [offset |-> part.offset + r.off, sym |-> OutSymFor(part.key[1], r.sym), addend |-> r.addend]
RelaOf(out) ==
  FoldLeft(LAMBDA s, p : s \o [j \in DOMAIN Section(p.key).relocs |-> Carried(p, Section(p.key).relocs[j])],
           << >>, out.parts)

BuildRela ==
  /\ pc = "rela" /\ pc' = "offsets"
  /\ rel' = [rel EXCEPT !.rela =
       SelectSeq([i \in DOMAIN rel.outs |-> [of |-> i, entries |-> RelaOf(rel.outs[i])]],
                 LAMBDA x : x.entries # << >>)]
  /\ UNCHANGED prog
-----------------------------------------------------------------------------
(* The file: header, sections, relocations, symbols, strings, and the      *)
(* section headers last.  A head is what a section header says.            *)
AddHeader(r, type, align, size, link, info) ==
  LET off == IF type = "NOBITS" THEN r.len ELSE AlignTo(r.len, align)
  IN  [len |-> IF type = "NOBITS" THEN r.len ELSE off + size,
       heads |-> Append(r.heads, [type |-> type, off |-> off, size |-> size, link |-> link,
                                  info |-> info, align |-> align])]

NamesIn(s) == Cardinality({s[i].name : i \in DOMAIN s} \ {""})
AssignOffsets ==
  LET symtab == 1 + Len(rel.outs) + Len(rel.rela)
      outs == FoldLeft(LAMBDA r, x : AddHeader(r, x.type, x.align, x.size, 0, 0),
                       [len |-> EHDR, heads |-> << >>], rel.outs)
      rela == FoldLeft(LAMBDA r, x : AddHeader(r, "RELA", 8, RELA * Len(x.entries), symtab, x.of), outs, rel.rela)
      sym == AddHeader(rela, "SYMTAB", 8, SYM * (Len(rel.syms) + 1), symtab + 1, rel.first_global)
      str == AddHeader(sym, "STRTAB", 1, 1 + TextSize * NamesIn(rel.syms), 0, 0)
      shstr == AddHeader(str, "STRTAB", 1, 1 + TextSize * (Len(rel.outs) + Len(rel.rela) + 3), 0, 0)
  IN
  /\ pc = "offsets" /\ pc' = "merged"
  /\ rel' = [rel EXCEPT !.heads = shstr.heads, !.shoff = AlignTo(shstr.len, 8)]
  /\ UNCHANGED prog

EmitRelocatable ==
  HandOff \/ ApplyDefsym \/ MergeSections \/ MergeLocals \/ MergeGlobals \/ BuildRela \/ AssignOffsets
-----------------------------------------------------------------------------
(* Links with the conditions the code relies on: the sections of a name    *)
(* all have bytes or none has, a symbol is defined in a section that is    *)
(* kept, and --defsym does not name a tentative definition (the table goes *)
(* on calling it common).                                                  *)
Regular ==
  /\ \A j, k \in ToSet(InOrder) : Section(j).name = Section(k).name =>
       (Section(j).type = "NOBITS") = (Section(k).type = "NOBITS")
  /\ \A n \in DOMAIN prog.defsym : InputTable.res[n] # None => InputTable.res[n].common = None

(* Where symbol i of object o is, by its own object or by the one that     *)
(* defines the name, and where entry k of the new table is: a place in an  *)
(* input section, an absolute value, or a name.                            *)
PlaceIn(o, s, v) == IF s \in {0, None} THEN <<"abs", v>> ELSE <<"at", o, s, v>>
Meant(o, i) ==
  LET y == prog.objs[o].syms[i]
      e == rel.table.res[y.name]
  IN  CASE y.binding = "Local" -> PlaceIn(o, IF y.type = "FILE" THEN 0 ELSE y.section, y.value)
        [] y.binding # "Local" /\ e.common = None /\ e.defined_in # None ->
             PlaceIn(e.defined_in, e.section, ValueOf(y.name, e))
        [] OTHER -> <<"name", y.name>>
Back(shndx, v) ==
  {<<"at", p[1][1], p[1][2], v - p[3]>> : p \in {p \in ToSet(rel.placement) : OutShndx(p[2]) = shndx}}
Means(k, place) ==
  /\ k \in DOMAIN rel.syms
  /\ CASE rel.syms[k].shndx = <<"ABS">> -> place = <<"abs", rel.syms[k].value>>
       [] rel.syms[k].shndx \in {<<"UNDEF">>, <<"COMMON">>} -> place = <<"name", rel.syms[k].name>>
       [] OTHER -> place \in Back(rel.syms[k].shndx, rel.syms[k].value)

RelocationsKept ==
  /\ \A p \in ToSet(rel.placement) : \A r \in ToSet(Section(p[1]).relocs) :
       \E x \in ToSet(rel.rela) : x.of = p[2] /\ \E e \in ToSet(x.entries) :
         e.offset = p[3] + r.off /\ e.addend = r.addend /\ Means(e.sym, Meant(p[1][1], r.sym))
  /\ \A x \in ToSet(rel.rela) :
       Len(x.entries) = FoldLeft(LAMBDA n, p : n + Len(Section(p.key).relocs), 0, rel.outs[x.of].parts)

(* The global symbols of the new object as a reader takes them.            *)
Reread ==
  [k \in rel.first_global .. Len(rel.syms) |->
     LET y == rel.syms[k] IN
     [name |-> y.name, binding |-> y.bind, section |-> y.shndx, value |-> y.value,
      kind |-> CASE y.shndx = <<"UNDEF">> -> "undefined"
                 [] y.shndx = <<"COMMON">> -> "common"
                 [] OTHER -> "defined"]]
Agree(y, e) ==
  /\ y.binding = e.binding
  /\ (y.kind = "common") = (e.common # None)
  /\ (y.kind = "undefined") = (e.defined_in = None)

(* Parts of the file: contributions, and the sections the linker makes.    *)
Ranges ==
  UNION {{[of |-> p.key, lo |-> rel.heads[i].off + p.offset,
           hi |-> rel.heads[i].off + p.offset + Section(p.key).size] :
            p \in ToSet(rel.outs[i].parts)} : i \in {i \in DOMAIN rel.outs : rel.outs[i].type # "NOBITS"}}
  \cup {[of |-> <<i>>, lo |-> rel.heads[i].off, hi |-> rel.heads[i].off + rel.heads[i].size] :
          i \in Len(rel.outs) + 1 .. Len(rel.heads)}

(* The merged object can take the place of its inputs: every relocation    *)
(* is there once, at its place, with its addend, and its symbol designates *)
(* what it designated; a later link finds for every global name the same   *)
(* kind and binding; locals come before globals; headers point to the      *)
(* section they are for; every contribution is aligned and has its own     *)
(* bytes of the file (relocatable.rs: "keeping relocations valid across    *)
(* the merge").                                                            *)
MergedSound ==
  pc = "merged" /\ Regular =>
    /\ RelocationsKept
    /\ \A k \in DOMAIN Reread : Agree(Reread[k], rel.table.res[Reread[k].name])
    /\ {Reread[k].name : k \in DOMAIN Reread} = {n \in Names : rel.table.res[n] # None}
    /\ \A k \in DOMAIN rel.syms : (rel.syms[k].bind = "Local") <=> k < rel.first_global
    /\ \A k \in DOMAIN rel.heads : rel.heads[k].type = "RELA" =>
         /\ rel.heads[rel.heads[k].link].type = "SYMTAB"
         /\ rel.heads[k].info \in DOMAIN rel.outs
    /\ \A q, r \in Ranges : q = r \/ q.lo = q.hi \/ r.lo = r.hi \/ q.hi <= r.lo \/ r.hi <= q.lo
    /\ \A r \in Ranges : r.lo >= EHDR /\ r.hi <= rel.shoff
    /\ \A p \in ToSet(rel.placement) : p[3] % Max({Section(p[1]).align, 1}) = 0
=============================================================================
