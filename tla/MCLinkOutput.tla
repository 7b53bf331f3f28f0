---------------------------- MODULE MCLinkOutput ----------------------------
EXTENDS LinkOutput

MCPageSize == 256
MCStrSize == 8

(* Names in byte order.                                                    *)
Sorted ==
  <<".bss", ".comment", ".data", ".data.rel.ro", ".dynamic", ".dynstr", ".dynsym", ".eh_frame",
    ".eh_frame_hdr", ".fast", ".fini", ".fini_array", ".gnu.hash", ".gnu.version",
    ".gnu.version_r", ".got", ".got.plt", ".hash", ".init", ".init_array", ".interp",
    ".noinit", ".note.gnu.build-id", ".note.gnu.property", ".plt", ".rela.dyn", ".rela.plt",
    ".rodata", ".tbss", ".tdata", ".text", ".tm_clone_table", "myset">>
MCNameRank == [n \in ToSet(Sorted) |-> CHOOSE k \in DOMAIN Sorted : Sorted[k] = n]

(* Two names share a hash, one differs.                                    *)
MCHash(n) == CASE n = "a" -> 3 [] n = "b" -> 5 [] OTHER -> 6

Section(name, flags, nobits, size, align) ==
  [name |-> name, flags |-> flags, nobits |-> nobits, size |-> size, align |-> align,
   anchored |-> TRUE, live |-> TRUE, canon |-> 0, fdes |-> 0, relocs |-> 0]

Start == [Section(<<".text">>, {"A", "X"}, FALSE, 40, 16) EXCEPT !.relocs = 2]
Folded == [Section(<<".text", "f">>, {"A", "X"}, FALSE, 40, 16) EXCEPT !.canon = 1]

(* What compilers give, with what is empty, over-aligned or larger than a  *)
(* page.                                                                   *)
Menu ==
  {Section(<<".text", "hot">>, {"A", "X"}, FALSE, 300, 4), Folded,
   [Section(<<".text", "dead">>, {"A", "X"}, FALSE, 8, 4) EXCEPT !.live = FALSE],
   Section(<<".init">>, {"A", "X"}, FALSE, 5, 4),
   Section(<<".rodata">>, {"A"}, FALSE, 7, 32),
   [Section(<<".eh_frame">>, {"A"}, FALSE, 48, 8) EXCEPT !.fdes = 2],
   [Section(<<".data">>, {"A", "W"}, FALSE, 12, 8) EXCEPT !.relocs = 1],
   Section(<<".data", "big">>, {"A", "W"}, FALSE, 260, 512),
   Section(<<".init_array">>, {"A", "W"}, FALSE, 8, 8),
   Section(<<".bss", "z">>, {"A", "W"}, TRUE, 24, 16),
   Section(<<".tdata">>, {"A", "W", "T"}, FALSE, 4, 4),
   Section(<<".tdata", "w">>, {"A", "W", "T"}, FALSE, 9, 1),
   Section(<<".tbss">>, {"A", "W", "T"}, TRUE, 8, 64),
   Section(<<".tm_clone_table">>, {"A", "W"}, FALSE, 0, 8),
   [Section(<<".data", "e">>, {"A", "W"}, FALSE, 0, 1) EXCEPT !.anchored = FALSE],
   Section(<<"myset">>, {"A", "W"}, FALSE, 8, 0),
   Section(<<".debug_info">>, {}, FALSE, 20, 1),
   Section(<<".comment">>, {}, FALSE, 3, 4)}

NoTls == [gd |-> 0, desc |-> 0, ie |-> 0, ldm |-> FALSE]
NoDyn ==
  [imports |-> << >>, exports |-> << >>, needed |-> << >>, hash_style |-> "both",
   soname |-> FALSE, rpath |-> FALSE, rela |-> 0, relcount |-> FALSE]
Import(n, c, l, v) == [name |-> n, copied |-> c, lib |-> l, ver |-> v]

Static ==
  [relocatable |-> FALSE, base |-> 1024, build_id |-> FALSE, strip |-> TRUE, strip_debug |-> TRUE,
   shared |-> FALSE,
   pie |-> FALSE, emit_relocs |-> FALSE, script |-> << >>, notes |-> << >>, got |-> 0, plt |-> 0,
   tls |-> NoTls, commons |-> << >>, copies |-> << >>, entry |-> 1, dynamic |-> FALSE, dyn |-> NoDyn]

(* A debug build with everything that is not loaded.                       *)
Debug ==
  [Static EXCEPT !.build_id = TRUE, !.strip = FALSE, !.strip_debug = FALSE, !.emit_relocs = TRUE,
     !.notes = <<[FEATURE_1_AND |-> {"IBT", "SHSTK"}], [FEATURE_1_AND |-> {"IBT"}, ISA_1_USED |-> {"V2"}]>>,
     !.got = 1, !.commons = <<[size |-> 3, align |-> 0], [size |-> 8, align |-> 8]>>]

(* A dynamic executable with copies, and one that a script orders.         *)
Dynamic ==
  [Static EXCEPT !.dynamic = TRUE, !.got = 2, !.plt = 1, !.copies = <<5, 40>>, !.strip = FALSE,
     !.dyn = [NoDyn EXCEPT
       !.imports = <<Import("a", TRUE, "libc", "V1"), Import("f", FALSE, "libc", "V2"),
                     Import("b", TRUE, "libm", "V1"), Import("g", FALSE, NoName, NoName)>>,
       !.needed = <<"libc", "libm">>, !.rela = 4, !.rpath = TRUE]]
Scripted ==
  [Dynamic EXCEPT !.plt = 0, !.copies = << >>, !.pie = TRUE, !.base = 0,
     !.script = <<[name |-> ".fast", matches |-> {<<".text", "hot">>}],
                  [name |-> ".rodata", matches |-> {<<".rodata">>}],
                  [name |-> ".dynsym", matches |-> {}]>>,
     !.dyn = [NoDyn EXCEPT !.needed = <<"libc">>, !.rela = 1, !.relcount = TRUE,
                           !.imports = <<Import("f", FALSE, "libc", "V2")>>]]

(* A shared object.                                                        *)
Library ==
  [Static EXCEPT !.dynamic = TRUE, !.shared = TRUE, !.base = 0, !.strip = FALSE, !.entry = 0,
     !.build_id = TRUE, !.got = 1, !.plt = 2, !.tls = [gd |-> 1, desc |-> 1, ie |-> 1, ldm |-> TRUE],
     !.dyn = [NoDyn EXCEPT !.exports = <<"a", "b", "c">>, !.soname = TRUE, !.rela = 3,
                           !.imports = <<Import("f", FALSE, "libc", "V2")>>, !.needed = <<"libc">>]]

(* A local and a global symbol in every section.                           *)
Symbols(n) ==
  [i \in 1..n |-> [bind |-> "local", sec |-> i, value |-> 0]]
  \o [i \in 1..n |-> [bind |-> "global", sec |-> i, value |-> 2]]
  \o <<[bind |-> "global", sec |-> 0, value |-> 7]>>

Program(cfg, secs) ==
  [f \in DOMAIN cfg \cup {"secs", "symbols"} |->
     CASE f = "secs" -> secs [] f = "symbols" -> Symbols(Len(secs)) [] OTHER -> cfg[f]]

(* The same with one tag or table more or less.                            *)
Styles ==
  {[Library EXCEPT !.dyn.hash_style = "gnu"], [Dynamic EXCEPT !.dyn.hash_style = "sysv"],
   [Scripted EXCEPT !.dyn.hash_style = "gnu", !.dyn.soname = TRUE],
   [Static EXCEPT !.entry = 0], [Dynamic EXCEPT !.dyn.rela = 0, !.plt = 0, !.pie = TRUE]}
Odd == Section(<<".data">>, {"A", "W"}, FALSE, 6, 6)
Empty == Section(<<".tdata">>, {"A", "W", "T"}, FALSE, 0, 1)

(* Objects for -r: sections of one name with other alignments, a section   *)
(* without bytes, one that is written anew, section, file and global       *)
(* symbols, and relocations to all of them.                                *)
Input(name, type, size, align, relocs) ==
  [name |-> name, type |-> type, flags |-> {"A"}, size |-> size, align |-> align, relocs |-> relocs]
Sym(name, binding, kind, section, value) ==
  [name |-> name, binding |-> binding, kind |-> kind, type |-> "NOTYPE", section |-> section,
   value |-> value, size |-> 4, align |-> value]
Refer(off, sym) == [off |-> off, sym |-> sym, addend |-> off - 4]
SectionSym(i) == Sym("", "Local", "defined", i, 0)
FileSym == [Sym("f.c", "Local", "defined", 0, 0) EXCEPT !.type = "FILE"]
Mentions(n) ==
  {Sym(n, b, k, s, 4) : b \in {"Global", "Weak"}, k \in {"defined"}, s \in {1, 3}}
  \cup {Sym(n, b, "undefined", NoName, 0) : b \in {"Global", "Weak"}}
  \cup {Sym(n, "Global", "common", NoName, 8), Sym(n, "Global", "defined", NoName, 9)}
Objects1 ==
  {[secs |-> <<Input(".text", "PROGBITS", 21, 16, <<Refer(4, 2), Refer(12, 4)>>),
               Input(".symtab", "SYMTAB", 48, 8, << >>),
               Input(".data", "PROGBITS", 6, 0, <<Refer(0, 3)>>)>>,
    syms |-> <<FileSym, SectionSym(1), Sym("x", "Local", "defined", 3, 2), m,
              Sym("x", "Weak", "undefined", NoName, 0)>>] :
     m \in Mentions("a")}
Objects2 ==
  {[secs |-> <<Input(".bss", "NOBITS", 24, 32, << >>), Input("", "PROGBITS", 3, 1, << >>),
               Input(".text", "PROGBITS", 9, 4, <<Refer(1, 1), Refer(5, 3)>>)>>,
    syms |-> <<SectionSym(1), SectionSym(3), m, Sym("b", "Global", "defined", 3, 8)>>] :
     m \in Mentions("a")}
Clash(x, y) == x.kind = "defined" /\ y.kind = "defined" /\ x.binding = "Global" /\ y.binding = "Global"
Merges ==
  {[relocatable |-> TRUE, objs |-> <<x, y>>, comdat |-> c, defsym |-> d] :
     x \in Objects1, y \in Objects2, c \in {FALSE}, d \in {<< >>, [n \in {"a"} |-> 5], [n \in {"c"} |-> 6]}}
  \cup {[relocatable |-> TRUE, objs |-> <<y, x, y2>>, comdat |-> c, defsym |-> << >>] :
          x \in Objects1, y \in {o \in Objects2 : o.syms[3].binding = "Weak"}, c \in BOOLEAN,
          y2 \in {[o EXCEPT !.syms[4] = Sym("c", "Weak", "defined", 3, 0)] : o \in Objects2}}
Linkable(p) ==
  p.relocatable =>
    \A i, j \in DOMAIN p.objs : i < j =>
      \A x \in ToSet(p.objs[i].syms), y \in ToSet(p.objs[j].syms) : x.name = y.name => ~Clash(x, y)

(* The violation run adds a section without bytes under a name of its own. *)
CONSTANT OwnNames

MCPrograms ==
  {Program(cfg, <<Start, x, y>>) : cfg \in {Static, Debug, Dynamic, Scripted, Library}, x, y \in Menu}
  \cup {Program(cfg, <<Start, x>>) : cfg \in Styles, x \in Menu \cup {Odd, Empty}}
  \cup {Program(cfg, <<Start>>) : cfg \in {Static, Debug, Dynamic, Scripted, Library}}
  \cup {Program(cfg, <<Start, x, y, z>>) : cfg \in {Debug, Library},
          x \in {m \in Menu : m.flags = {"A", "W", "T"}}, y \in {m \in Menu : "T" \in m.flags},
          z \in {m \in Menu : "W" \in m.flags}}
  \cup {p \in Merges : Linkable(p)}
  \cup {Program(Static, <<Start, Section(n, {"A", "W"}, TRUE, 16, 8)>>) : n \in OwnNames}

MCSymbolNames == {"a", "b", "c", "x"}
MCOldFiles == {"none", "other", "same"}
MCNoNames == {}
MCNoinit == {<<".noinit">>}
=============================================================================
