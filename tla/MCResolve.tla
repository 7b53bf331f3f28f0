----------------------------- MODULE MCResolve -----------------------------
EXTENDS Resolve

S(n, b, k, sec) == [name |-> n, binding |-> b, kind |-> k, section |-> sec,
                    size |-> 1, align |-> 1, got |-> FALSE]
Def(n) == S(n, "Global", "defined", 1)
WeakDef(n) == S(n, "Weak", "defined", 1)
Ref(n) == S(n, "Global", "undefined", None)
WeakRef(n) == [S(n, "Weak", "undefined", None) EXCEPT !.got = TRUE]
Com(n, s, a) == [S(n, "Global", "common", None) EXCEPT !.size = s, !.align = a]
InGroup(sym) == [sym EXCEPT !.section = 2]

Obj(syms) == [syms |-> syms, groups |-> <<>>, parses |-> TRUE]
Grouped(syms) == [Obj(syms) EXCEPT !.groups = <<[sig |-> "g", members |-> {2}]>>]
Ar(name, indexed, members) == [name |-> name, indexed |-> indexed, members |-> members]
Lib(name, exports, as_needed) ==
  [soname |-> name, exports |-> exports, as_needed |-> as_needed]

Cmd(bare, archives) ==
  [bare |-> bare, crt |-> {}, forced |-> {}, whole |-> <<>>, startlib |-> <<>>,
   archives |-> archives, libs |-> <<>>, defsyms |-> {}, required |-> {}, enforce |-> TRUE]

MCNames == {"a", "b", "c", "_start", "_end", "__tls_get_addr"}
MCProvided == {"_end"}

(* Three objects in any order that mention one symbol in any way: every    *)
(* sequence of merges of length three, with COMDAT copies among them.      *)
Mentions == {Obj(<<Ref("a")>>), Obj(<<WeakRef("a")>>), Obj(<<WeakDef("a")>>), Obj(<<Def("a")>>),
             Obj(<<Com("a", 4, 1)>>), Obj(<<Com("a", 2, 8)>>),
             Grouped(<<InGroup(Def("a"))>>), Grouped(<<InGroup(WeakDef("a")), Ref("b")>>)}
MergeLinks == {Cmd(<<x, y, z>>, <<>>) : x, y, z \in Mentions}

(* Members that define and need each other's symbols, spread over two      *)
(* archives with and without an index, the first named twice.              *)
Root == Obj(<<Def("_start"), Ref("a")>>)
Pool == {Obj(<<Def("a"), Ref("b")>>), Obj(<<Def("b"), Ref("c")>>),
         Grouped(<<InGroup(Def("b")), Ref("c")>>), Grouped(<<InGroup(Def("a")), InGroup(Def("b"))>>),
         Obj(<<Def("c"), WeakRef("b")>>), Obj(<<WeakDef("b"), Def("c")>>), Obj(<<Com("b", 4, 4)>>)}
ArchiveLinks ==
  {Cmd(<<Root>>, <<Ar("l", i, <<x, y>>), Ar("m", j, <<z>>), Ar("l", i, <<x, y>>)>>)
     : x, y, z \in Pool, i, j \in BOOLEAN}

(* A grouped definition whose copy comes from an archive too late to count, *)
(* and an archive whose matching member cannot be parsed.                  *)
GroupHolder == Grouped(<<Def("_start"), Ref("a"), InGroup(S("c", "Local", "defined", 2))>>)
Unparsable(o) == [o EXCEPT !.parses = FALSE]
OddLinks ==
  {Cmd(<<GroupHolder>>, <<Ar("l", i, <<x, y>>), Ar("m", TRUE, <<z>>)>>)
     : x, y \in {Grouped(<<InGroup(Def("a")), Ref("b")>>), Obj(<<Def("a")>>),
                 Unparsable(Obj(<<Def("a")>>)), Obj(<<Def("b"), Ref("c")>>)},
       z \in {Obj(<<Def("a"), Ref("b")>>), Obj(<<Def("c")>>), Obj(<<Def("b"), Ref("a")>>)},
       i \in BOOLEAN}

(* Everything else a command line can hold.                                *)
Crt == Obj(<<Def("_start"), Ref("a")>>)
OtherLinks ==
  {[bare |-> <<Crt, user>>, crt |-> {1}, forced |-> forced,
    whole |-> whole, startlib |-> lib, archives |-> <<Ar("l", TRUE, <<Obj(<<Def("c"), Ref("_end")>>)>>)>>,
    libs |-> libs, defsyms |-> defsyms, required |-> {"a"}, enforce |-> enforce]
     : user \in {Obj(<<Def("_start"), Ref("b")>>), Obj(<<WeakRef("b"), Ref("_end"), Ref("__tls_get_addr")>>),
                 Obj(<<Def("a"), WeakRef("c")>>)},
       forced \in {{}, {"c"}},
       whole \in {<<>>, <<Obj(<<Def("a")>>), Unparsable(Obj(<<Def("b")>>))>>},
       lib \in {<<>>, <<Obj(<<Def("b"), Ref("c")>>), Obj(<<Def("a"), Ref("b")>>)>>},
       libs \in {<<>>, <<Lib("x", <<"a", "b">>, TRUE), Lib("y", <<"b", "_end">>, TRUE),
                         Lib("z", <<"b">>, FALSE)>>},
       defsyms \in {{}, {"b"}}, enforce \in BOOLEAN}

(* A duplicate before -u takes effect.                                     *)
EarlyLinks == {[Cmd(<<Obj(<<Def("a")>>), Obj(<<x>>)>>, <<>>) EXCEPT !.forced = {"a", "c"}]
                 : x \in {Def("a"), WeakRef("c")}}

MCLinks == MergeLinks \cup ArchiveLinks \cup OddLinks \cup OtherLinks \cup EarlyLinks
=============================================================================
