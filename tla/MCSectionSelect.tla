-------------------------- MODULE MCSectionSelect --------------------------
EXTENDS SectionSelect, TLC

Sym(k, name, binding) ==
  [obj |-> k[1], name |-> name, binding |-> binding, section |-> k,
   exported |-> FALSE, listed |-> FALSE, abi |-> FALSE]
Ext(o, name) == [Sym(<<o, 0>>, name, "Global") EXCEPT !.section = None]
R(off, call, s) == [off |-> off, call |-> call, addend |-> 0, sym |-> s]
Sec(text, body, relocs) ==
  [alloc |-> TRUE, implicit |-> FALSE, keep |-> FALSE, text |-> text,
   empty |-> FALSE, digest |-> body, body |-> body, relocs |-> relocs]

NoTable == [n \in {"_start", "f", "g", "h", "d"} |-> None]
Prog(sec, syms, table) ==
  [sec |-> sec, slots |-> DOMAIN sec,
   syms |-> syms \cup ({r.sym : r \in UNION {sec[k].relocs : k \in DOMAIN sec}} \ {None}),
   table |-> table @@ NoTable,
   entry |-> "_start", exports |-> {}, export_roots |-> FALSE, gc |-> TRUE, icf |-> FALSE,
   threads |-> 1, addrsig |-> {1, 2}, excluded |-> {}]

(* The mark: five sections of one object, with the edges of a shape; the   *)
(* symbols are the section symbols.  Slot 6 has a bit and no section, slot *)
(* 9 has neither.                                                          *)
Local(i) == Sym(<<1, i>>, NoName, "Local")
Graph(edges, roots) ==
  [Prog([k \in {1} \X (1..5) |->
           [Sec(FALSE, "b", {R(j, j % 2 = 0, Local(j)) : j \in edges[k[2]]})
              EXCEPT !.implicit = k[2] \in roots]],
        {}, "_start" :> <<1, 1>>)
   EXCEPT !.slots = {1} \X (1..6), !.threads = MaxThreads]

Shapes == {<< {2, 3, 4}, {5}, {5}, {1}, {6, 9} >>,   \* star, diamond, cycle, ghosts
           << {2}, {3, 4}, {2}, {4}, {1} >>,         \* chain, back edges, unreachable
           << {2, 3}, {4}, {5}, {2}, {3, 4} >>}      \* two entangled chains
MarkPrograms == {Graph(e, r) : e \in Shapes, r \in {{}, {2, 3}, {4}}}

(* Folding: object 1 has the entry (1), a function (2) and data (3) that   *)
(* may hold pointers; object 2 has a function (2) and data (3) of its own. *)
F(s, reloc) == [Sec(TRUE, "x", reloc) EXCEPT !.body = s, !.digest = "hash"]

FoldProgram(b1, b2, calls, ptrs, rel1, rel2, f, g) ==
  Prog((<<1, 1>> :> Sec(TRUE, "start", calls)) @@ (<<1, 2>> :> F(b1, rel1)) @@
       (<<1, 3>> :> [Sec(FALSE, "d1", ptrs[1]) EXCEPT !.implicit = TRUE]) @@
       (<<2, 2>> :> F(b2, rel2)) @@ (<<2, 3>> :> Sec(FALSE, "d2", ptrs[2])),
       {f, g, Sym(<<2, 3>>, "d", "Global")}, ("_start" :> <<1, 1>>) @@ ("f" :> <<1, 2>>) @@ ("g" :> <<2, 2>>)
                @@ ("d" :> <<2, 3>>))

(* How the data of the two objects may take the address of both functions. *)
SecSym(k) == Sym(k, NoName, "Local")
Pointers == {<<{}, {}>>,
             <<{R(0, FALSE, Ext(1, "f")), R(8, FALSE, Ext(1, "g"))}, {}>>,
             <<{R(0, FALSE, SecSym(<<1, 2>>)), R(8, FALSE, Ext(1, "d"))},
               {R(0, FALSE, SecSym(<<2, 2>>))}>>}

Kinds(k, name) ==
  LET s == Sym(k, name, "Global") IN
  {s, [s EXCEPT !.exported = TRUE], [s EXCEPT !.binding = "Weak"], [s EXCEPT !.listed = TRUE],
   [s EXCEPT !.abi = TRUE]}

BothCalled == {R(0, TRUE, Ext(1, "f")), R(4, TRUE, Ext(1, "g"))}

FoldPrograms ==
  {[FoldProgram("x", b, BothCalled, ptrs, rel, rel, f, Sym(<<2, 2>>, "g", "Global"))
      EXCEPT !.icf = icf, !.gc = gc, !.addrsig = sig, !.excluded = ex]
     : b \in {"x", "y"}, ptrs \in Pointers,
       rel \in {{}, {R(1, TRUE, Ext(1, "d"))}, {R(1, TRUE, None)}},
       f \in Kinds(<<1, 2>>, "f"), icf \in BOOLEAN, gc \in BOOLEAN,
       sig \in {{1, 2}, {2}}, ex \in {{}, {<<2, 3>>}}}

(* Exports as roots, KEEP patterns, empty and unloaded sections.           *)
OtherPrograms ==
  {[FoldProgram("x", "x", calls, <<{}, {R(0, FALSE, Ext(2, "f"))}>>, {}, {R(1, TRUE, Ext(2, "d"))},
                Sym(<<1, 2>>, "f", "Global"), Sym(<<2, 2>>, "g", "Global"))
      EXCEPT !.export_roots = export, !.exports = {"g"}, !.sec[<<2, 3>>] = [@ EXCEPT
             !.keep = keep, !.empty = empty, !.alloc = alloc], !.gc = gc]
     : calls \in {{}, BothCalled}, export \in BOOLEAN, keep \in BOOLEAN, empty \in BOOLEAN,
       alloc \in BOOLEAN, gc \in BOOLEAN}

PassingPrograms == MarkPrograms \cup FoldPrograms \cup OtherPrograms
=============================================================================
