------------------------------ MODULE MCRelink ------------------------------
EXTENDS Relink, TLC

(* A content: two sections, section 1 holds code and the exported symbol.  *)
Obj(s1, s2, body, off, refs2, lrefs2, simple) ==
  [size |-> <<s1, s2>>, body |-> <<body, body>>, off |-> off,
   refs |-> << {}, refs2 >>, lrefs |-> << {}, lrefs2 >>, simple |-> simple]

(* Input 1 defines the symbol input 2 refers to from section 2.            *)
Main == {Obj(2, 0, "a", 0, {}, {}, TRUE),     \* first version
         Obj(2, 0, "b", 0, {}, {}, TRUE),     \* a body edit of the same size
         Obj(2, 0, "b", 1, {}, {}, TRUE),     \* its symbol moves
         Obj(3, 0, "b", 0, {}, {}, TRUE),     \* it grows
         Obj(2, 0, "a", 0, {}, {}, FALSE),    \* relocations the cached symbol
         Obj(2, 0, "b", 0, {}, {}, FALSE)}    \* view cannot apply
User == {Obj(1, 1, "c", 0, {1}, {}, FALSE),
         Obj(1, 1, "d", 0, {1}, {}, FALSE)}

MCVersions == <<Main, User>>
MCFirst == <<Obj(2, 0, "a", 0, {}, {}, TRUE), Obj(1, 1, "c", 0, {1}, {}, FALSE)>>
=============================================================================
