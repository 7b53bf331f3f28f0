----------------------------- MODULE MCEmitWork -----------------------------
EXTENDS EmitWork

Reloc(t, o, e) == [type |-> t, offset |-> o, effect |-> e]
MCBufLen == 4
MCUsizeMax == 5

(* One byte at a time and two, inside, across and before the section.      *)
MCRelocs ==
  {<< >>,
   <<Reloc("R8", 0, "patch"), Reloc("R16", 0, "patch")>>,
   <<Reloc("PC16", 0, "skip"), Reloc("PC8", 1, "patch")>>,
   <<Reloc("NONE", 0, "skip"), Reloc("R8", 0, "fail")>>,
   <<Reloc("GOTPC32_TLSDESC", 0, "patch")>>}

Lists(n, off, len, relocs) ==
  [n : {n}, buf_len : {MCBufLen}, off : [1..n -> off], len : [1..n -> len],
   relocs : [1..n -> relocs]]

(* Two items with everything that can go wrong in them; three, which fill  *)
(* two batches, with overlaps and one failure or none.                     *)
MCWorkLists ==
  Lists(0, {}, {}, {}) \cup Lists(1, {0, 3, 5}, 0..2, MCRelocs)
  \cup Lists(2, 0..3, 0..2, MCRelocs)
  \cup Lists(3, 0..2, 0..1, {<< >>, <<Reloc("R8", 0, "fail")>>})
  \cup Lists(3, {0, 1, 2}, {1, 2}, {<<Reloc("R8", 0, "patch")>>, <<Reloc("R8", 0, "fail")>>})
=============================================================================
