----------------------------- MODULE WorkItems -----------------------------
(***************************************************************************)
(* The work items of one emission (collect_input_work_items): the input    *)
(* sections that are copied, where each goes in the output, and what their *)
(* relocations touch.  A section of the minimal or partial emission is     *)
(* left out of the list, the rest is the same.                             *)
(*                                                                         *)
(* work is a record of functions over the items 1..n:                      *)
(*   buf_len, off, len   length of the output, and each item's file range  *)
(*   relocs   relocs[i][k]: type, offset in the section, and effect of     *)
(*            apply_reloc: "patch", "skip" or "fail"                       *)
(***************************************************************************)
EXTENDS Integers, Sequences

CONSTANT UsizeMax    \* usize::MAX

VARIABLE work        \* the work items, never changes

Items == 1..work.n
End(i) == work.off[i] + work.len[i]
Cells(i) == work.off[i] .. End(i) - 1

(* relocation_footprint: the bytes before the relocated place that are     *)
(* rewritten with it, and how many in all.                                 *)
Wide == {"R64", "PC64", "GOTOFF64", "SIZE64", "TPOFF64", "DTPOFF64"}
Word == {"R32", "R32S", "PC32", "SIZE32", "PLT32", "GOTPCREL", "GOTPCRELX",
         "REX_GOTPCRELX", "GOT32", "GOTPC32", "TPOFF32", "DTPOFF32", "GOTTPOFF"}
Traced == Wide \cup Word \cup {"R16", "PC16", "R8", "PC8", "TLSGD", "TLSLD",
                               "GOTPC32_TLSDESC", "TLSDESC_CALL"}

Prefix(t) == CASE t = "TLSGD" -> 4
               [] t \in {"TLSLD", "GOTPC32_TLSDESC"} -> 3
               [] OTHER -> 0

Width(t) == CASE t \in Wide -> 8
              [] t \in Word -> 4
              [] t \in {"R16", "PC16", "TLSDESC_CALL"} -> 2
              [] t \in {"R8", "PC8"} -> 1
              [] t = "TLSGD" -> 16
              [] t = "TLSLD" -> 12
              [] t = "GOTPC32_TLSDESC" -> 7
              [] OTHER -> 0

Start(r) == r.offset - Prefix(r.type)

(* validate_item_containment for one relocation.                           *)
Contained(i, r) ==
  r.type \in Traced => Start(r) >= 0 /\ Start(r) + Width(r.type) <= work.len[i]

(* The bytes of the output that relocation k of item i patches.            *)
Patches(i, k) ==
  LET r == work.relocs[i][k]
  IN  IF r.type \in Traced /\ r.effect = "patch"
      THEN work.off[i] + Start(r) .. work.off[i] + Start(r) + Width(r.type) - 1
      ELSE {}

(* Which of the first k relocations of item i gave byte c its value; 0 is  *)
(* the copied byte.                                                        *)
LastPatch(i, k, c) ==
  LET P == {j \in 1..k : c \in Patches(i, j)}
  IN  IF P = {} THEN 0 ELSE CHOOSE j \in P : \A m \in P : m <= j

Relocated(i, c) == <<i, LastPatch(i, Len(work.relocs[i]), c)>>

Fits(i) == End(i) <= UsizeMax /\ End(i) <= work.buf_len
Sound(i) ==
  work.len[i] > 0 =>
    /\ Fits(i)
    /\ \A k \in DOMAIN work.relocs[i] :
         Contained(i, work.relocs[i][k]) /\ work.relocs[i][k].effect # "fail"
Clash(i, j) == i # j /\ Cells(i) \cap Cells(j) # {}
Defective == \E i \in Items : ~Sound(i) \/ \E j \in Items : Clash(i, j)
=============================================================================
