----------------------------- MODULE RelocLists -----------------------------
(***************************************************************************)
(* What the relocation reverse index promises: one list of relocations per *)
(* symbol, an insertion puts one relocation that is in no list yet at the  *)
(* front of one list, in a single step, and nothing is ever taken out.     *)
(* RelocIndex implements this with two arrays of atomics.                  *)
(***************************************************************************)
EXTENDS Naturals, Sequences

CONSTANTS Symbols,   \* the symbols that have a list
          Relocs     \* the relocations the index has room for

VARIABLE lists       \* lists[s]: the relocations of s, newest first

ListedIn(s) == {lists[s][i] : i \in 1..Len(lists[s])}

Init == lists = [s \in Symbols |-> << >>]

Insert(s, r) ==
  /\ \A t \in Symbols : r \notin ListedIn(t)
  /\ lists' = [lists EXCEPT ![s] = <<r>> \o @]

Next == \E s \in Symbols, r \in Relocs : Insert(s, r)

Spec == Init /\ [][Next]_lists
=============================================================================
