--------------------------- MODULE SectionWrites ---------------------------
(***************************************************************************)
(* What the copying of input sections promises (write_section_data: "all   *)
(* input sections write to disjoint file ranges"): each section appears in *)
(* the output at once, copied and relocated, in any order, and nothing     *)
(* else of the output changes.  EmitWork implements it with threads that   *)
(* copy and patch the shared buffer piece by piece.                        *)
(***************************************************************************)
EXTENDS WorkItems

VARIABLES
  image,     \* image[c]: what byte c of the output holds
  written,   \* the items that are in the output
  outcome    \* "pending", "ok" or "error"

vars == <<work, image, written, outcome>>

-----------------------------------------------------------------------------
Init ==
  /\ image = [c \in 0 .. work.buf_len - 1 |-> <<0, 0>>]
  /\ written = {}
  /\ outcome = "pending"

WriteSection(i) ==
  /\ outcome = "pending"
  /\ i \notin written /\ work.len[i] > 0 /\ Sound(i)
  /\ image' = [c \in DOMAIN image |-> IF c \in Cells(i) THEN Relocated(i, c) ELSE image[c]]
  /\ written' = written \cup {i}
  /\ UNCHANGED <<work, outcome>>

Accept ==
  /\ outcome = "pending" /\ ~Defective
  /\ written = {i \in Items : work.len[i] > 0}
  /\ outcome' = "ok"
  /\ UNCHANGED <<work, image, written>>

Refuse ==
  /\ outcome = "pending" /\ Defective
  /\ outcome' = "error"
  /\ UNCHANGED <<work, image, written>>

Next == (\E i \in Items : WriteSection(i)) \/ Accept \/ Refuse
Spec == Init /\ [][Next]_vars
=============================================================================
