----------------------------- MODULE LinkOutput -----------------------------
(***************************************************************************)
(* What the driver makes of resolved inputs: with -r one object            *)
(* (Relocatable), or a hand-off to the system's linker, otherwise an image *)
(* (Layout, then EmitImage).                                               *)
(***************************************************************************)
EXTENDS EmitImage

CONSTANT SymbolNames     \* global names of the -r links

VARIABLE rel             \* the object of an -r link

R == INSTANCE Relocatable WITH Names <- SymbolNames, None <- NoName, TextSize <- StrSize

LinkInit == EmitInit /\ rel = R!Nothing

(* run_link after parsing and resolution.                                  *)
LinkImage == EmitImageNext /\ UNCHANGED rel
LinkRelocatable ==
  /\ R!EmitRelocatable
  /\ UNCHANGED <<at, builders, bucket, sections, addresses, seg, lay, image>>
Ended == pc \in {"done", "error", "merged", "handoff"} /\ UNCHANGED <<allvars, rel>>

LinkNext == LinkImage \/ LinkRelocatable \/ Ended
LinkSpec == LinkInit /\ [][LinkNext]_<<allvars, rel>>
-----------------------------------------------------------------------------
(* An -r link gives an object that can take the place of its inputs.       *)
MergedObjectSound == R!MergedSound
=============================================================================
