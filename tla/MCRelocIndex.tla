---------------------------- MODULE MCRelocIndex ----------------------------
(***************************************************************************)
(* Small instances of RelocIndex: two lists, three relocations that fit,   *)
(* two of them under one symbol so that their exchanges collide, one under *)
(* a symbol out of range and one beyond the end of nexts.                  *)
(***************************************************************************)
EXTENDS RelocIndex, TLC

MCSymbolIds == 0..2
MCSymbols == 0..1
MCRelocIds == 0..4
MCRelocs == 0..3
MCSymOf == (0 :> 0) @@ (1 :> 0) @@ (2 :> 1) @@ (3 :> 2) @@ (4 :> 0)
=============================================================================
