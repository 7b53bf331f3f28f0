--------------------------- MODULE SectionSelect ---------------------------
(***************************************************************************)
(* Which sections a link emits and where references to the others go: the  *)
(* mark of GcMark, compute_live's KEEP sections and COMDAT copies          *)
(* (main.rs), the fold map of --icf, and the placing of sections with the  *)
(* aliasing of folded ones (compute_layout_icf).  The address of a section *)
(* is the key of the copy that is emitted at it.                           *)
(***************************************************************************)
EXTENDS GcMark

VARIABLES
  folds,     \* the fold map: folded sections and the copies they go to
  placed,    \* sections that contribute bytes
  address    \* Layout::addresses

vars == <<markvars, folds, placed, address>>

Empty == [k \in {} |-> None]

Init == MarkInit /\ folds = Empty /\ placed = {} /\ address = Empty

Mark == MarkNext /\ UNCHANGED <<folds, placed, address>>

(* compute_live: without --gc-sections everything but dropped COMDAT       *)
(* copies, else what was marked and what the script keeps, without them.   *)
(* What a kept section refers to is not marked.                            *)
ComputeLive ==
  /\ \/ phase = "seed" /\ ~prog.gc /\ live' = Sections(prog) \ prog.excluded
     \/ /\ phase = "marked"
        /\ live' = (live \cup {k \in Sections(prog) : prog.sec[k].alloc /\ prog.sec[k].keep})
                     \ prog.excluded
  /\ phase' = "live"
  /\ UNCHANGED <<prog, frontier, pl, worker, idle_count, candidates, scans, folds, placed,
                 address>>

(* compute_fold_map, over all sections of all objects.                     *)
FoldSections ==
  /\ phase = "live"
  /\ folds' = IF prog.icf THEN ComputeFoldMap(prog) ELSE Empty
  /\ phase' = "folded"
  /\ UNCHANGED <<prog, live, frontier, pl, worker, idle_count, candidates, scans, placed,
                 address>>

(* The sections that contribute bytes, in compute_layout_icf.              *)
Contributes(k) ==
  /\ prog.sec[k].alloc
  /\ prog.sec[k].empty => Anchored(prog, k)
  /\ k \in live
  /\ k \notin DOMAIN folds

(* A folded section has the address of its canonical copy, if that has one.*)
PlaceSections ==
  /\ phase = "folded"
  /\ placed' = {k \in Sections(prog) : Contributes(k)}
  /\ LET aliased == {k \in DOMAIN folds : folds[k] \in placed'}
     IN address' = [k \in placed' \cup aliased |-> IF k \in aliased THEN folds[k] ELSE k]
  /\ phase' = "placed"
  /\ UNCHANGED <<prog, live, frontier, pl, worker, idle_count, candidates, scans, folds>>

Next ==
  \/ Mark \/ ComputeLive \/ FoldSections \/ PlaceSections
  \/ phase = "placed" /\ UNCHANGED vars

Spec == Init /\ [][Next]_vars

(* The operating system runs the main thread and every worker.             *)
FairSpec ==
  /\ Spec
  /\ WF_vars(ComputeLive \/ FoldSections \/ PlaceSections)
  /\ WF_vars(MainStep /\ UNCHANGED <<folds, placed, address>>)
  /\ \A t \in Threads : WF_vars(WorkerStep(t) /\ UNCHANGED <<folds, placed, address>>)
-----------------------------------------------------------------------------
(* Where a relocation of an emitted section points after the passes.       *)
Placed(t) == t \in DOMAIN address

References == {x \in placed \X Relocs(prog) : x[2] \in prog.sec[x[1]].relocs}

(* No KEEP pattern, and folding sees no section that is then not emitted.  *)
Conditions ==
  /\ \A k \in Sections(prog) : ~prog.sec[k].keep
  /\ prog.icf => ~prog.gc /\ prog.excluded = {}

(* apply_reloc drops a relocation whose section has no address because     *)
(* that "was GC'd or COMDAT-discarded": of an emitted section that happens *)
(* only to references into dropped COMDAT copies and what is not loaded.   *)
ReferencesPlaced ==
  phase = "placed" /\ Conditions =>
    \A x \in References :
      LET t == Target(prog, x[2].sym)
      IN t \in Sections(prog) /\ prog.sec[t].alloc => Placed(t) \/ t \in prog.excluded

(* Two copies do the same: their bytes are equal, and what they refer to   *)
(* at one offset is one place.                                             *)
SameMeaning(j, k) ==
  /\ prog.sec[j].body = prog.sec[k].body
  /\ \A r \in prog.sec[j].relocs : \E s \in prog.sec[k].relocs :
       /\ [r EXCEPT !.sym = None] = [s EXCEPT !.sym = None]
       /\ LET t == Target(prog, r.sym)
              u == Target(prog, s.sym)
          IN t = u \/ (Placed(t) /\ Placed(u) /\ address[t] = address[u])

(* The header of icf.rs: folding is "with no chance of an unsound merge".  *)
NoUnsoundMerge ==
  phase = "placed" => \A k \in DOMAIN folds : SameMeaning(k, folds[k])

(* It is so where code refers to global symbols, whose names mean the same *)
(* in every object.                                                        *)
GlobalReferences ==
  \A k \in Sections(prog) : \A r \in prog.sec[k].relocs :
    prog.sec[k].text /\ r.sym # None => r.sym.binding # "Local"

MergesAreSound == GlobalReferences => NoUnsoundMerge

(* address_safe of icf.rs: functions whose addresses the program takes     *)
(* keep different addresses, also those it takes through section symbols   *)
(* or from another object, so comparing function pointers gives what it    *)
(* gave before.                                                            *)
FunctionPointersDistinct ==
  phase = "placed" =>
    \A x, y \in References :
      LET t == Target(prog, x[2].sym)
          u == Target(prog, y[2].sym)
      IN ~x[2].call /\ ~y[2].call /\ t # u /\ Placed(t) /\ Placed(u)
           => address[t] # address[u]

(* Folding cannot be observed: neither by what a copy does nor by the      *)
(* address it has.                                                         *)
FoldingSound == MergesAreSound /\ FunctionPointersDistinct

(* The idle count lets every worker go, so the passes end.                 *)
SelectionEnds == <>(phase = "placed")
=============================================================================
