------------------------------ MODULE EmitWork ------------------------------
(***************************************************************************)
(* copy_input_sections (peony-emit/src/input_sections.rs): the ranges of   *)
(* the work items are checked one by one, sorted and checked for overlap,  *)
(* and then threads copy the sections into the mapped output and relocate  *)
(* them there, without a lock.  Batches of items are handed out by         *)
(* ws_deque, of which only this is used: every batch is run once, by some  *)
(* thread, and run() returns when all are through.                         *)
(***************************************************************************)
EXTENDS WorkItems, FiniteSets

CONSTANTS
  Workers,              \* the threads of the pool
  WorkLists,            \* the lists of work items considered
  BATCH_SIZE,           \* 256
  PARALLEL_THRESHOLD    \* 2048

ASSUME SizesAssumption ==
  /\ UsizeMax \in Nat
  /\ BATCH_SIZE \in Nat \ {0}
  /\ PARALLEL_THRESHOLD \in Nat

Effects == {"patch", "skip", "fail"}

ASSUME WorkListsAssumption ==
  \A w \in WorkLists :
    /\ w.n \in Nat /\ w.buf_len \in Nat
    /\ w.off \in [1..w.n -> Nat] /\ w.len \in [1..w.n -> Nat]
    /\ DOMAIN w.relocs = 1..w.n
    /\ \A i \in 1..w.n :
         /\ Len(w.relocs[i]) \in Nat /\ DOMAIN w.relocs[i] = 1..Len(w.relocs[i])
         /\ \A k \in DOMAIN w.relocs[i] :
              w.relocs[i][k].offset \in Nat /\ w.relocs[i][k].effect \in Effects

VARIABLES
  pc,         \* "ranges", "overlaps", "dispatch" or "done"
  at,         \* the item whose range is checked next
  accepted,   \* item_ranges: the items that have a range
  seen,       \* the ranges the overlap loop went past
  previous,   \* the last of them, 0 before the first
  pool,       \* the batches no thread has taken
  job,        \* job[t]: batch of thread t, item in it, next relocation
  buf,        \* the mapped output
  copied,     \* totals.sections: items whose bytes were copied
  finished,   \* items process_item returned Ok for
  error_slot, \* the first relocation error, 0 without one
  result      \* what copy_input_sections returns

checking == <<at, accepted, seen, previous>>
writing == <<pool, job, buf, copied, finished, error_slot>>
vars == <<work, pc, checking, writing, result>>

NoJob == [item |-> 0, last |-> 0, step |-> 0]

Init ==
  /\ work \in WorkLists
  /\ pc = "ranges" /\ at = 1 /\ accepted = {} /\ seen = {} /\ previous = 0
  /\ pool = {} /\ job = [t \in Workers |-> NoJob]
  /\ buf = [c \in 0 .. work.buf_len - 1 |-> <<0, 0>>]
  /\ copied = {} /\ finished = {} /\ error_slot = 0
  /\ result = "pending"
-----------------------------------------------------------------------------
(* WorkRange::from_parts and validate_item_containment.                    *)
RangeOk(i) ==
  Fits(i) /\ \A k \in DOMAIN work.relocs[i] : Contained(i, work.relocs[i][k])

FromParts ==
  /\ pc = "ranges" /\ at \in Items
  /\ work.len[at] = 0 \/ RangeOk(at)
  /\ at' = at + 1
  /\ accepted' = IF work.len[at] = 0 THEN accepted ELSE accepted \cup {at}
  /\ UNCHANGED <<work, pc, seen, previous, writing, result>>

RejectRange ==
  /\ pc = "ranges" /\ at \in Items
  /\ work.len[at] > 0 /\ ~RangeOk(at)
  /\ pc' = "done" /\ result' = "error"
  /\ UNCHANGED <<work, checking, writing>>

SortRanges ==
  /\ pc = "ranges" /\ at \notin Items
  /\ pc' = "overlaps"
  /\ UNCHANGED <<work, checking, writing, result>>

(* validate_work_ranges: the sort key is (start, end, item_index).         *)
Before(i, j) ==
  \/ work.off[i] < work.off[j]
  \/ work.off[i] = work.off[j] /\ End(i) < End(j)
  \/ work.off[i] = work.off[j] /\ End(i) = End(j) /\ i < j
IsNext(i) ==
  i \in accepted \ seen /\ \A j \in accepted \ seen : j # i => Before(i, j)

(* Bug: ranges that begin together are let through.                        *)
OverlapsStrict(i) == previous # 0 /\ work.off[i] < End(previous) /\ work.off[i] > work.off[previous]
Overlaps(i) == previous # 0 /\ work.off[i] < End(previous)

CheckRange(i) ==
  /\ pc = "overlaps" /\ IsNext(i) /\ ~Overlaps(i)
  /\ seen' = seen \cup {i}
  /\ previous' = i
  /\ UNCHANGED <<work, pc, at, accepted, writing, result>>

RejectOverlap(i) ==
  /\ pc = "overlaps" /\ IsNext(i) /\ Overlaps(i)
  /\ pc' = "done" /\ result' = "error"
  /\ UNCHANGED <<work, checking, writing>>

(* Bug: the last batch is dropped when it is not full.                     *)
BatchesWhole ==
  IF work.n < PARALLEL_THRESHOLD
  THEN {[first |-> 1, last |-> work.n]}
  ELSE {[first |-> b * BATCH_SIZE + 1, last |-> (b + 1) * BATCH_SIZE] :
          b \in {b \in 0 .. work.n : (b + 1) * BATCH_SIZE <= work.n}}

(* dispatch_parallel: below the threshold the caller's thread runs the     *)
(* whole list, which is one batch.                                         *)
Batches ==
  IF work.n < PARALLEL_THRESHOLD
  THEN {[first |-> 1, last |-> work.n]}
  ELSE {[first |-> b * BATCH_SIZE + 1,
         last |-> IF (b + 1) * BATCH_SIZE < work.n THEN (b + 1) * BATCH_SIZE ELSE work.n] :
           b \in {b \in 0 .. work.n : b * BATCH_SIZE < work.n}}

Dispatch ==
  /\ pc = "overlaps" /\ seen = accepted
  /\ pc' = "dispatch"
  /\ pool' = Batches
  /\ UNCHANGED <<work, checking, job, buf, copied, finished, error_slot, result>>
-----------------------------------------------------------------------------
(* The threads.                                                            *)
Busy(t) == pc = "dispatch" /\ job[t] # NoJob
Item(t) == job[t].item
InItem(t) == Busy(t) /\ Item(t) <= job[t].last /\ Item(t) \in accepted
Relocs(t) == work.relocs[Item(t)]

TakeBatch(t) ==
  /\ pc = "dispatch" /\ job[t] = NoJob
  /\ \E b \in pool :
       /\ pool' = pool \ {b}
       /\ job' = [job EXCEPT ![t] = [item |-> b.first, last |-> b.last, step |-> 0]]
  /\ UNCHANGED <<work, pc, checking, buf, copied, finished, error_slot, result>>

(* Bug: an item without a range is looked at again.                        *)
PassItemAgain(t) ==
  Busy(t) /\ Item(t) <= job[t].last /\ Item(t) \notin accepted /\ UNCHANGED vars

(* range_for_item has nothing for this item.                               *)
PassItem(t) ==
  /\ Busy(t) /\ Item(t) <= job[t].last /\ Item(t) \notin accepted
  /\ job' = [job EXCEPT ![t].item = @ + 1]
  /\ UNCHANGED <<work, pc, checking, pool, buf, copied, finished, error_slot, result>>

(* process_item: copy_from_slice.  Its own test of the range repeats       *)
(* FromParts and cannot fail here (NoSharedByte).                          *)
CopySection(t) ==
  /\ InItem(t) /\ job[t].step = 0
  /\ buf' = [c \in DOMAIN buf |-> IF c \in Cells(Item(t)) THEN <<Item(t), 0>> ELSE buf[c]]
  /\ copied' = copied \cup {Item(t)}
  /\ job' = [job EXCEPT ![t].step = 1]
  /\ UNCHANGED <<work, pc, checking, pool, finished, error_slot, result>>

(* process_item: apply_reloc.                                              *)
ApplyReloc(t) ==
  LET k == job[t].step IN
  /\ InItem(t) /\ k \in DOMAIN Relocs(t) /\ Relocs(t)[k].effect # "fail"
  /\ buf' = [c \in DOMAIN buf |-> IF c \in Patches(Item(t), k) THEN <<Item(t), k>> ELSE buf[c]]
  /\ job' = [job EXCEPT ![t].step = @ + 1]
  /\ UNCHANGED <<work, pc, checking, pool, copied, finished, error_slot, result>>

(* process_item returns Ok.                                                *)
FinishItem(t) ==
  /\ InItem(t) /\ job[t].step > Len(Relocs(t))
  /\ finished' = finished \cup {Item(t)}
  /\ job' = [job EXCEPT ![t].item = @ + 1, ![t].step = 0]
  /\ UNCHANGED <<work, pc, checking, pool, buf, copied, error_slot, result>>

(* Bug: the error of a batch is not kept.                                  *)
FailItemSilent(t) ==
  LET k == job[t].step IN
  /\ InItem(t) /\ k \in DOMAIN Relocs(t) /\ Relocs(t)[k].effect = "fail"
  /\ job' = [job EXCEPT ![t] = NoJob]
  /\ UNCHANGED <<work, pc, checking, pool, buf, copied, finished, error_slot, result>>

(* process_item returns an error: record_error, and the batch is left.     *)
FailItem(t) ==
  LET k == job[t].step IN
  /\ InItem(t) /\ k \in DOMAIN Relocs(t) /\ Relocs(t)[k].effect = "fail"
  /\ error_slot' = IF error_slot = 0 THEN Item(t) ELSE error_slot
  /\ job' = [job EXCEPT ![t] = NoJob]
  /\ UNCHANGED <<work, pc, checking, pool, buf, copied, finished, result>>

EndBatch(t) ==
  /\ Busy(t) /\ Item(t) > job[t].last
  /\ job' = [job EXCEPT ![t] = NoJob]
  /\ UNCHANGED <<work, pc, checking, pool, buf, copied, finished, error_slot, result>>

Return ==
  /\ pc = "dispatch" /\ pool = {} /\ \A t \in Workers : job[t] = NoJob
  /\ pc' = "done"
  /\ result' = IF error_slot = 0 THEN "ok" ELSE "error"
  /\ UNCHANGED <<work, checking, writing>>

Worker(t) ==
  \/ TakeBatch(t) \/ PassItem(t) \/ CopySection(t) \/ ApplyReloc(t)
  \/ FinishItem(t) \/ FailItem(t) \/ EndBatch(t)

Check ==
  \/ FromParts \/ RejectRange \/ SortRanges \/ Dispatch
  \/ \E i \in Items : CheckRange(i) \/ RejectOverlap(i)

Done == pc = "done" /\ UNCHANGED vars

Next == Check \/ Return \/ Done \/ \E t \in Workers : Worker(t)

Fairness == WF_vars(Check) /\ WF_vars(Return) /\ \A t \in Workers : WF_vars(Worker(t))
Spec == Init /\ [][Next]_vars
FairSpec == Spec /\ Fairness
-----------------------------------------------------------------------------
TypeOK ==
  /\ work \in WorkLists
  /\ pc \in {"ranges", "overlaps", "dispatch", "done"}
  /\ at \in Nat \ {0} /\ accepted \subseteq Items /\ seen \subseteq accepted
  /\ previous \in accepted \cup {0}
  /\ job \in [Workers -> [item : Nat, last : Nat, step : Nat]]
  /\ DOMAIN buf = 0 .. work.buf_len - 1
  /\ copied \subseteq Items /\ finished \subseteq copied
  /\ error_slot \in Items \cup {0}
  /\ result \in {"pending", "ok", "error"}

(* The threads never write the same byte: while two of them are in their   *)
(* items, the ranges of the items have no byte in common, and each stays   *)
(* inside the buffer ("SAFETY: layout assigns every input contribution a   *)
(* unique, non-overlapping file range", input_sections.rs).                *)
NoSharedByte ==
  \A t \in Workers : InItem(t) =>
    /\ Cells(Item(t)) \subseteq DOMAIN buf
    /\ \A k \in DOMAIN Relocs(t) : Patches(Item(t), k) \subseteq Cells(Item(t))
    /\ \A u \in Workers \ {t} : InItem(u) => Cells(Item(t)) \cap Cells(Item(u)) = {}

(* The output as if every item that is being worked on, or was given up,   *)
(* had not been begun.                                                     *)
Image == [c \in DOMAIN buf |->
  IF \E i \in copied \ finished : c \in Cells(i) THEN <<0, 0>> ELSE buf[c]]

Atomic == INSTANCE SectionWrites WITH
  work <- work, image <- Image, written <- finished, outcome <- result

(* The threads together do what writing the sections one at a time, each   *)
(* at once, would do; copy_input_sections returns Ok exactly when every    *)
(* section is there, and an error exactly when an item is defective.       *)
WritesAtomically == Atomic!Spec

(* copy_input_sections returns.                                            *)
EmissionReturns == <>(pc = "done")
=============================================================================
