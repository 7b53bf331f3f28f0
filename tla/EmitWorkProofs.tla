--------------------------- MODULE EmitWorkProofs ---------------------------
(***************************************************************************)
(* Proofs about EmitWork, for any list of work items, any number of        *)
(* threads and any batch size: the range checks and the batches keep the   *)
(* threads off each other's bytes, and what the threads do together is     *)
(* what SectionWrites promises.                                            *)
(***************************************************************************)
EXTENDS EmitWork, TLAPS

Batch == [first : Nat \ {0}, last : Nat]
Job == [item : Nat, last : Nat, step : Nat]

Types ==
  /\ work \in WorkLists
  /\ at \in Nat /\ accepted \subseteq Items /\ seen \subseteq accepted
  /\ previous \in seen \cup {0}
  /\ pool \subseteq Batch /\ job \in [Workers -> Job]
  /\ DOMAIN buf = 0 .. work.buf_len - 1

(* What passed the first check is not empty and in the buffer.             *)
AcceptedFit == \A i \in accepted : work.len[i] > 0 /\ RangeOk(i)

Apart(i, j) == End(i) <= work.off[j] \/ End(j) <= work.off[i]

(* The overlap loop has gone past ranges that lie apart, and none of them  *)
(* ends behind the last one.                                               *)
SeenApart ==
  /\ \A i \in seen : previous # 0 /\ End(i) <= End(previous)
  /\ \A i, j \in seen : i # j => Apart(i, j)

(* The threads start when every range was gone past.                       *)
DispatchSeen ==
  /\ pc = "dispatch" => seen = accepted
  /\ pc \in {"ranges", "overlaps"} => pool = {} /\ \A t \in Workers : job[t] = NoJob

(* No item is in two batches, or in what is left of two jobs.              *)
PoolSplit == \A b, c \in pool : b # c => b.last < c.first \/ c.last < b.first
JobPool ==
  \A t \in Workers : job[t] # NoJob =>
    \A b \in pool : job[t].last < b.first \/ b.last < job[t].item
JobSplit ==
  \A t, u \in Workers : t # u /\ job[t] # NoJob /\ job[u] # NoJob =>
    job[t].last < job[u].item \/ job[u].last < job[t].item

ItemSplit == PoolSplit /\ JobPool /\ JobSplit

Inv == Types /\ AcceptedFit /\ SeenApart /\ DispatchSeen /\ ItemSplit
-----------------------------------------------------------------------------
(* The numbers of an item.                                                 *)
LEMMA ItemTypes ==
  ASSUME work \in WorkLists
  PROVE  /\ work.n \in Nat /\ work.buf_len \in Nat
         /\ \A i \in Items : work.off[i] \in Nat /\ work.len[i] \in Nat /\ End(i) \in Nat
         /\ \A i \in Items : \A k \in DOMAIN work.relocs[i] : work.relocs[i][k].offset \in Nat
<1>1. /\ work.n \in Nat /\ work.buf_len \in Nat
      /\ work.off \in [1..work.n -> Nat] /\ work.len \in [1..work.n -> Nat]
  BY WorkListsAssumption
<1>2. \A i \in Items : work.off[i] \in Nat /\ work.len[i] \in Nat
  BY <1>1 DEF Items
<1>3. \A i \in Items : End(i) \in Nat
  BY <1>2 DEF End
<1>4. \A i \in Items : \A k \in DOMAIN work.relocs[i] : work.relocs[i][k].offset \in Nat
  BY WorkListsAssumption DEF Items
<1> QED
  BY <1>1, <1>2, <1>3, <1>4

LEMMA PatchTypes ==
  ASSUME NEW t
  PROVE  Prefix(t) \in Nat /\ Width(t) \in Nat
BY DEF Prefix, Width

(* Multiples of the batch size do not fall back.                           *)
LEMMA Multiples ==
  ASSUME NEW a \in Nat, NEW b \in Nat, NEW c \in Nat, a < b
  PROVE  (a + 1) * c <= b * c
<1>1. PICK d \in Nat : b = a + 1 + d
  <2>1. b - a - 1 \in Nat /\ b = a + 1 + (b - a - 1)
    OBVIOUS
  <2> QED
    BY <2>1
<1>2. b * c = (a + 1) * c + d * c /\ d * c \in Nat /\ (a + 1) * c \in Nat
  BY <1>1
<1> QED
  BY <1>2

(* Batches cuts the list into pieces that share no item.                   *)
LEMMA BatchesSplit ==
  ASSUME work \in WorkLists
  PROVE  /\ Batches \subseteq Batch
         /\ \A b, c \in Batches : b # c => b.last < c.first \/ c.last < b.first
<1> USE SizesAssumption
<1>n. work.n \in Nat
  BY ItemTypes
<1>1. CASE work.n < PARALLEL_THRESHOLD
  BY <1>1, <1>n DEF Batches, Batch
<1>2. CASE ~(work.n < PARALLEL_THRESHOLD)
  <2> DEFINE First(b) == b * BATCH_SIZE + 1
             Last(b) == IF (b + 1) * BATCH_SIZE < work.n THEN (b + 1) * BATCH_SIZE ELSE work.n
             Numbers == {b \in 0 .. work.n : b * BATCH_SIZE < work.n}
  <2>1. Batches = {[first |-> First(b), last |-> Last(b)] : b \in Numbers}
    BY <1>2 DEF Batches
  <2>2. \A b \in Nat : b * BATCH_SIZE \in Nat /\ (b + 1) * BATCH_SIZE \in Nat
    OBVIOUS
  <2>3. \A b \in Numbers :
          First(b) \in Nat \ {0} /\ Last(b) \in Nat /\ Last(b) <= (b + 1) * BATCH_SIZE
    BY <2>2, <1>n
  <2>4. \A b, c \in Numbers : b < c => Last(b) < First(c)
    <3> SUFFICES ASSUME NEW b \in Numbers, NEW c \in Numbers, b < c
                 PROVE  Last(b) < First(c)
      OBVIOUS
    <3>1. b \in Nat /\ c \in Nat /\ BATCH_SIZE \in Nat
      BY <1>n
    <3>2. (b + 1) * BATCH_SIZE <= c * BATCH_SIZE
      BY <3>1, Multiples
    <3>3. Last(b) <= (b + 1) * BATCH_SIZE /\ Last(b) \in Nat
      BY <2>3
    <3>4. (b + 1) * BATCH_SIZE \in Nat /\ c * BATCH_SIZE \in Nat
      BY <3>1, <2>2
    <3> HIDE DEF Last
    <3> QED
      BY <3>2, <3>3, <3>4
  <2> HIDE DEF First, Last
  <2>5. Batches \subseteq Batch
    BY <2>1, <2>3 DEF Batch
  <2>6. ASSUME NEW x \in Batches, NEW y \in Batches, x # y
        PROVE  x.last < y.first \/ y.last < x.first
    <3>1. PICK b \in Numbers : x = [first |-> First(b), last |-> Last(b)]
      BY <2>1
    <3>2. PICK c \in Numbers : y = [first |-> First(c), last |-> Last(c)]
      BY <2>1
    <3>3. b \in Int /\ c \in Int /\ b # c
      BY <3>1, <3>2, <2>6, <1>n
    <3>4. b < c \/ c < b
      BY <3>3
    <3> QED
      BY <3>1, <3>2, <3>4, <2>4
  <2> QED
    BY <2>5, <2>6
<1> QED
  BY <1>1, <1>2
-----------------------------------------------------------------------------
LEMMA InitInv == Init => Inv
<1> SUFFICES ASSUME Init PROVE Inv
  OBVIOUS
<1>1. Types
  BY DEF Init, Types, NoJob, Job
<1>2. AcceptedFit /\ SeenApart
  BY DEF Init, AcceptedFit, SeenApart
<1>3. DispatchSeen /\ ItemSplit
  BY DEF Init, DispatchSeen, ItemSplit, PoolSplit, JobPool, JobSplit
<1> QED
  BY <1>1, <1>2, <1>3 DEF Inv

(* A range is taken in only when it passed its check.                      *)
LEMMA FromPartsInv ==
  ASSUME Inv, FromParts
  PROVE  Inv'
<1> USE DEF FromParts, writing
<1>1. Types'
  BY DEF Inv, Types, Items
<1>2. AcceptedFit'
  <2>1. work.len[at] \in Nat
    BY ItemTypes DEF Inv, Types
  <2>2. \A i \in accepted' : i \in accepted \/ (i = at /\ work.len[at] > 0 /\ RangeOk(at))
    BY <2>1
  <2> QED
    BY <2>2 DEF Inv, AcceptedFit, RangeOk, Fits, Contained, End
<1>3. SeenApart'
  BY DEF Inv, SeenApart, Apart, End
<1>4. DispatchSeen' /\ ItemSplit'
  BY DEF Inv, DispatchSeen, ItemSplit, PoolSplit, JobPool, JobSplit
<1> QED
  BY <1>1, <1>2, <1>3, <1>4 DEF Inv

(* A range that begins behind the last one lies apart from all before it.  *)
LEMMA CheckRangeInv ==
  ASSUME Inv, NEW i \in Items, CheckRange(i)
  PROVE  Inv'
<1> USE DEF CheckRange, IsNext, writing
<1>1. Types'
  BY DEF Inv, Types, Items
<1>2. AcceptedFit'
  BY DEF Inv, AcceptedFit, RangeOk, Fits, Contained, End
<1>3. SeenApart'
  <2>1. /\ i \in Items /\ previous \in Items \cup {0} /\ seen \subseteq Items
        /\ \A j \in Items : work.off[j] \in Nat /\ work.len[j] \in Nat /\ End(j) \in Nat
    BY ItemTypes DEF Inv, Types
  <2>2. End(i) >= work.off[i]
    BY <2>1 DEF End
  <2>3. \A j \in seen : End(j) <= work.off[i]
    BY <2>1 DEF Inv, SeenApart, Overlaps
  <2>4. \A j \in seen : End(j) <= End(i) /\ Apart(j, i) /\ Apart(i, j)
    BY <2>1, <2>2, <2>3 DEF Apart
  <2>5. \A j \in seen' : i # 0 /\ End(j) <= End(i)
    BY <2>1, <2>4 DEF Items
  <2>6. \A j, k \in seen' : j # k => Apart(j, k)
    BY <2>4 DEF Inv, SeenApart
  <2> QED
    BY <2>5, <2>6 DEF SeenApart, Apart, End
<1>4. DispatchSeen' /\ ItemSplit'
  BY DEF Inv, DispatchSeen, ItemSplit, PoolSplit, JobPool, JobSplit
<1> QED
  BY <1>1, <1>2, <1>3, <1>4 DEF Inv

(* What the threads do leaves the checked ranges alone.                    *)
LEMMA CheckedKept ==
  ASSUME Inv, UNCHANGED <<work, checking>>
  PROVE  AcceptedFit' /\ SeenApart'
BY DEF Inv, checking, AcceptedFit, SeenApart, Apart, RangeOk, Fits, Contained, End

(* The threads get the batches when every range was gone past.             *)
LEMMA DispatchInv ==
  ASSUME Inv, Dispatch
  PROVE  Inv'
<1> USE DEF Dispatch, checking
<1>1. Types'
  BY BatchesSplit DEF Inv, Types, Items
<1>2. DispatchSeen'
  BY DEF Inv, DispatchSeen
<1>3. \A t \in Workers : job'[t] = NoJob
  BY DEF Inv, DispatchSeen
<1>4. PoolSplit'
  BY BatchesSplit DEF Inv, Types, PoolSplit
<1>5. JobPool' /\ JobSplit'
  BY <1>3 DEF JobPool, JobSplit
<1> QED
  BY <1>1, <1>2, <1>4, <1>5, CheckedKept DEF Inv, ItemSplit

(* A thread that takes a batch has what was in the pool, and that only.    *)
LEMMA TakeBatchInv ==
  ASSUME Inv, NEW t \in Workers, TakeBatch(t)
  PROVE  Inv'
<1> USE DEF TakeBatch, checking
<1>1. PICK b \in pool :
        /\ pool' = pool \ {b}
        /\ job' = [job EXCEPT ![t] = [item |-> b.first, last |-> b.last, step |-> 0]]
  OBVIOUS
<1>2. b \in Batch /\ job \in [Workers -> Job]
  BY DEF Inv, Types
<1>3. /\ job'[t] = [item |-> b.first, last |-> b.last, step |-> 0]
      /\ \A u \in Workers \ {t} : job'[u] = job[u]
  BY <1>1, <1>2
<1>4. Types'
  BY <1>1, <1>2 DEF Inv, Types, Items, Batch, Job
<1>5. DispatchSeen'
  BY DEF Inv, DispatchSeen
<1>6. PoolSplit'
  BY <1>1 DEF Inv, ItemSplit, PoolSplit
<1>7. JobPool'
  BY <1>1, <1>3 DEF Inv, ItemSplit, PoolSplit, JobPool
<1>8. JobSplit'
  BY <1>1, <1>3 DEF Inv, ItemSplit, JobPool, JobSplit
<1> QED
  BY <1>4, <1>5, <1>6, <1>7, <1>8, CheckedKept DEF Inv, ItemSplit

(* A job only shrinks: its thread goes on to later items or drops it.      *)
LEMMA ShrinkInv ==
  ASSUME Inv, NEW t \in Workers, NEW j \in Job,
         pc = "dispatch", job[t] # NoJob,
         j = NoJob \/ (j.last = job[t].last /\ j.item >= job[t].item),
         job' = [job EXCEPT ![t] = j],
         UNCHANGED <<work, pc, checking, pool>>, DOMAIN buf' = DOMAIN buf
  PROVE  Inv'
<1> USE DEF checking
<1>1. job \in [Workers -> Job] /\ pool \subseteq Batch
  BY DEF Inv, Types
<1>2. job'[t] = j /\ \A u \in Workers \ {t} : job'[u] = job[u]
  BY <1>1
<1>3. Types'
  BY <1>1 DEF Inv, Types, Items
<1>4. DispatchSeen' /\ PoolSplit'
  BY DEF Inv, DispatchSeen, ItemSplit, PoolSplit
<1>5. \A u \in Workers : job[u].item \in Nat /\ job[u].last \in Nat
  BY <1>1 DEF Job
<1>6. \A b \in pool : b.first \in Nat /\ b.last \in Nat
  BY <1>1 DEF Batch
<1>7. j.item \in Nat /\ j.last \in Nat
  BY DEF Job
<1>8. JobPool'
  BY <1>2, <1>5, <1>6, <1>7 DEF Inv, ItemSplit, JobPool
<1>9. JobSplit'
  BY <1>2, <1>5, <1>7 DEF Inv, ItemSplit, JobSplit
<1> QED
  BY <1>3, <1>4, <1>8, <1>9, CheckedKept DEF Inv, ItemSplit

(* Every step of a thread takes a batch or shrinks the thread's job.       *)
LEMMA WorkerInv ==
  ASSUME Inv, NEW t \in Workers, Worker(t)
  PROVE  Inv'
<1>0. job \in [Workers -> Job] /\ job[t] \in Job
  BY DEF Inv, Types
<1>1. CASE TakeBatch(t)
  BY <1>1, TakeBatchInv
<1>2. CASE PassItem(t)
  <2> DEFINE j == [job[t] EXCEPT !.item = @ + 1]
  <2>1. /\ j \in Job /\ job' = [job EXCEPT ![t] = j]
        /\ j.last = job[t].last /\ j.item >= job[t].item
    BY <1>0, <1>2 DEF PassItem, Job
  <2>2. /\ pc = "dispatch" /\ job[t] # NoJob
        /\ UNCHANGED <<work, pc, checking, pool>> /\ DOMAIN buf' = DOMAIN buf
    BY <1>2 DEF PassItem, Busy
  <2> HIDE DEF j
  <2> QED
    BY <2>1, <2>2, ShrinkInv
<1>3. CASE CopySection(t)
  <2> DEFINE j == [job[t] EXCEPT !.step = 1]
  <2>1. /\ j \in Job /\ job' = [job EXCEPT ![t] = j]
        /\ j.last = job[t].last /\ j.item >= job[t].item
    BY <1>0, <1>3 DEF CopySection, Job
  <2>2. /\ pc = "dispatch" /\ job[t] # NoJob
        /\ UNCHANGED <<work, pc, checking, pool>> /\ DOMAIN buf' = DOMAIN buf
    BY <1>3 DEF CopySection, InItem, Busy
  <2> HIDE DEF j
  <2> QED
    BY <2>1, <2>2, ShrinkInv
<1>4. CASE ApplyReloc(t)
  <2> DEFINE j == [job[t] EXCEPT !.step = @ + 1]
  <2>1. /\ j \in Job /\ job' = [job EXCEPT ![t] = j]
        /\ j.last = job[t].last /\ j.item >= job[t].item
    BY <1>0, <1>4 DEF ApplyReloc, Job
  <2>2. /\ pc = "dispatch" /\ job[t] # NoJob
        /\ UNCHANGED <<work, pc, checking, pool>> /\ DOMAIN buf' = DOMAIN buf
    BY <1>4 DEF ApplyReloc, InItem, Busy
  <2> HIDE DEF j
  <2> QED
    BY <2>1, <2>2, ShrinkInv
<1>5. CASE FinishItem(t)
  <2> DEFINE j == [job[t] EXCEPT !.item = @ + 1, !.step = 0]
  <2>1. /\ j \in Job /\ job' = [job EXCEPT ![t] = j]
        /\ j.last = job[t].last /\ j.item >= job[t].item
    BY <1>0, <1>5 DEF FinishItem, Job
  <2>2. /\ pc = "dispatch" /\ job[t] # NoJob
        /\ UNCHANGED <<work, pc, checking, pool>> /\ DOMAIN buf' = DOMAIN buf
    BY <1>5 DEF FinishItem, InItem, Busy
  <2> HIDE DEF j
  <2> QED
    BY <2>1, <2>2, ShrinkInv
<1>6. NoJob \in Job
  BY DEF NoJob, Job
<1>7. CASE FailItem(t)
  BY <1>6, <1>7, ShrinkInv DEF FailItem, InItem, Busy
<1>8. CASE EndBatch(t)
  BY <1>6, <1>8, ShrinkInv DEF EndBatch, Busy
<1> QED
  BY <1>1, <1>2, <1>3, <1>4, <1>5, <1>7, <1>8 DEF Worker

(* Steps that end the emission, or change only what the invariant does not *)
(* speak of.                                                               *)
LEMMA EndInv ==
  ASSUME Inv, UNCHANGED <<work, checking, writing>>,
         pc' = pc \/ pc' = "done" \/ (pc = "ranges" /\ pc' = "overlaps")
  PROVE  Inv'
<1> USE DEF checking, writing
<1>1. Types'
  BY DEF Inv, Types, Items
<1>2. DispatchSeen'
  BY DEF Inv, DispatchSeen
<1>3. ItemSplit'
  BY DEF Inv, ItemSplit, PoolSplit, JobPool, JobSplit
<1> QED
  BY <1>1, <1>2, <1>3, CheckedKept DEF Inv

LEMMA NextInv == Inv /\ [Next]_vars => Inv'
<1> SUFFICES ASSUME Inv, [Next]_vars PROVE Inv'
  OBVIOUS
<1>1. CASE FromParts
  BY <1>1, FromPartsInv
<1>2. CASE RejectRange
  BY <1>2, EndInv DEF RejectRange
<1>3. CASE SortRanges
  BY <1>3, EndInv DEF SortRanges
<1>4. CASE Dispatch
  BY <1>4, DispatchInv
<1>5. ASSUME NEW i \in Items, CheckRange(i) PROVE Inv'
  BY <1>5, CheckRangeInv
<1>6. ASSUME NEW i \in Items, RejectOverlap(i) PROVE Inv'
  BY <1>6, EndInv DEF RejectOverlap
<1>7. CASE Return
  BY <1>7, EndInv DEF Return
<1>8. CASE UNCHANGED vars
  BY <1>8, EndInv DEF vars
<1>9. ASSUME NEW t \in Workers, Worker(t) PROVE Inv'
  BY <1>9, WorkerInv
<1> QED
  BY <1>1, <1>2, <1>3, <1>4, <1>5, <1>6, <1>7, <1>8, <1>9 DEF Next, Check, Done

(* The footprint of a relocation was checked with the range of its item.   *)
LEMMA PatchesInside ==
  ASSUME Inv, NEW i \in accepted, NEW k \in DOMAIN work.relocs[i]
  PROVE  Patches(i, k) \subseteq Cells(i)
<1> DEFINE r == work.relocs[i][k]
<1>1. i \in Items /\ RangeOk(i) /\ work \in WorkLists
  BY DEF Inv, Types, AcceptedFit
<1>2. /\ r.offset \in Nat /\ Prefix(r.type) \in Nat /\ Width(r.type) \in Nat
      /\ work.off[i] \in Nat /\ work.len[i] \in Nat
  BY <1>1, ItemTypes, PatchTypes
<1>3. Start(r) \in Int
  BY <1>2 DEF Start
<1>4. r.type \in Traced => Start(r) >= 0 /\ Start(r) + Width(r.type) <= work.len[i]
  BY <1>1 DEF RangeOk, Contained
<1>5. CASE r.type \in Traced /\ r.effect = "patch"
  <2>1. Patches(i, k) = work.off[i] + Start(r) .. work.off[i] + Start(r) + Width(r.type) - 1
    BY <1>5 DEF Patches
  <2>2. Cells(i) = work.off[i] .. work.off[i] + work.len[i] - 1
    BY <1>2 DEF Cells, End
  <2>3. Start(r) >= 0 /\ Start(r) + Width(r.type) <= work.len[i]
    BY <1>4, <1>5
  <2>4. PICK s, w, o, l : s = Start(r) /\ w = Width(r.type) /\ o = work.off[i] /\ l = work.len[i]
    OBVIOUS
  <2>5. s \in Int /\ w \in Nat /\ o \in Nat /\ l \in Nat /\ s >= 0 /\ s + w <= l
    BY <1>2, <1>3, <2>3, <2>4
  <2>6. o + s .. o + s + w - 1 \subseteq o .. o + l - 1
    BY <2>5
  <2> QED
    BY <2>1, <2>2, <2>4, <2>6
<1>6. CASE ~(r.type \in Traced /\ r.effect = "patch")
  BY <1>6 DEF Patches
<1> QED
  BY <1>5, <1>6

(* Once the threads run, items that were accepted have no common byte.     *)
LEMMA CellsDisjoint ==
  ASSUME Inv, pc = "dispatch", NEW i \in accepted, NEW j \in accepted, i # j
  PROVE  Cells(i) \cap Cells(j) = {}
<1>1. /\ work.off[i] \in Nat /\ End(i) \in Nat
      /\ work.off[j] \in Nat /\ End(j) \in Nat
  BY ItemTypes DEF Inv, Types
<1>2. Apart(i, j)
  BY DEF Inv, DispatchSeen, SeenApart
<1> QED
  BY <1>1, <1>2 DEF Apart, Cells

(* Two threads in their items are in different items.                      *)
LEMMA InvNoSharedByte == Inv => NoSharedByte
<1> SUFFICES ASSUME Inv, NEW t \in Workers, InItem(t)
             PROVE  /\ Cells(Item(t)) \subseteq DOMAIN buf
                    /\ \A k \in DOMAIN Relocs(t) : Patches(Item(t), k) \subseteq Cells(Item(t))
                    /\ \A u \in Workers \ {t} : InItem(u) => Cells(Item(t)) \cap Cells(Item(u)) = {}
  BY DEF NoSharedByte
<1>1. Item(t) \in accepted /\ RangeOk(Item(t)) /\ DOMAIN buf = 0 .. work.buf_len - 1
  BY DEF Inv, Types, AcceptedFit, InItem
<1>2. work.buf_len \in Nat /\ work.off[Item(t)] \in Nat /\ End(Item(t)) \in Nat
  BY <1>1, ItemTypes DEF Inv, Types
<1>3. Cells(Item(t)) \subseteq DOMAIN buf
  BY <1>1, <1>2 DEF RangeOk, Fits, Cells
<1>4. \A k \in DOMAIN Relocs(t) : Patches(Item(t), k) \subseteq Cells(Item(t))
  BY <1>1, PatchesInside DEF Relocs
<1>5. ASSUME NEW u \in Workers \ {t}, InItem(u)
      PROVE  Cells(Item(t)) \cap Cells(Item(u)) = {}
  <2>1. /\ pc = "dispatch" /\ job[t] # NoJob /\ job[u] # NoJob
        /\ job[t].item <= job[t].last /\ job[u].item <= job[u].last
    BY <1>5 DEF InItem, Busy, Item
  <2>2. /\ job[t].item \in Nat /\ job[t].last \in Nat
        /\ job[u].item \in Nat /\ job[u].last \in Nat
    BY DEF Inv, Types, Job
  <2>3. Item(t) # Item(u)
    BY <2>1, <2>2 DEF Inv, ItemSplit, JobSplit, Item
  <2> QED
    BY <1>1, <1>5, <2>1, <2>3, CellsDisjoint DEF InItem
<1> QED
  BY <1>3, <1>4, <1>5

(* No byte of the mapped output is written by two threads: for any list of *)
(* work items, whatever ranges the layout gave them, any number of threads *)
(* and any batch size, the checks of copy_input_sections make the unlocked *)
(* writes of process_item disjoint and keep them in the buffer.            *)
THEOREM WritesAreDisjoint == Spec => []NoSharedByte
<1>1. Spec => []Inv
  BY InitInv, NextInv, PTL DEF Spec
<1> QED
  BY <1>1, InvNoSharedByte, PTL
-----------------------------------------------------------------------------
(* That the threads implement SectionWrites needs to know more: which      *)
(* items have been begun, and what their bytes hold.                       *)
InBatch(b, i) == b.first <= i /\ i <= b.last
Left(t, i) == job[t] # NoJob /\ job[t].item <= i /\ i <= job[t].last

(* No range is passed over before the threads start, and the loop follows  *)
(* the sort order.                                                         *)
Checked ==
  /\ at > 0
  /\ result = "pending" <=> pc # "done"
  /\ \A i \in Items : i < at /\ work.len[i] > 0 => i \in accepted
  /\ pc \in {"overlaps", "dispatch"} => at > work.n
  /\ pc = "ranges" => seen = {}
  /\ pc = "overlaps" /\ previous # 0 => \A j \in accepted \ seen : Before(previous, j)

Begun ==
  /\ copied \subseteq accepted /\ finished \subseteq copied
  /\ pc \in {"ranges", "overlaps"} => copied = {} /\ error_slot = 0
  /\ error_slot # 0 => error_slot \in Items /\ ~Sound(error_slot)
  /\ \A i \in finished : Sound(i)

(* What is left of the batches and jobs has not been begun, except for the *)
(* item a thread is in.                                                    *)
Once ==
  /\ \A b \in pool : \A i \in copied : ~InBatch(b, i)
  /\ \A t \in Workers : \A i \in copied :
       Left(t, i) => i = job[t].item /\ job[t].step > 0

(* The bytes of an item in work are as far as its thread is.               *)
InWork(t, i, s) ==
  /\ i \in copied \ finished /\ i <= job[t].last
  /\ s <= Len(work.relocs[i]) + 1
  /\ \A k \in 1 .. s - 1 : work.relocs[i][k].effect # "fail"
  /\ \A c \in Cells(i) : buf[c] = <<i, LastPatch(i, s - 1, c)>>
Patching ==
  \A t \in Workers : job[t].step > 0 => InWork(t, job[t].item, job[t].step)

Blank == \A c \in DOMAIN buf : buf[c] = <<0, 0>> \/ \E i \in copied : c \in Cells(i)

(* Without an error nothing is forgotten.                                  *)
Accounted ==
  pc = "dispatch" /\ error_slot = 0 =>
    \A i \in accepted :
      \/ i \in finished
      \/ \E b \in pool : InBatch(b, i)
      \/ \E t \in Workers : Left(t, i)

FullInv == Inv /\ Checked /\ Begun /\ Once /\ Patching /\ Blank /\ Accounted
-----------------------------------------------------------------------------
(* What one more relocation does to LastPatch.                             *)
LEMMA LastPatchFacts ==
  ASSUME NEW i, NEW c
  PROVE  /\ LastPatch(i, 0, c) = 0
         /\ \A k \in Nat \ {0} :
              LastPatch(i, k, c) =
                IF c \in Patches(i, k) THEN k ELSE LastPatch(i, k - 1, c)
<1> DEFINE P(k) == {j \in 1..k : c \in Patches(i, j)}
<1>1. \A k : LastPatch(i, k, c) =
        IF P(k) = {} THEN 0 ELSE CHOOSE j \in P(k) : \A m \in P(k) : m <= j
  BY DEF LastPatch
<1>2. P(0) = {}
  OBVIOUS
<1>3. ASSUME NEW k \in Nat \ {0}, c \in Patches(i, k)
      PROVE  LastPatch(i, k, c) = k
  <2>1. k \in P(k) /\ \A m \in P(k) : m \in Int /\ m <= k
    BY <1>3
  <2>2. \A j \in P(k) : (\A m \in P(k) : m <= j) => j = k
    BY <2>1
  <2> HIDE DEF P
  <2> QED
    BY <1>1, <2>1, <2>2
<1>4. ASSUME NEW k \in Nat \ {0}, c \notin Patches(i, k)
      PROVE  LastPatch(i, k, c) = LastPatch(i, k - 1, c)
  <2>1. P(k) = P(k - 1)
    BY <1>4
  <2> HIDE DEF P
  <2> QED
    BY <1>1, <2>1
<1> HIDE DEF P
<1> QED
  BY <1>1, <1>2, <1>3, <1>4

(* The work items do not change.                                           *)
LEMMA WorkKept ==
  ASSUME UNCHANGED work
  PROVE  /\ Items' = Items
         /\ \A i : Cells(i)' = Cells(i) /\ Sound(i)' = Sound(i)
         /\ \A i, k, c : LastPatch(i, k, c)' = LastPatch(i, k, c)
BY DEF Items, Cells, End, Sound, Fits, Contained, LastPatch, Patches

LEMMA InWorkNext ==
  ASSUME UNCHANGED work, NEW u, NEW i, NEW s,
         i \in copied' \ finished', i <= job'[u].last,
         s <= Len(work.relocs[i]) + 1,
         \A k \in 1 .. s - 1 : work.relocs[i][k].effect # "fail",
         \A c \in Cells(i) : buf'[c] = <<i, LastPatch(i, s - 1, c)>>
  PROVE  InWork(u, i, s)'
<1>1. Cells(i)' = Cells(i)
  BY WorkKept
<1>2. \A c : LastPatch(i, s - 1, c)' = LastPatch(i, s - 1, c)
  BY WorkKept
<1>3. \A c \in Cells(i)' : buf'[c] = <<i, LastPatch(i, s - 1, c)'>>
  BY <1>1, <1>2
<1>4. work'.relocs = work.relocs
  OBVIOUS
<1> QED
  BY <1>3, <1>4 DEF InWork

LEMMA RelocTypes ==
  ASSUME work \in WorkLists, NEW i \in Items
  PROVE  Len(work.relocs[i]) \in Nat /\ DOMAIN work.relocs[i] = 1..Len(work.relocs[i])
BY WorkListsAssumption DEF Items

(* Every item is in a batch.                                               *)
LEMMA BatchesCover ==
  ASSUME work \in WorkLists, NEW i \in Items
  PROVE  \E b \in Batches : InBatch(b, i)
<1> USE SizesAssumption
<1>n. work.n \in Nat /\ i \in 1..work.n
  BY ItemTypes DEF Items
<1>1. CASE work.n < PARALLEL_THRESHOLD
  <2>1. [first |-> 1, last |-> work.n] \in Batches
    BY <1>1 DEF Batches
  <2> QED
    BY <1>n, <2>1 DEF InBatch
<1>2. CASE ~(work.n < PARALLEL_THRESHOLD)
  <2> DEFINE q == (i - 1) \div BATCH_SIZE
  <2>1. q \in Nat /\ q * BATCH_SIZE <= i - 1 /\ i - 1 < (q + 1) * BATCH_SIZE
    BY <1>n
  <2>2. q <= q * BATCH_SIZE /\ q * BATCH_SIZE \in Nat /\ (q + 1) * BATCH_SIZE \in Nat
    BY <2>1
  <2> HIDE DEF q
  <2>3. q \in 0 .. work.n /\ q * BATCH_SIZE < work.n
    BY <1>n, <2>1, <2>2
  <2> DEFINE b == [first |-> q * BATCH_SIZE + 1,
                   last |-> IF (q + 1) * BATCH_SIZE < work.n THEN (q + 1) * BATCH_SIZE ELSE work.n]
  <2>4. b \in Batches
    BY <1>2, <2>3 DEF Batches
  <2>5. InBatch(b, i)
    BY <1>n, <2>1, <2>2 DEF InBatch
  <2> QED
    BY <2>4, <2>5
<1> QED
  BY <1>1, <1>2
-----------------------------------------------------------------------------
LEMMA InitFullInv == Init => FullInv
<1> SUFFICES ASSUME Init PROVE FullInv
  OBVIOUS
<1>1. Inv
  BY InitInv
<1>2. Checked
  BY DEF Init, Checked, Items
<1>3. Begun /\ Once /\ Accounted
  BY DEF Init, Begun, Once, Accounted
<1>4. Patching
  BY DEF Init, Patching, NoJob
<1>5. Blank
  BY DEF Init, Blank
<1> QED
  BY <1>1, <1>2, <1>3, <1>4, <1>5 DEF FullInv

(* The checks, and the return, write nothing.                              *)
LEMMA NothingWritten ==
  ASSUME FullInv, UNCHANGED <<work, writing>>, accepted \subseteq accepted',
         pc' # "dispatch", pc \in {"ranges", "overlaps"} \/ pc' = "done"
  PROVE  Begun' /\ Once' /\ Patching' /\ Blank' /\ Accounted'
<1> USE DEF writing
<1>1. Begun'
  BY WorkKept DEF FullInv, Begun
<1>2. Once'
  BY DEF FullInv, Once, InBatch, Left
<1>3. Patching'
  BY WorkKept DEF FullInv, Patching, InWork
<1>4. Blank'
  BY WorkKept DEF FullInv, Blank
<1>5. Accounted'
  BY DEF Accounted
<1> QED
  BY <1>1, <1>2, <1>3, <1>4, <1>5

LEMMA FromPartsFullInv ==
  ASSUME FullInv, FromParts
  PROVE  Checked' /\ Begun' /\ Once' /\ Patching' /\ Blank' /\ Accounted'
<1> USE DEF FromParts
<1>1. at \in Nat /\ work.n \in Nat /\ \A i \in Items : i \in Nat /\ work.len[i] \in Nat
  BY ItemTypes DEF FullInv, Inv, Types, Items
<1>2. \A i \in Items : i < at + 1 /\ work.len[i] > 0 => i \in accepted'
  BY <1>1 DEF FullInv, Checked
<1>3. Checked'
  BY <1>1, <1>2 DEF FullInv, Checked, Items
<1> QED
  BY <1>3, NothingWritten

LEMMA CheckRangeFullInv ==
  ASSUME FullInv, NEW i \in Items, CheckRange(i)
  PROVE  Checked' /\ Begun' /\ Once' /\ Patching' /\ Blank' /\ Accounted'
<1> USE DEF CheckRange
<1>1. \A j \in accepted' \ seen' : Before(i, j)
  BY DEF IsNext
<1>2. Checked'
  BY <1>1 DEF FullInv, Checked, Items, Before, End
<1> QED
  BY <1>2, NothingWritten

(* The checks end: the ranges are sorted, one is refused, or a last step.  *)
LEMMA EndFullInv ==
  ASSUME FullInv, UNCHANGED <<work, checking, writing>>,
         \/ pc' = "done" /\ result' # "pending"
         \/ pc = "ranges" /\ pc' = "overlaps" /\ at \notin Items /\ result' = result
  PROVE  Checked' /\ Begun' /\ Once' /\ Patching' /\ Blank' /\ Accounted'
<1> USE DEF checking
<1>1. at \in Nat /\ work.n \in Nat
  BY ItemTypes DEF FullInv, Inv, Types
<1>2. Checked'
  BY <1>1 DEF FullInv, Inv, Types, Checked, Items
<1> QED
  BY <1>2, NothingWritten

LEMMA DispatchFullInv ==
  ASSUME FullInv, Dispatch
  PROVE  Checked' /\ Begun' /\ Once' /\ Patching' /\ Blank' /\ Accounted'
<1> USE DEF Dispatch, checking
<1>1. Checked'
  BY DEF FullInv, Checked, Items
<1>2. Begun'
  BY WorkKept DEF FullInv, Begun
<1>3. Once'
  BY DEF FullInv, Begun, Once
<1>4. Patching' /\ Blank'
  BY WorkKept DEF FullInv, Patching, InWork, Blank
<1>5. Accounted'
  BY BatchesCover DEF FullInv, Inv, Types, Accounted, InBatch
<1> QED
  BY <1>1, <1>2, <1>3, <1>4, <1>5

LEMMA JobTypes ==
  ASSUME Inv, NEW t \in Workers
  PROVE  /\ job \in [Workers -> Job] /\ job[t] \in Job
         /\ job[t].item \in Nat /\ job[t].last \in Nat /\ job[t].step \in Nat
         /\ job[t].step > 0 => job[t] # NoJob
BY DEF Inv, Types, Job, NoJob

LEMMA ThreadsCheckNothing ==
  ASSUME FullInv, UNCHANGED <<work, pc, checking, result>>
  PROVE  Checked'
BY DEF FullInv, checking, Checked, Items, Before, End

LEMMA TakeBatchFullInv ==
  ASSUME FullInv, NEW t \in Workers, TakeBatch(t)
  PROVE  Checked' /\ Begun' /\ Once' /\ Patching' /\ Blank' /\ Accounted'
<1> USE DEF TakeBatch
<1>1. PICK b \in pool :
        /\ pool' = pool \ {b}
        /\ job' = [job EXCEPT ![t] = [item |-> b.first, last |-> b.last, step |-> 0]]
  OBVIOUS
<1>2. b \in Batch /\ job \in [Workers -> Job]
  BY DEF FullInv, Inv, Types
<1>3. /\ job'[t] = [item |-> b.first, last |-> b.last, step |-> 0]
      /\ job'[t] # NoJob
      /\ \A u \in Workers \ {t} : job'[u] = job[u]
  BY <1>1, <1>2 DEF Batch, NoJob
<1>4. /\ \A i : Left(t, i)' <=> InBatch(b, i)
      /\ \A u \in Workers \ {t} : \A i : Left(u, i)' <=> Left(u, i)
  BY <1>3 DEF Left, InBatch
<1>5. Begun'
  BY WorkKept DEF FullInv, Begun, checking
<1>6. Once'
  BY <1>1, <1>3, <1>4 DEF FullInv, Once, InBatch
<1>7. Patching'
  BY <1>3, WorkKept DEF FullInv, Patching, InWork
<1>8. Blank'
  BY WorkKept DEF FullInv, Blank
<1>9. Accounted'
  <2> SUFFICES ASSUME pc = "dispatch", error_slot = 0, NEW i \in accepted
               PROVE  \/ i \in finished
                      \/ \E c \in pool' : InBatch(c, i)
                      \/ \E u \in Workers : Left(u, i)'
    BY DEF Accounted, checking, InBatch
  <2>1. CASE InBatch(b, i)
    BY <1>4, <2>1
  <2>2. CASE ~InBatch(b, i)
    <3>1. \A u \in Workers : Left(u, i) => u # t
      BY DEF Left
    <3> QED
      BY <1>1, <1>4, <2>2, <3>1 DEF FullInv, Accounted
  <2> QED
    BY <2>1, <2>2
<1> QED
  BY <1>5, <1>6, <1>7, <1>8, <1>9, ThreadsCheckNothing

(* A thread leaves its item for later ones, or its batch.                  *)
LEMMA LeaveItemFullInv ==
  ASSUME FullInv, NEW t \in Workers, NEW j \in Job,
         j.step = 0, j = NoJob \/ (j.last = job[t].last /\ j.item = job[t].item + 1),
         job[t] # NoJob, job' = [job EXCEPT ![t] = j],
         UNCHANGED <<work, pc, checking, pool, buf, copied, result>>,
         \/ finished' = finished
         \/ finished' = finished \cup {job[t].item} /\ job[t].item <= job[t].last
  PROVE  /\ Checked' /\ Once' /\ Patching' /\ Blank'
         /\ \A u \in Workers \ {t} : \A i \in Int : Left(u, i)' <=> Left(u, i)
         /\ \A i \in Int : j # NoJob /\ Left(t, i) /\ i # job[t].item => Left(t, i)'
<1>1. /\ job \in [Workers -> Job]
      /\ \A u \in Workers : job[u].item \in Nat /\ job[u].last \in Nat /\ job[u].step \in Nat
      /\ \A u \in Workers : job[u].step > 0 => job[u] # NoJob
  BY JobTypes DEF FullInv
<1>2. job'[t] = j /\ \A u \in Workers \ {t} : job'[u] = job[u]
  BY <1>1
<1>3. \A u \in Workers \ {t} : \A i \in Int : Left(u, i)' <=> Left(u, i)
  BY <1>2 DEF Left
<1>4. \A i \in Int : Left(t, i)' => Left(t, i) /\ i # job[t].item
  BY <1>1, <1>2 DEF Left
<1>5. copied \subseteq Int
  BY ItemTypes DEF FullInv, Inv, Types, Begun, Items
<1>6. Once'
  <2>1. \A b \in pool' : \A i \in copied' : ~InBatch(b, i)
    BY DEF FullInv, Once
  <2>2. \A u \in Workers : \A i \in copied :
          Left(u, i)' => i = job'[u].item /\ job'[u].step > 0
    BY <1>2, <1>3, <1>4, <1>5 DEF FullInv, Once
  <2> QED
    BY <2>1, <2>2 DEF Once, InBatch
<1>7. ASSUME NEW u \in Workers, job'[u].step > 0,
             NEW i, NEW s, i = job'[u].item, s = job'[u].step
      PROVE  InWork(u, i, s)'
  <2>1. u # t /\ job'[u] = job[u]
    BY <1>2, <1>7
  <2>2. InWork(u, i, s)
    BY <1>7, <2>1 DEF FullInv, Patching
  <2>3. i \notin finished'
    <3>1. job[u] # NoJob /\ i = job[u].item /\ i <= job[u].last /\ i \notin finished
      BY <1>1, <1>7, <2>1, <2>2 DEF InWork
    <3>2. job[t].item <= job[t].last => i # job[t].item
      BY <1>1, <2>1, <3>1 DEF FullInv, Inv, ItemSplit, JobSplit
    <3> QED
      BY <3>1, <3>2
  <2>4. /\ i \in copied' \ finished' /\ i <= job'[u].last /\ s <= Len(work.relocs[i]) + 1
        /\ \A k \in 1 .. s - 1 : work.relocs[i][k].effect # "fail"
        /\ \A c \in Cells(i) : buf'[c] = <<i, LastPatch(i, s - 1, c)>>
    BY <2>1, <2>2, <2>3 DEF InWork
  <2> QED
    BY <2>4, InWorkNext
<1>8. Patching'
  BY <1>7 DEF Patching
<1>9. Blank'
  BY WorkKept DEF FullInv, Blank
<1>10. \A i \in Int : j # NoJob /\ Left(t, i) /\ i # job[t].item => Left(t, i)'
  BY <1>1, <1>2 DEF Left
<1> QED
  BY <1>3, <1>6, <1>8, <1>9, <1>10, ThreadsCheckNothing

(* Nothing is forgotten when no more than the item just left behind leaves *)
(* the job, and that one is finished or has no range.                      *)
LEMMA LeaveItemAccounted ==
  ASSUME FullInv, NEW t \in Workers, UNCHANGED <<pc, checking, pool>>,
         error_slot' = error_slot, finished \subseteq finished',
         \A u \in Workers \ {t} : \A i \in Int : Left(u, i)' <=> Left(u, i),
         \A i \in accepted : Left(t, i) => i \in finished' \/ Left(t, i)'
  PROVE  Accounted'
<1> SUFFICES ASSUME pc = "dispatch", error_slot = 0, NEW i \in accepted
             PROVE  \/ i \in finished'
                    \/ \E b \in pool : InBatch(b, i)
                    \/ \E u \in Workers : Left(u, i)'
  BY DEF Accounted, checking, InBatch
<1>1. i \in Int
  BY ItemTypes DEF FullInv, Inv, Types, Items
<1>2. i \in finished \/ (\E b \in pool : InBatch(b, i)) \/ \E u \in Workers : Left(u, i)
  BY DEF FullInv, Accounted
<1> QED
  BY <1>1, <1>2

LEMMA AcceptedFacts ==
  ASSUME Inv, NEW i \in accepted
  PROVE  /\ i \in Items /\ i \in Nat /\ i > 0 /\ work \in WorkLists
         /\ work.len[i] > 0 /\ RangeOk(i)
         /\ Len(work.relocs[i]) \in Nat /\ DOMAIN work.relocs[i] = 1..Len(work.relocs[i])
<1>1. work \in WorkLists /\ i \in Items /\ work.len[i] > 0 /\ RangeOk(i)
  BY DEF Inv, Types, AcceptedFit
<1>2. work.n \in Nat
  BY <1>1, ItemTypes
<1>3. i \in Nat /\ i > 0
  BY <1>1, <1>2 DEF Items
<1> QED
  BY <1>1, <1>3, RelocTypes

LEMMA PassItemFullInv ==
  ASSUME FullInv, NEW t \in Workers, PassItem(t)
  PROVE  Checked' /\ Begun' /\ Once' /\ Patching' /\ Blank' /\ Accounted'
<1> DEFINE j == [job[t] EXCEPT !.item = @ + 1]
<1>1. /\ job[t] \in Job /\ job[t].item \in Nat /\ job[t].last \in Nat /\ job[t].step \in Nat
      /\ job[t] # NoJob /\ job[t].item \notin accepted
  BY JobTypes DEF FullInv, PassItem, Busy, Item
<1>2. job[t].step = 0
  BY <1>1 DEF FullInv, Patching, InWork, Begun
<1>3. /\ j \in Job /\ j.step = 0 /\ j.last = job[t].last /\ j.item = job[t].item + 1
      /\ j # NoJob /\ job' = [job EXCEPT ![t] = j]
  BY <1>1, <1>2, JobTypes DEF Job, NoJob, FullInv, PassItem
<1>4. UNCHANGED <<work, pc, checking, pool, buf, copied, finished, error_slot, result>>
  BY DEF PassItem
<1> HIDE DEF j
<1>5. /\ Checked' /\ Once' /\ Patching' /\ Blank'
      /\ \A u \in Workers \ {t} : \A i \in Int : Left(u, i)' <=> Left(u, i)
      /\ \A i \in Int : Left(t, i) /\ i # job[t].item => Left(t, i)'
  BY <1>1, <1>3, <1>4, LeaveItemFullInv
<1>6. Begun'
  BY <1>4, WorkKept DEF FullInv, Begun, checking
<1>7. Accounted'
  BY <1>1, <1>4, <1>5, LeaveItemAccounted, AcceptedFacts DEF FullInv
<1> QED
  BY <1>5, <1>6, <1>7

LEMMA EndBatchFullInv ==
  ASSUME FullInv, NEW t \in Workers, EndBatch(t)
  PROVE  Checked' /\ Begun' /\ Once' /\ Patching' /\ Blank' /\ Accounted'
<1>1. /\ job[t].item \in Nat /\ job[t].last \in Nat
      /\ job[t] # NoJob /\ job[t].item > job[t].last
  BY JobTypes DEF FullInv, EndBatch, Busy, Item
<1>2. NoJob \in Job /\ NoJob.step = 0
  BY DEF NoJob, Job
<1>3. /\ UNCHANGED <<work, pc, checking, pool, buf, copied, finished, error_slot, result>>
      /\ job' = [job EXCEPT ![t] = NoJob]
  BY DEF EndBatch
<1>5. /\ Checked' /\ Once' /\ Patching' /\ Blank'
      /\ \A u \in Workers \ {t} : \A i \in Int : Left(u, i)' <=> Left(u, i)
  BY <1>1, <1>2, <1>3, LeaveItemFullInv
<1>6. Begun'
  BY <1>3, WorkKept DEF FullInv, Begun, checking
<1>7. \A i \in accepted : ~Left(t, i)
  BY <1>1, AcceptedFacts DEF FullInv, Left
<1>8. Accounted'
  BY <1>3, <1>5, <1>7, LeaveItemAccounted
<1> QED
  BY <1>5, <1>6, <1>8

(* The item that fails is not sound.                                       *)
LEMMA FailItemFullInv ==
  ASSUME FullInv, NEW t \in Workers, FailItem(t)
  PROVE  Checked' /\ Begun' /\ Once' /\ Patching' /\ Blank' /\ Accounted'
<1> DEFINE i == job[t].item
<1>1. /\ job[t] # NoJob /\ i \in accepted
      /\ \E k \in DOMAIN work.relocs[i] : work.relocs[i][k].effect = "fail"
      /\ error_slot' = IF error_slot = 0 THEN i ELSE error_slot
  BY DEF FailItem, InItem, Busy, Item, Relocs
<1>2. NoJob \in Job /\ NoJob.step = 0
  BY DEF NoJob, Job
<1>3. /\ UNCHANGED <<work, pc, checking, pool, buf, copied, finished, result>>
      /\ job' = [job EXCEPT ![t] = NoJob] /\ pc = "dispatch"
  BY DEF FailItem, InItem, Busy
<1>4. i \in Items /\ i # 0 /\ ~Sound(i)
  BY <1>1, AcceptedFacts DEF FullInv, Sound
<1> HIDE DEF i
<1>5. Checked' /\ Once' /\ Patching' /\ Blank'
  BY <1>1, <1>2, <1>3, LeaveItemFullInv
<1>6. Begun'
  BY <1>1, <1>3, <1>4, WorkKept DEF FullInv, Begun, checking
<1>7. Accounted'
  BY <1>1, <1>4 DEF Accounted
<1> QED
  BY <1>5, <1>6, <1>7

(* The item that is finished has been checked and relocated throughout.    *)
LEMMA FinishedSound ==
  ASSUME FullInv, NEW t \in Workers, FinishItem(t), NEW i, i = job[t].item
  PROVE  /\ i \in accepted /\ i \in copied \ finished /\ i <= job[t].last
         /\ Sound(i)
         /\ \A c \in Cells(i) : buf[c] = Relocated(i, c)
<1>1. i \in accepted /\ job[t].step > Len(work.relocs[i])
  BY DEF FinishItem, InItem, Item, Relocs
<1>2. /\ Len(work.relocs[i]) \in Nat /\ DOMAIN work.relocs[i] = 1..Len(work.relocs[i])
      /\ job[t].step \in Nat /\ RangeOk(i)
  BY <1>1, AcceptedFacts, JobTypes DEF FullInv
<1>3. InWork(t, i, job[t].step)
  BY <1>1, <1>2 DEF FullInv, Patching
<1>4. job[t].step - 1 = Len(work.relocs[i])
  <2>1. job[t].step <= Len(work.relocs[i]) + 1
    BY <1>3 DEF InWork
  <2> QED
    BY <1>1, <1>2, <2>1
<1>5. \A k \in DOMAIN work.relocs[i] : work.relocs[i][k].effect # "fail"
  BY <1>2, <1>3, <1>4 DEF InWork
<1>6. Sound(i)
  BY <1>2, <1>5 DEF Sound, RangeOk
<1> QED
  BY <1>1, <1>3, <1>4, <1>6 DEF InWork, Relocated

LEMMA FinishItemFullInv ==
  ASSUME FullInv, NEW t \in Workers, FinishItem(t)
  PROVE  Checked' /\ Begun' /\ Once' /\ Patching' /\ Blank' /\ Accounted'
<1> DEFINE j == [job[t] EXCEPT !.item = @ + 1, !.step = 0]
<1>1. /\ job[t] \in Job /\ job[t].item \in Nat /\ job[t].last \in Nat
      /\ job[t] # NoJob
  BY JobTypes DEF FullInv, FinishItem, InItem, Busy
<1>2. /\ job[t].item \in copied /\ job[t].item <= job[t].last /\ Sound(job[t].item)
  BY FinishedSound
<1>3. /\ j \in Job /\ j.step = 0 /\ j.last = job[t].last /\ j.item = job[t].item + 1
      /\ j # NoJob /\ job' = [job EXCEPT ![t] = j]
  BY <1>1, JobTypes DEF Job, NoJob, FullInv, FinishItem
<1>4. /\ UNCHANGED <<work, pc, checking, pool, buf, copied, error_slot, result>>
      /\ finished' = finished \cup {job[t].item}
  BY DEF FinishItem, Item
<1> HIDE DEF j
<1>5. /\ Checked' /\ Once' /\ Patching' /\ Blank'
      /\ \A u \in Workers \ {t} : \A i \in Int : Left(u, i)' <=> Left(u, i)
      /\ \A i \in Int : Left(t, i) /\ i # job[t].item => Left(t, i)'
  BY <1>1, <1>2, <1>3, <1>4, LeaveItemFullInv
<1>6. Begun'
  <2>1. \A i \in finished' : Sound(i)'
    BY <1>2, <1>4, WorkKept DEF FullInv, Begun
  <2> QED
    BY <1>2, <1>4, <2>1, WorkKept DEF FullInv, Begun, checking
<1>7. Accounted'
  BY <1>4, <1>5, LeaveItemAccounted, AcceptedFacts DEF FullInv
<1> QED
  BY <1>5, <1>6, <1>7

(* A thread writes bytes of the item it is in: the items of other threads  *)
(* keep their bytes.                                                       *)
LEMMA WriteItemFullInv ==
  ASSUME FullInv, NEW t \in Workers, NEW i, i = job[t].item, InItem(t), i \notin finished,
         NEW s \in Nat \ {0}, NEW W, W \subseteq Cells(i), NEW v,
         job' = [job EXCEPT ![t].step = s],
         buf' = [c \in DOMAIN buf |-> IF c \in W THEN v ELSE buf[c]],
         copied' = copied \cup {i},
         UNCHANGED <<work, pc, checking, pool, finished, error_slot, result>>,
         InWork(t, i, s)'
  PROVE  Checked' /\ Begun' /\ Once' /\ Patching' /\ Blank' /\ Accounted'
<1>1. /\ job \in [Workers -> Job]
      /\ \A u \in Workers : job[u].item \in Nat /\ job[u].last \in Nat /\ job[u].step \in Nat
      /\ \A u \in Workers : job[u].step > 0 => job[u] # NoJob
  BY JobTypes DEF FullInv
<1>2. /\ job[t] # NoJob /\ i <= job[t].last /\ i \in accepted /\ pc = "dispatch" /\ i \in Nat
  BY <1>1 DEF InItem, Busy, Item
<1>3. /\ job'[t] = [job[t] EXCEPT !.step = s]
      /\ \A u \in Workers \ {t} : job'[u] = job[u]
  BY <1>1
<1>4. job'[t].item = i /\ job'[t].last = job[t].last /\ job'[t].step = s /\ job'[t] # NoJob
  BY <1>1, <1>3 DEF Job, NoJob
<1>5. \A u \in Workers : \A j \in Int : Left(u, j)' <=> Left(u, j)
  BY <1>2, <1>3, <1>4 DEF Left
<1>6. Begun'
  BY <1>2, WorkKept DEF FullInv, Begun, checking
<1>7. Once'
  <2>1. \A b \in pool : b.first \in Nat /\ b.last \in Nat
    BY DEF FullInv, Inv, Types, Batch
  <2>2. \A b \in pool : ~InBatch(b, i)
    BY <1>1, <1>2, <2>1 DEF FullInv, Inv, ItemSplit, JobPool, InBatch
  <2>3. \A u \in Workers \ {t} : ~Left(u, i)
    BY <1>1, <1>2 DEF FullInv, Inv, ItemSplit, JobSplit, Left
  <2>4. copied \subseteq Int
    BY AcceptedFacts DEF FullInv, Begun
  <2>5. \A b \in pool' : \A j \in copied' : ~InBatch(b, j)
    BY <2>2 DEF FullInv, Once
  <2>6. \A u \in Workers : \A j \in copied' :
          Left(u, j)' => j = job'[u].item /\ job'[u].step > 0
    BY <1>2, <1>3, <1>4, <1>5, <2>3, <2>4 DEF FullInv, Once
  <2> QED
    BY <2>5, <2>6 DEF Once, InBatch
<1>8. ASSUME NEW u \in Workers, job'[u].step > 0,
             NEW j, NEW r, j = job'[u].item, r = job'[u].step
      PROVE  InWork(u, j, r)'
  <2>1. CASE u = t
    BY <1>4, <1>8, <2>1
  <2>2. CASE u # t
    <3>1. job'[u] = job[u] /\ InWork(u, j, r)
      BY <1>3, <1>8, <2>2 DEF FullInv, Patching
    <3>2. j \in accepted /\ j # i
      <4>1. j \in accepted /\ j <= job[u].last /\ job[u] # NoJob /\ j = job[u].item
        BY <1>1, <1>8, <3>1 DEF InWork, FullInv, Begun
      <4> QED
        BY <1>1, <1>2, <2>2, <4>1 DEF FullInv, Inv, ItemSplit, JobSplit
    <3>3. Cells(j) \cap Cells(i) = {}
      BY <1>2, <3>2, CellsDisjoint DEF FullInv
    <3>4. Cells(j) \subseteq DOMAIN buf
      <4>1. RangeOk(j) /\ j \in Items /\ work \in WorkLists /\ DOMAIN buf = 0 .. work.buf_len - 1
        BY <3>2, AcceptedFacts DEF FullInv, Inv, Types
      <4>2. work.buf_len \in Nat /\ work.off[j] \in Nat /\ End(j) \in Nat
        BY <4>1, ItemTypes
      <4> QED
        BY <4>1, <4>2 DEF RangeOk, Fits, Cells
    <3>5. \A c \in Cells(j) : buf'[c] = buf[c]
      BY <3>3, <3>4
    <3>6. /\ j \in copied' \ finished' /\ j <= job'[u].last /\ r <= Len(work.relocs[j]) + 1
          /\ \A k \in 1 .. r - 1 : work.relocs[j][k].effect # "fail"
      BY <3>1 DEF InWork
    <3>7. \A c \in Cells(j) : buf'[c] = <<j, LastPatch(j, r - 1, c)>>
      BY <3>1, <3>5 DEF InWork
    <3> QED
      BY <3>6, <3>7, InWorkNext
  <2> QED
    BY <2>1, <2>2
<1>9. Patching'
  BY <1>8 DEF Patching
<1>10. Blank'
  BY WorkKept DEF FullInv, Blank
<1>11. Accounted'
  BY <1>2, <1>5, AcceptedFacts, LeaveItemAccounted DEF FullInv
<1> QED
  BY <1>6, <1>7, <1>9, <1>10, <1>11, ThreadsCheckNothing

LEMMA CopySectionFullInv ==
  ASSUME FullInv, NEW t \in Workers, CopySection(t)
  PROVE  /\ Checked' /\ Begun' /\ Once' /\ Patching' /\ Blank' /\ Accounted'
         /\ job[t].item \notin copied
<1> DEFINE i == job[t].item
<1>1. /\ InItem(t) /\ job[t].step = 0 /\ i \in accepted /\ i <= job[t].last /\ job[t] # NoJob
      /\ buf' = [c \in DOMAIN buf |-> IF c \in Cells(i) THEN <<i, 0>> ELSE buf[c]]
      /\ copied' = copied \cup {i}
      /\ job' = [job EXCEPT ![t].step = 1]
      /\ UNCHANGED <<work, pc, checking, pool, finished, error_slot, result>>
  BY DEF CopySection, InItem, Busy, Item
<1>2. job \in [Workers -> Job] /\ i \in Nat
  BY JobTypes DEF FullInv
<1>3. i \notin copied
  BY <1>1, <1>2 DEF FullInv, Once, Left
<1>4. i \notin finished
  BY <1>3 DEF FullInv, Begun
<1>5. Cells(i) \subseteq DOMAIN buf
  BY <1>1, InvNoSharedByte DEF FullInv, NoSharedByte, Item
<1>6. ASSUME NEW x, x = i PROVE InWork(t, x, 1)'
  <2>1. job'[t].last = job[t].last
    BY <1>1, <1>2 DEF Job
  <2>2. Len(work.relocs[x]) \in Nat
    BY <1>1, <1>6, AcceptedFacts DEF FullInv
  <2>3. \A c \in Cells(x) : buf'[c] = <<x, LastPatch(x, 1 - 1, c)>>
    BY <1>1, <1>5, <1>6, LastPatchFacts
  <2>4. x \in copied' \ finished' /\ x <= job'[t].last
    BY <1>1, <1>4, <1>6, <2>1
  <2>5. 1 <= Len(work.relocs[x]) + 1 /\ \A k \in 1 .. 1 - 1 : work.relocs[x][k].effect # "fail"
    BY <2>2
  <2> QED
    BY <1>1, <2>3, <2>4, <2>5, InWorkNext
<1>7. PICK x, W, v, s : x = i /\ W = Cells(i) /\ v = <<i, 0>> /\ s = 1
  OBVIOUS
<1>8. /\ x = job[t].item /\ InItem(t) /\ x \notin finished
      /\ s \in Nat \ {0} /\ W \subseteq Cells(x)
      /\ job' = [job EXCEPT ![t].step = s]
      /\ buf' = [c \in DOMAIN buf |-> IF c \in W THEN v ELSE buf[c]]
      /\ copied' = copied \cup {x}
      /\ UNCHANGED <<work, pc, checking, pool, finished, error_slot, result>>
  BY <1>1, <1>4, <1>7
<1>9. InWork(t, x, s)'
  BY <1>6, <1>7
<1> HIDE DEF i
<1>10. Checked' /\ Begun' /\ Once' /\ Patching' /\ Blank' /\ Accounted'
  BY <1>8, <1>9, WriteItemFullInv
<1> QED
  BY <1>3, <1>10 DEF i

LEMMA ApplyRelocFullInv ==
  ASSUME FullInv, NEW t \in Workers, ApplyReloc(t)
  PROVE  /\ Checked' /\ Begun' /\ Once' /\ Patching' /\ Blank' /\ Accounted'
         /\ job[t].item \in copied \ finished
         /\ Patches(job[t].item, job[t].step) \subseteq Cells(job[t].item)
<1> DEFINE i == job[t].item
           k == job[t].step
<1>1. /\ InItem(t) /\ i \in accepted /\ i <= job[t].last
      /\ k \in DOMAIN work.relocs[i] /\ work.relocs[i][k].effect # "fail"
      /\ buf' = [c \in DOMAIN buf |-> IF c \in Patches(i, k) THEN <<i, k>> ELSE buf[c]]
      /\ job' = [job EXCEPT ![t].step = k + 1]
      /\ UNCHANGED <<work, pc, checking, pool, copied, finished, error_slot, result>>
  BY DEF ApplyReloc, InItem, Item, Relocs
<1>2. /\ job \in [Workers -> Job] /\ i \in Nat /\ k \in Nat \ {0}
      /\ Len(work.relocs[i]) \in Nat /\ k <= Len(work.relocs[i])
  BY <1>1, JobTypes, AcceptedFacts DEF FullInv
<1>3. InWork(t, i, k)
  BY <1>2 DEF FullInv, Patching
<1>4. i \in copied \ finished /\ copied' = copied \cup {i}
  BY <1>1, <1>3 DEF InWork
<1>5. Patches(i, k) \subseteq Cells(i)
  BY <1>1, PatchesInside DEF FullInv
<1>6. Cells(i) \subseteq DOMAIN buf
  BY <1>1, InvNoSharedByte DEF FullInv, NoSharedByte, Item
<1>7. ASSUME NEW x, NEW s, x = i, s = k + 1 PROVE InWork(t, x, s)'
  <2>1. job'[t].last = job[t].last
    BY <1>1, <1>2 DEF Job
  <2>2. \A c \in Cells(x) : buf'[c] = <<x, LastPatch(x, s - 1, c)>>
    <3> SUFFICES ASSUME NEW c \in Cells(i) PROVE buf'[c] = <<i, LastPatch(i, k, c)>>
      BY <1>2, <1>7
    <3>1. buf[c] = <<i, LastPatch(i, k - 1, c)>> /\ c \in DOMAIN buf
      BY <1>3, <1>6 DEF InWork
    <3>2. LastPatch(i, k, c) = IF c \in Patches(i, k) THEN k ELSE LastPatch(i, k - 1, c)
      BY <1>2, LastPatchFacts
    <3> QED
      BY <1>1, <3>1, <3>2
  <2>3. \A m \in 1 .. s - 1 : work.relocs[x][m].effect # "fail"
    BY <1>1, <1>2, <1>3, <1>7 DEF InWork
  <2>4. s <= Len(work.relocs[x]) + 1
    BY <1>2, <1>7
  <2>5. x \in copied' \ finished' /\ x <= job'[t].last
    BY <1>1, <1>4, <1>7, <2>1
  <2> QED
    BY <1>1, <2>2, <2>3, <2>4, <2>5, InWorkNext
<1>8. PICK x, W, v, s : x = i /\ W = Patches(i, k) /\ v = <<i, k>> /\ s = k + 1
  OBVIOUS
<1>9. /\ x = job[t].item /\ InItem(t) /\ x \notin finished
      /\ s \in Nat \ {0} /\ W \subseteq Cells(x)
      /\ job' = [job EXCEPT ![t].step = s]
      /\ buf' = [c \in DOMAIN buf |-> IF c \in W THEN v ELSE buf[c]]
      /\ copied' = copied \cup {x}
      /\ UNCHANGED <<work, pc, checking, pool, finished, error_slot, result>>
  BY <1>1, <1>2, <1>4, <1>5, <1>8
<1>10. InWork(t, x, s)'
  BY <1>7, <1>8
<1> HIDE DEF i, k
<1>11. Checked' /\ Begun' /\ Once' /\ Patching' /\ Blank' /\ Accounted'
  BY <1>9, <1>10, WriteItemFullInv
<1> QED
  BY <1>4, <1>5, <1>11 DEF i, k

LEMMA NextFullInv == FullInv /\ [Next]_vars => FullInv'
<1> SUFFICES ASSUME FullInv, [Next]_vars
             PROVE  Checked' /\ Begun' /\ Once' /\ Patching' /\ Blank' /\ Accounted'
  BY NextInv DEF FullInv
<1>1. CASE FromParts
  BY <1>1, FromPartsFullInv
<1>2. CASE RejectRange
  BY <1>2, EndFullInv DEF RejectRange
<1>3. CASE SortRanges
  BY <1>3, EndFullInv DEF SortRanges
<1>4. CASE Dispatch
  BY <1>4, DispatchFullInv
<1>5. ASSUME NEW i \in Items, CheckRange(i)
      PROVE  Checked' /\ Begun' /\ Once' /\ Patching' /\ Blank' /\ Accounted'
  BY <1>5, CheckRangeFullInv
<1>6. ASSUME NEW i \in Items, RejectOverlap(i)
      PROVE  Checked' /\ Begun' /\ Once' /\ Patching' /\ Blank' /\ Accounted'
  BY <1>6, EndFullInv DEF RejectOverlap
<1>7. CASE Return
  BY <1>7, EndFullInv DEF Return
<1>8. CASE UNCHANGED vars
  <2>1. UNCHANGED <<work, pc, checking, writing, result>>
    BY <1>8 DEF vars
  <2>2. Checked'
    BY <2>1, ThreadsCheckNothing
  <2>3. Begun' /\ Once' /\ Accounted'
    BY <2>1, WorkKept DEF FullInv, Begun, Once, Accounted, InBatch, Left, checking, writing
  <2>4. Patching' /\ Blank'
    BY <2>1, WorkKept DEF FullInv, Patching, InWork, Blank, writing
  <2> QED
    BY <2>2, <2>3, <2>4
<1>9. ASSUME NEW t \in Workers, Worker(t)
      PROVE  Checked' /\ Begun' /\ Once' /\ Patching' /\ Blank' /\ Accounted'
  BY <1>9, TakeBatchFullInv, PassItemFullInv, CopySectionFullInv, ApplyRelocFullInv,
     FinishItemFullInv, FailItemFullInv, EndBatchFullInv DEF Worker
<1> QED
  BY <1>1, <1>2, <1>3, <1>4, <1>5, <1>6, <1>7, <1>8, <1>9 DEF Next, Check, Done

Labels ==
  pc \in {"ranges", "overlaps", "dispatch", "done"} /\ result \in {"pending", "ok", "error"}

(* Every variable of copy_input_sections keeps its type: items that are    *)
(* accepted, seen, copied or finished are items of the list, and the one   *)
(* in the error slot is.                                                   *)
THEOREM TypeCorrect == Spec => []TypeOK
<1>1. Init => Labels
  BY DEF Init, Labels
<1>2. Labels /\ [Next]_vars => Labels'
  BY DEF Labels, Next, Check, Done, vars, Worker, FromParts, RejectRange, SortRanges,
         CheckRange, RejectOverlap, Dispatch, Return, TakeBatch, PassItem, CopySection,
         ApplyReloc, FinishItem, FailItem, EndBatch
<1>3. FullInv /\ Labels => TypeOK
  <2> SUFFICES ASSUME FullInv, Labels PROVE TypeOK
    OBVIOUS
  <2>1. at \in Nat \ {0} /\ error_slot \in Items \cup {0}
    BY DEF FullInv, Inv, Types, Checked, Begun
  <2>2. job \in [Workers -> [item : Nat, last : Nat, step : Nat]]
    BY DEF FullInv, Inv, Types, Job
  <2> QED
    BY <2>1, <2>2 DEF FullInv, Inv, Types, Begun, TypeOK, Labels
<1> QED
  BY <1>1, <1>2, <1>3, InitFullInv, NextFullInv, PTL DEF Spec
-----------------------------------------------------------------------------
(* SectionWrites speaks of the same items.                                 *)
LEMMA SameItems ==
  /\ Atomic!Items = Items /\ Atomic!Defective = Defective
  /\ \A i : Atomic!Cells(i) = Cells(i) /\ Atomic!Sound(i) = Sound(i)
  /\ \A i, c : Atomic!Relocated(i, c) = Relocated(i, c)
<1>1. Atomic!Items = Items /\ \A i : Atomic!Cells(i) = Cells(i)
  BY DEF Atomic!Items, Items, Atomic!Cells, Cells, Atomic!End, End
<1>2. \A r : Atomic!Start(r) = Start(r)
  BY DEF Atomic!Start, Start, Atomic!Prefix, Prefix
<1>3. Atomic!Traced = Traced
  BY DEF Atomic!Traced, Traced, Atomic!Wide, Wide, Atomic!Word, Word
<1>4. \A x : Atomic!Width(x) = Width(x)
  BY DEF Atomic!Width, Width, Atomic!Wide, Wide, Atomic!Word, Word
<1>5. \A i : Atomic!Sound(i) = Sound(i)
  <2>1. \A i, r : Atomic!Contained(i, r) = Contained(i, r)
    BY <1>2, <1>3, <1>4 DEF Atomic!Contained, Contained
  <2>2. \A i : Atomic!Fits(i) = Fits(i)
    BY DEF Atomic!Fits, Fits, Atomic!End, End
  <2> QED
    BY <2>1, <2>2 DEF Atomic!Sound, Sound
<1>6. Atomic!Defective = Defective
  BY <1>1, <1>5 DEF Atomic!Defective, Defective, Atomic!Clash, Clash
<1>7. \A i, c : Atomic!Relocated(i, c) = Relocated(i, c)
  <2>1. \A i, k : Atomic!Patches(i, k) = Patches(i, k)
    BY <1>2, <1>3, <1>4 DEF Atomic!Patches, Patches
  <2>2. ASSUME NEW i, NEW k, NEW c PROVE Atomic!LastPatch(i, k, c) = LastPatch(i, k, c)
    <3>1. {j \in 1..k : c \in Atomic!Patches(i, j)} = {j \in 1..k : c \in Patches(i, j)}
      BY <2>1
    <3> DEFINE L(S) == IF S = {} THEN 0 ELSE CHOOSE j \in S : \A m \in S : m <= j
    <3>2. Atomic!LastPatch(i, k, c) = L({j \in 1..k : c \in Atomic!Patches(i, j)})
      BY DEF Atomic!LastPatch
    <3>3. LastPatch(i, k, c) = L({j \in 1..k : c \in Patches(i, j)})
      BY DEF LastPatch
    <3> HIDE DEF L
    <3> QED
      BY <3>1, <3>2, <3>3
  <2> QED
    BY <2>2 DEF Atomic!Relocated, Relocated
<1> QED
  BY <1>1, <1>5, <1>6, <1>7

LEMMA ImageKept ==
  ASSUME UNCHANGED <<work, buf, copied, finished>>
  PROVE  Image' = Image
BY WorkKept DEF Image

(* A copy shows in nothing: the bytes were blank, and now belong to an     *)
(* item in work.                                                           *)
LEMMA CopyHidden ==
  ASSUME FullInv, NEW t \in Workers, CopySection(t)
  PROVE  Image' = Image
<1> DEFINE i == job[t].item
<1>1. /\ pc = "dispatch" /\ i \in accepted /\ i \notin copied
      /\ buf' = [c \in DOMAIN buf |-> IF c \in Cells(i) THEN <<i, 0>> ELSE buf[c]]
      /\ copied' = copied \cup {i} /\ finished' = finished /\ work' = work
  BY CopySectionFullInv DEF CopySection, InItem, Busy, Item
<1>2. i \notin finished /\ copied \subseteq accepted
  BY <1>1 DEF FullInv, Begun
<1>3. ASSUME NEW c \in DOMAIN buf, c \in Cells(i) PROVE buf[c] = <<0, 0>>
  <2>1. \A j \in copied : c \notin Cells(j)
    BY <1>1, <1>2, <1>3, CellsDisjoint DEF FullInv
  <2> QED
    BY <2>1 DEF FullInv, Blank
<1>4. DOMAIN buf' = DOMAIN buf
  BY <1>1
<1>5. copied' \ finished' = (copied \ finished) \cup {i}
  BY <1>1, <1>2
<1>6. Image' = [c \in DOMAIN buf |->
         IF \E j \in (copied \ finished) \cup {i} : c \in Cells(j) THEN <<0, 0>> ELSE buf'[c]]
  BY <1>1, <1>4, <1>5, WorkKept DEF Image
<1> HIDE DEF i
<1>7. ASSUME NEW c \in DOMAIN buf
      PROVE  (IF \E j \in (copied \ finished) \cup {i} : c \in Cells(j) THEN <<0, 0>> ELSE buf'[c])
             = (IF \E j \in copied \ finished : c \in Cells(j) THEN <<0, 0>> ELSE buf[c])
  BY <1>1, <1>3
<1> QED
  BY <1>6, <1>7 DEF Image

(* Nor does a patch.                                                       *)
LEMMA PatchHidden ==
  ASSUME FullInv, NEW t \in Workers, ApplyReloc(t)
  PROVE  Image' = Image
<1> DEFINE i == job[t].item
           W == Patches(job[t].item, job[t].step)
<1>1. /\ i \in copied \ finished /\ W \subseteq Cells(i)
      /\ buf' = [c \in DOMAIN buf |-> IF c \in W THEN <<i, job[t].step>> ELSE buf[c]]
      /\ copied' = copied /\ finished' = finished /\ work' = work
  BY ApplyRelocFullInv DEF ApplyReloc, Item
<1>2. DOMAIN buf' = DOMAIN buf
  BY <1>1
<1>3. Image' = [c \in DOMAIN buf |->
         IF \E j \in copied \ finished : c \in Cells(j) THEN <<0, 0>> ELSE buf'[c]]
  BY <1>1, <1>2, WorkKept DEF Image
<1> HIDE DEF i, W
<1>4. \A c \in DOMAIN buf : c \notin Cells(i) => buf'[c] = buf[c]
  BY <1>1
<1> QED
  BY <1>1, <1>3, <1>4 DEF Image

(* When an item is finished its bytes appear, all at once.                 *)
LEMMA FinishWrites ==
  ASSUME FullInv, NEW t \in Workers, FinishItem(t)
  PROVE  Atomic!Next
<1>1. PICK i : i = job[t].item
  OBVIOUS
<1>2. /\ i \in accepted /\ i \in copied \ finished /\ Sound(i)
      /\ \A c \in Cells(i) : buf[c] = Relocated(i, c)
  BY <1>1, FinishedSound
<1>3. /\ pc = "dispatch" /\ finished' = finished \cup {i}
      /\ UNCHANGED <<work, buf, copied, result>>
  BY <1>1 DEF FinishItem, InItem, Busy, Item
<1>4. i \in Items /\ work.len[i] > 0 /\ result = "pending"
  BY <1>2, <1>3, AcceptedFacts DEF FullInv, Checked
<1>5. copied' \ finished' = (copied \ finished) \ {i}
  BY <1>3
<1>6. ASSUME NEW c \in DOMAIN buf, c \in Cells(i)
      PROVE  ~\E j \in (copied \ finished) \ {i} : c \in Cells(j)
  BY <1>2, <1>3, <1>6, CellsDisjoint DEF FullInv, Begun
<1>7. Image' = [c \in DOMAIN buf |->
         IF \E j \in (copied \ finished) \ {i} : c \in Cells(j) THEN <<0, 0>> ELSE buf[c]]
  BY <1>3, <1>5, WorkKept DEF Image
<1>8. DOMAIN Image = DOMAIN buf
  BY DEF Image
<1>9. ASSUME NEW c \in DOMAIN buf
      PROVE  (IF \E j \in (copied \ finished) \ {i} : c \in Cells(j) THEN <<0, 0>> ELSE buf[c])
             = (IF c \in Cells(i) THEN Relocated(i, c) ELSE Image[c])
  BY <1>2, <1>6 DEF Image
<1>10. Image' = [c \in DOMAIN Image |-> IF c \in Cells(i) THEN Relocated(i, c) ELSE Image[c]]
  BY <1>7, <1>8, <1>9
<1>11. Atomic!WriteSection(i)
  BY <1>2, <1>3, <1>4, <1>10, SameItems DEF Atomic!WriteSection
<1> QED
  BY <1>4, <1>11, SameItems DEF Atomic!Next

(* A refused range is a defect: it does not fit, or the one before it in   *)
(* the sort order reaches into it.                                         *)
LEMMA RejectRangeRefuses ==
  ASSUME FullInv, RejectRange
  PROVE  Atomic!Refuse
<1>1. at \in Items /\ work.len[at] > 0 /\ ~RangeOk(at) /\ result = "pending"
  BY DEF FullInv, Checked, RejectRange
<1>2. ~Sound(at)
  BY <1>1 DEF Sound, RangeOk
<1>3. Defective
  BY <1>1, <1>2 DEF Defective
<1>4. Image' = Image
  BY ImageKept DEF RejectRange, writing
<1> QED
  BY <1>1, <1>3, <1>4, SameItems DEF Atomic!Refuse, RejectRange, writing

LEMMA RejectOverlapRefuses ==
  ASSUME FullInv, NEW i \in Items, RejectOverlap(i)
  PROVE  Atomic!Refuse
<1>1. /\ pc = "overlaps" /\ result = "pending" /\ i \in accepted \ seen
      /\ previous # 0 /\ work.off[i] < End(previous)
  BY DEF FullInv, Checked, RejectOverlap, IsNext, Overlaps
<1>2. previous \in seen /\ previous \in accepted /\ previous # i
  BY <1>1 DEF FullInv, Inv, Types
<1>3. Before(previous, i)
  BY <1>1 DEF FullInv, Checked
<1>4. previous \in Items /\ work.len[i] > 0
  BY <1>1, <1>2, AcceptedFacts DEF FullInv
<1>5. /\ work.off[i] \in Nat /\ work.len[i] \in Nat /\ End(i) \in Nat
      /\ work.off[previous] \in Nat /\ End(previous) \in Nat
  BY <1>4, ItemTypes DEF FullInv, Inv, Types
<1>6. work.off[i] \in Cells(i) /\ work.off[i] \in Cells(previous)
  BY <1>1, <1>3, <1>4, <1>5 DEF Before, Cells, End
<1>7. Defective
  BY <1>2, <1>4, <1>6 DEF Defective, Clash
<1>8. Image' = Image
  BY ImageKept DEF RejectOverlap, writing
<1> QED
  BY <1>1, <1>7, <1>8, SameItems DEF Atomic!Refuse, RejectOverlap, writing

(* Ok is returned when everything is in the output, an error when an item  *)
(* failed.                                                                 *)
LEMMA ReturnEnds ==
  ASSUME FullInv, Return
  PROVE  Atomic!Next
<1>1. /\ pc = "dispatch" /\ pool = {} /\ \A t \in Workers : job[t] = NoJob
      /\ result = "pending" /\ result' = IF error_slot = 0 THEN "ok" ELSE "error"
      /\ UNCHANGED <<work, buf, copied, finished>>
  BY DEF FullInv, Checked, Return, writing
<1>2. Image' = Image
  BY <1>1, ImageKept
<1>3. CASE error_slot # 0
  <2>1. Defective
    BY <1>3 DEF FullInv, Begun, Defective
  <2>2. Atomic!Refuse
    BY <1>1, <1>2, <1>3, <2>1, SameItems DEF Atomic!Refuse
  <2> QED
    BY <2>2 DEF Atomic!Next
<1>4. CASE error_slot = 0
  <2>1. \A i \in accepted : i \in finished
    BY <1>1, <1>4 DEF FullInv, Accounted, Left
  <2>2. \A i \in Items : work.len[i] > 0 <=> i \in accepted
    <3>1. work.n \in Nat /\ at \in Nat /\ at > work.n
      BY <1>1, ItemTypes DEF FullInv, Inv, Types, Checked
    <3>2. \A i \in Items : i < at
      BY <3>1 DEF Items
    <3> QED
      BY <3>2, AcceptedFacts DEF FullInv, Checked
  <2>3. finished = {i \in Items : work.len[i] > 0}
    BY <2>1, <2>2 DEF FullInv, Inv, Types, Begun
  <2>4. \A i \in Items : work.off[i] \in Nat /\ work.len[i] \in Nat
    BY ItemTypes DEF FullInv, Inv, Types
  <2>5. \A i \in Items : Sound(i)
    BY <2>1, <2>2 DEF FullInv, Begun, Sound
  <2>6. \A i \in Items : ~(work.len[i] > 0) => Cells(i) = {}
    BY <2>4 DEF Cells, End
  <2>7. \A i, j \in Items : ~Clash(i, j)
    BY <1>1, <2>2, <2>6, CellsDisjoint DEF FullInv, Clash
  <2>8. ~Defective
    BY <2>5, <2>7 DEF Defective
  <2>9. Atomic!Accept
    BY <1>1, <1>2, <1>4, <2>3, <2>8, SameItems DEF Atomic!Accept
  <2> QED
    BY <2>9 DEF Atomic!Next
<1> QED
  BY <1>3, <1>4

(* The threads that copy and relocate sections piece by piece, without a   *)
(* lock, implement SectionWrites: for any list of work items, any number   *)
(* of threads and any batch size, each section appears as if written at    *)
(* once, and copy_input_sections returns Ok exactly when every section is  *)
(* in the output and an error exactly when an item is defective.           *)
THEOREM WritesAreAtomic == Spec => WritesAtomically
<1>1. Init => Atomic!Init
  <2> SUFFICES ASSUME Init PROVE Atomic!Init
    OBVIOUS
  <2>1. Image = [c \in 0 .. work.buf_len - 1 |-> <<0, 0>>]
    <3>1. DOMAIN buf = 0 .. work.buf_len - 1 /\ \A c \in DOMAIN buf : buf[c] = <<0, 0>>
      BY DEF Init
    <3> QED
      BY <3>1 DEF Image
  <2> QED
    BY <2>1 DEF Init, Atomic!Init
<1>2. ASSUME FullInv, [Next]_vars PROVE [Atomic!Next]_(Atomic!vars)
  <2>1. ASSUME UNCHANGED <<work, buf, copied, finished, result>>
        PROVE  UNCHANGED Atomic!vars
    BY <2>1, ImageKept DEF Atomic!vars
  <2>2. CASE FromParts \/ SortRanges \/ Dispatch
    BY <2>1, <2>2 DEF FromParts, SortRanges, Dispatch, writing
  <2>3. CASE RejectRange
    BY <1>2, <2>3, RejectRangeRefuses DEF Atomic!Next
  <2>4. ASSUME NEW i \in Items, CheckRange(i) PROVE UNCHANGED Atomic!vars
    BY <2>1, <2>4 DEF CheckRange, writing
  <2>5. ASSUME NEW i \in Items, RejectOverlap(i) PROVE Atomic!Next
    BY <1>2, <2>5, RejectOverlapRefuses DEF Atomic!Next
  <2>6. CASE Return
    BY <1>2, <2>6, ReturnEnds
  <2>7. CASE UNCHANGED vars
    BY <2>1, <2>7 DEF vars, writing
  <2>8. ASSUME NEW t \in Workers, Worker(t) PROVE [Atomic!Next]_(Atomic!vars)
    <3>1. CASE TakeBatch(t) \/ PassItem(t) \/ FailItem(t) \/ EndBatch(t)
      BY <2>1, <3>1 DEF TakeBatch, PassItem, FailItem, EndBatch
    <3>2. CASE CopySection(t)
      BY <1>2, <3>2, CopyHidden DEF CopySection, Atomic!vars
    <3>3. CASE ApplyReloc(t)
      BY <1>2, <3>3, PatchHidden DEF ApplyReloc, Atomic!vars
    <3>4. CASE FinishItem(t)
      BY <1>2, <3>4, FinishWrites
    <3> QED
      BY <2>8, <3>1, <3>2, <3>3, <3>4 DEF Worker
  <2> QED
    BY <1>2, <2>2, <2>3, <2>4, <2>5, <2>6, <2>7, <2>8 DEF Next, Check, Done
<1> QED
  BY <1>1, <1>2, InitFullInv, NextFullInv, PTL DEF Spec, WritesAtomically, Atomic!Spec
=============================================================================
