----------------------------- MODULE RelocIndex -----------------------------
(***************************************************************************)
(* The relocation reverse index of peony-cache (RelocReverseIndex): for    *)
(* every symbol a linked list of the relocations that mention it, threaded *)
(* through two flat arrays of atomics.  insert is lock free: read the head,*)
(* write it into the slot of the new entry, compare-and-exchange the head. *)
(* Any number of threads insert while another one walks a chain.           *)
(*                                                                         *)
(* The atomics are modelled as sequentially consistent.  The code's orders *)
(* (Relaxed loads, a Release exchange, Acquire loads in the iterator) give *)
(* a reader nothing less: every write of a head after the first is a read- *)
(* modify-write, so all insertions of a symbol lie in one release sequence *)
(* and an Acquire load of the head synchronises with each of them.         *)
(***************************************************************************)
EXTENDS Naturals, Sequences

CONSTANTS SymbolIds,  \* the symbol ids a caller may pass
          RelocIds,   \* the relocation ids a caller may pass
          Symbols,    \* the ids below heads.len()
          Relocs,     \* the ids below nexts.len()
          SymOf,      \* the symbol each relocation is inserted under
          Threads,
          NO_ENTRY

ASSUME IndexAssumption ==
  /\ Symbols \subseteq SymbolIds
  /\ Relocs \subseteq RelocIds
  /\ SymOf \in [RelocIds -> SymbolIds]
  /\ NO_ENTRY \notin RelocIds

VARIABLES
  heads,      \* heads[s]: first entry of the chain of s
  nexts,      \* nexts[r]: entry after r in its chain
  todo,       \* relocation ids no thread has begun to insert
  pc,         \* where each thread is inside insert
  cur,        \* the relocation each thread is inserting
  oldHead,    \* the head each thread last read
  lists,      \* history: the relocations linked so far, newest first
  iter        \* one running RelocChainIter

vars == <<heads, nexts, todo, pc, cur, oldHead, lists, iter>>

Entry == Relocs \cup {NO_ENTRY}

(* The iterator that is not running.                                       *)
NoIter == [on |-> FALSE, current |-> NO_ENTRY, seen |-> << >>, snap |-> << >>]

(* RelocReverseIndex::new.                                                 *)
Init ==
  /\ heads = [s \in Symbols |-> NO_ENTRY]
  /\ nexts = [r \in Relocs |-> NO_ENTRY]
  /\ todo = RelocIds
  /\ pc = [t \in Threads |-> "idle"]
  /\ cur = [t \in Threads |-> NO_ENTRY]
  /\ oldHead = [t \in Threads |-> NO_ENTRY]
  /\ lists = [s \in Symbols |-> << >>]
  /\ iter = NoIter

(* A call of insert for a relocation nobody has inserted; the bounds test  *)
(* comes first and an id outside either array returns at once.             *)
InRange(r) == SymOf[r] \in Symbols /\ r \in Relocs

(* Bug: the caller numbers two relocations alike and inserts an id twice.  *)
EnterTwice(t) ==
  /\ pc[t] = "idle"
  /\ \E r \in todo :
       /\ InRange(r)
       /\ pc' = [pc EXCEPT ![t] = "load"]
       /\ cur' = [cur EXCEPT ![t] = r]
  /\ UNCHANGED <<heads, nexts, todo, oldHead, lists, iter>>

Enter(t) ==
  /\ pc[t] = "idle"
  /\ \E r \in todo :
       /\ todo' = todo \ {r}
       /\ \/ /\ ~InRange(r)
             /\ UNCHANGED <<pc, cur>>
          \/ /\ InRange(r)
             /\ pc' = [pc EXCEPT ![t] = "load"]
             /\ cur' = [cur EXCEPT ![t] = r]
  /\ UNCHANGED <<heads, nexts, oldHead, lists, iter>>

LoadHead(t) ==
  /\ pc[t] = "load"
  /\ oldHead' = [oldHead EXCEPT ![t] = heads[SymOf[cur[t]]]]
  /\ pc' = [pc EXCEPT ![t] = "store"]
  /\ UNCHANGED <<heads, nexts, todo, cur, lists, iter>>

(* Bug: the new entry is hung behind the old head instead of before it.    *)
StoreNextBehind(t) ==
  /\ pc[t] = "store"
  /\ nexts' = IF oldHead[t] = NO_ENTRY THEN nexts
              ELSE [nexts EXCEPT ![oldHead[t]] = cur[t]]
  /\ pc' = [pc EXCEPT ![t] = "cas"]
  /\ UNCHANGED <<heads, todo, cur, oldHead, lists, iter>>

StoreNext(t) ==
  /\ pc[t] = "store"
  /\ nexts' = [nexts EXCEPT ![cur[t]] = oldHead[t]]
  /\ pc' = [pc EXCEPT ![t] = "cas"]
  /\ UNCHANGED <<heads, todo, cur, oldHead, lists, iter>>

(* Bug: the head is replaced whatever it holds by now.                     *)
CompareExchangeBlind(t) ==
  /\ pc[t] = "cas"
  /\ LET s == SymOf[cur[t]] IN
       /\ heads' = [heads EXCEPT ![s] = cur[t]]
       /\ lists' = [lists EXCEPT ![s] = <<cur[t]>> \o @]
       /\ pc' = [pc EXCEPT ![t] = "idle"]
  /\ UNCHANGED <<nexts, todo, cur, oldHead, iter>>

(* Bug: a failed exchange leaves the loop, or goes round without reading.  *)
CompareExchangeGivesUp(t) ==
  /\ pc[t] = "cas"
  /\ LET s == SymOf[cur[t]] IN
       \/ /\ heads[s] = oldHead[t]
          /\ heads' = [heads EXCEPT ![s] = cur[t]]
          /\ lists' = [lists EXCEPT ![s] = <<cur[t]>> \o @]
       \/ heads[s] # oldHead[t] /\ UNCHANGED <<heads, lists>>
  /\ pc' = [pc EXCEPT ![t] = "idle"]
  /\ UNCHANGED <<nexts, todo, cur, oldHead, iter>>

CompareExchangeNoReload(t) ==
  /\ pc[t] = "cas"
  /\ LET s == SymOf[cur[t]] IN
       \/ /\ heads[s] = oldHead[t]
          /\ heads' = [heads EXCEPT ![s] = cur[t]]
          /\ lists' = [lists EXCEPT ![s] = <<cur[t]>> \o @]
          /\ pc' = [pc EXCEPT ![t] = "idle"]
       \/ /\ heads[s] # oldHead[t]
          /\ pc' = [pc EXCEPT ![t] = "store"]
          /\ UNCHANGED <<heads, lists>>
  /\ UNCHANGED <<nexts, todo, cur, oldHead, iter>>

(* compare_exchange: on success insert returns, on failure the loop goes   *)
(* round with a fresh read of the head.                                    *)
CompareExchange(t) ==
  /\ pc[t] = "cas"
  /\ LET s == SymOf[cur[t]] IN
       \/ /\ heads[s] = oldHead[t]
          /\ heads' = [heads EXCEPT ![s] = cur[t]]
          /\ lists' = [lists EXCEPT ![s] = <<cur[t]>> \o @]
          /\ pc' = [pc EXCEPT ![t] = "idle"]
       \/ /\ heads[s] # oldHead[t]
          /\ pc' = [pc EXCEPT ![t] = "load"]
          /\ UNCHANGED <<heads, lists>>
  /\ UNCHANGED <<nexts, todo, cur, oldHead, iter>>

(* iter_relocs reads the head once; a symbol out of range has no chain.    *)
IterRelocs(s) ==
  /\ ~iter.on
  /\ iter' = [on |-> TRUE,
              current |-> IF s \in Symbols THEN heads[s] ELSE NO_ENTRY,
              seen |-> << >>,
              snap |-> IF s \in Symbols THEN lists[s] ELSE << >>]
  /\ UNCHANGED <<heads, nexts, todo, pc, cur, oldHead, lists>>

(* RelocChainIter::next yields the current entry and follows its slot.     *)
IterNext ==
  /\ iter.on
  /\ iter.current # NO_ENTRY
  /\ iter' = [iter EXCEPT !.seen = Append(@, iter.current),
                          !.current = nexts[iter.current]]
  /\ UNCHANGED <<heads, nexts, todo, pc, cur, oldHead, lists>>

(* next returns None and the caller drops the iterator.                    *)
IterEnd ==
  /\ iter.on
  /\ iter.current = NO_ENTRY
  /\ iter' = NoIter
  /\ UNCHANGED <<heads, nexts, todo, pc, cur, oldHead, lists>>

InsertStep(t) ==
  Enter(t) \/ LoadHead(t) \/ StoreNext(t) \/ CompareExchange(t)

IterStep == IterNext \/ IterEnd

Next ==
  \/ \E t \in Threads : InsertStep(t)
  \/ \E s \in SymbolIds : IterRelocs(s)
  \/ IterStep

Spec == Init /\ [][Next]_vars

(* Threads and the walking caller are scheduled by the operating system,   *)
(* which lets each of them run: weak fairness of each one's own steps.     *)
FairSpec ==
  Spec /\ (\A t \in Threads : WF_vars(InsertStep(t))) /\ WF_vars(IterStep)
-----------------------------------------------------------------------------
(* Type invariant.                                                         *)
TypeOK ==
  /\ heads \in [Symbols -> Entry]
  /\ nexts \in [Relocs -> Entry]
  /\ todo \subseteq RelocIds
  /\ pc \in [Threads -> {"idle", "load", "store", "cas"}]
  /\ cur \in [Threads -> Entry]
  /\ oldHead \in [Threads -> Entry]
  /\ lists \in [Symbols -> Seq(Relocs)]
  /\ iter \in [on : BOOLEAN, current : Entry, seen : Seq(Relocs), snap : Seq(Relocs)]

Linked(s) == {lists[s][i] : i \in 1..Len(lists[s])}

AllLinked == UNION {Linked(s) : s \in Symbols}

(* The two arrays hold exactly the lists: following heads[s] through nexts *)
(* visits every relocation whose insert has returned, newest first, each   *)
(* once, and ends; no entry is lost to a racing insert and no chain runs   *)
(* into another symbol's (RelocReverseIndex::insert, iter_relocs).         *)
ChainsAreLists ==
  \A s \in Symbols :
    /\ heads[s] = IF lists[s] = << >> THEN NO_ENTRY ELSE lists[s][1]
    /\ \A i \in 1..Len(lists[s]) :
         nexts[lists[s][i]] = IF i = Len(lists[s]) THEN NO_ENTRY
                                                   ELSE lists[s][i + 1]

(* Every relocation is in its own symbol's list and in it once, and a      *)
(* relocation some thread is still inserting is in no list.                *)
ListedOnce ==
  /\ \A s \in Symbols : \A i \in 1..Len(lists[s]) :
       /\ SymOf[lists[s][i]] = s
       /\ lists[s][i] \notin todo
       /\ \A j \in 1..Len(lists[s]) : lists[s][i] = lists[s][j] => i = j
  /\ \A t \in Threads : pc[t] # "idle" =>
       /\ cur[t] \in Relocs /\ InRange(cur[t]) /\ cur[t] \notin todo
       /\ cur[t] \notin Linked(SymOf[cur[t]])
       /\ \A u \in Threads \ {t} : pc[u] # "idle" => cur[u] # cur[t]

(* Once every insert has returned nothing is missing: the lists hold every *)
(* relocation whose ids are in range (the parallel test of the index).     *)
NothingLost ==
  (todo = {} /\ \A t \in Threads : pc[t] = "idle")
    => AllLinked = {r \in RelocIds : InRange(r)}

(* A walk that runs while inserts go on yields the chain as it was when    *)
(* iter_relocs read the head: no entry twice, none skipped.                *)
WalkIsSnapshot ==
  iter.on =>
    /\ Len(iter.seen) <= Len(iter.snap)
    /\ iter.seen = SubSeq(iter.snap, 1, Len(iter.seen))
    /\ iter.current = IF Len(iter.seen) = Len(iter.snap)
                        THEN NO_ENTRY ELSE iter.snap[Len(iter.seen) + 1]

(* A slot whose relocation is linked is never written again: a failed      *)
(* exchange and its retry touch only the inserter's own slot.              *)
LinkedSlotsFrozen ==
  [][\A r \in AllLinked : nexts'[r] = nexts[r]]_vars

(* The arrays implement one atomic list per symbol.                        *)
Abstract == INSTANCE RelocLists WITH Symbols <- Symbols, Relocs <- Relocs, lists <- lists
ImplementsLists == Abstract!Spec

(* insert is lock free: with finitely many insertions to make, every       *)
(* thread gets out of its retry loop.                                      *)
InsertsReturn == <>[](todo = {} /\ \A t \in Threads : pc[t] = "idle")
=============================================================================
