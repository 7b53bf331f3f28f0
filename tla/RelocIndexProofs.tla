-------------------------- MODULE RelocIndexProofs --------------------------
(***************************************************************************)
(* Proofs about RelocIndex, for any number of threads, symbols and         *)
(* relocations: no insertion is lost, a walk sees a snapshot, and the two  *)
(* arrays implement RelocLists.                                            *)
(***************************************************************************)
EXTENDS RelocIndex, TLAPS

(* An inserter about to exchange the head has filled its own slot with the *)
(* head it read, and nobody else writes that slot.                         *)
SlotReady ==
  \A t \in Threads : pc[t] = "cas" => nexts[cur[t]] = oldHead[t]

(* Every relocation in range waits, is being inserted, or is linked.       *)
Accounted ==
  \A r \in RelocIds : InRange(r) =>
    \/ r \in todo
    \/ \E t \in Threads : pc[t] # "idle" /\ cur[t] = r
    \/ r \in Linked(SymOf[r])

(* The entries of the walker's snapshot are linked, and chained in its     *)
(* order.                                                                  *)
SnapChained ==
  \A i \in 1..Len(iter.snap) :
    /\ InRange(iter.snap[i])
    /\ iter.snap[i] \in Linked(SymOf[iter.snap[i]])
    /\ nexts[iter.snap[i]] = IF i = Len(iter.snap) THEN NO_ENTRY ELSE iter.snap[i + 1]

Entries(q) == {q[i] : i \in 1..Len(q)}

Core == TypeOK /\ ChainsAreLists /\ ListedOnce /\ SlotReady

Inv == Core /\ Accounted /\ SnapChained /\ WalkIsSnapshot

(* Putting one entry in front of a list shifts the others by one.          *)
LEMMA ConsFacts ==
  ASSUME NEW S, NEW q \in Seq(S), NEW c \in S
  PROVE  /\ <<c>> \o q \in Seq(S)
         /\ Len(<<c>> \o q) = Len(q) + 1
         /\ Len(q) \in Nat
         /\ (<<c>> \o q)[1] = c
         /\ \A i \in 1..Len(q) : (<<c>> \o q)[i + 1] = q[i]
         /\ \A i \in 2..(Len(q) + 1) : (<<c>> \o q)[i] = q[i - 1]
OBVIOUS

(* List entries are relocations, and one being inserted is none of them.   *)
LEMMA NotListed ==
  ASSUME TypeOK, ListedOnce
  PROVE  /\ \A s \in Symbols : \A i \in 1..Len(lists[s]) : lists[s][i] \in Relocs
         /\ \A t \in Threads : pc[t] # "idle" =>
              \A s \in Symbols : \A i \in 1..Len(lists[s]) : lists[s][i] # cur[t]
<1>1. \A s \in Symbols : \A i \in 1..Len(lists[s]) : lists[s][i] \in Relocs
  BY DEF TypeOK
<1>2. ASSUME NEW t \in Threads, pc[t] # "idle", NEW s \in Symbols,
             NEW i \in 1..Len(lists[s]), lists[s][i] = cur[t]
      PROVE  FALSE
  <2>1. SymOf[cur[t]] = s
    BY <1>2 DEF ListedOnce
  <2>2. cur[t] \in Linked(s)
    BY <1>2 DEF Linked
  <2> QED
    BY <1>2, <2>1, <2>2 DEF ListedOnce
<1> QED
  BY <1>1, <1>2

(* A step that keeps the pool, the lists, what each thread inserts and     *)
(* whether it is inserting keeps every relocation accounted for.           *)
LEMMA SameAccount ==
  ASSUME Accounted, TypeOK, UNCHANGED <<todo, cur, lists>>,
         \A t \in Threads : pc[t] # "idle" => pc'[t] # "idle"
  PROVE  Accounted'
BY DEF Accounted, Linked, InRange

(* Entering insert takes one relocation off the pool and touches no array. *)
LEMMA EnterInv ==
  ASSUME Inv, NEW t \in Threads, Enter(t)
  PROVE  Inv'
<1> USE IndexAssumption DEF Inv, Core, Enter
<1>1. PICK r \in todo :
        /\ todo' = todo \ {r}
        /\ \/ ~InRange(r) /\ UNCHANGED <<pc, cur>>
           \/ /\ InRange(r)
              /\ pc' = [pc EXCEPT ![t] = "load"]
              /\ cur' = [cur EXCEPT ![t] = r]
  OBVIOUS
<1>2. TypeOK'
  <2>1. CASE ~InRange(r)
    BY <1>1, <2>1 DEF TypeOK
  <2>2. CASE InRange(r)
    <3>1. r \in Entry
      BY <2>2 DEF InRange, Entry
    <3>2. pc' \in [Threads -> {"idle", "load", "store", "cas"}] /\ cur' \in [Threads -> Entry]
      <4>1. pc' = [pc EXCEPT ![t] = "load"] /\ cur' = [cur EXCEPT ![t] = r]
        BY <1>1, <2>2
      <4> QED
        BY <3>1, <4>1 DEF TypeOK
    <3> QED
      BY <1>1, <3>2 DEF TypeOK
  <2> QED
    BY <2>1, <2>2
<1>3. ChainsAreLists'
  BY DEF ChainsAreLists
<1>4. ListedOnce'
  <2>1. r \in RelocIds /\ r \in todo /\ pc[t] = "idle"
    BY DEF TypeOK
  <2>2. \A s \in Symbols : \A i \in 1..Len(lists[s]) : lists[s][i] # r
    BY <2>1 DEF ListedOnce
  <2>3. CASE ~InRange(r)
    BY <1>1, <2>3 DEF ListedOnce, Linked, InRange
  <2>4. CASE InRange(r)
    <3>1. pc' = [pc EXCEPT ![t] = "load"] /\ cur' = [cur EXCEPT ![t] = r]
      BY <1>1, <2>4
    <3>2. r \notin Linked(SymOf[r])
      BY <2>2, <2>4 DEF Linked, InRange
    <3>3. \A u \in Threads \ {t} : pc'[u] = pc[u] /\ cur'[u] = cur[u]
      BY <3>1 DEF TypeOK
    <3>4. pc'[t] = "load" /\ cur'[t] = r
      BY <3>1 DEF TypeOK
    <3>5. \A u \in Threads : pc[u] # "idle" => cur[u] # r
      BY <2>1 DEF ListedOnce
    <3> QED
      BY <1>1, <2>1, <2>2, <2>4, <3>2, <3>3, <3>4, <3>5 DEF ListedOnce, Linked, InRange
  <2> QED
    BY <2>3, <2>4
<1>5. SlotReady'
  BY <1>1 DEF SlotReady, TypeOK
<1>6. Accounted'
  <2> SUFFICES ASSUME NEW x \in RelocIds, InRange(x)
               PROVE  \/ x \in todo'
                      \/ \E u \in Threads : pc'[u] # "idle" /\ cur'[u] = x
                      \/ x \in Linked(SymOf[x])
    BY DEF Accounted, Linked, InRange
  <2>1. CASE x = r
    <3>1. pc'[t] # "idle" /\ cur'[t] = x
      BY <1>1, <2>1 DEF TypeOK
    <3> QED
      BY <3>1
  <2>2. CASE x # r
    <3>1. \A u \in Threads : pc[u] # "idle" => pc'[u] = pc[u] /\ cur'[u] = cur[u]
      BY <1>1 DEF TypeOK
    <3> QED
      BY <1>1, <2>2, <3>1 DEF Accounted
  <2> QED
    BY <2>1, <2>2
<1>7. SnapChained' /\ WalkIsSnapshot'
  BY DEF SnapChained, WalkIsSnapshot, Linked, InRange
<1> QED
  BY <1>2, <1>3, <1>4, <1>5, <1>6, <1>7

(* Reading the head changes only the reader's own copy of it.              *)
LEMMA LoadHeadInv ==
  ASSUME Inv, NEW t \in Threads, LoadHead(t)
  PROVE  Inv'
<1> USE IndexAssumption DEF Inv, Core, LoadHead
<1>1. cur[t] \in Relocs /\ SymOf[cur[t]] \in Symbols
  BY DEF ListedOnce, InRange
<1>2. TypeOK'
  BY <1>1 DEF TypeOK, Entry
<1>3. ChainsAreLists'
  BY DEF ChainsAreLists
<1>4. ListedOnce'
  BY DEF ListedOnce, Linked, InRange, TypeOK
<1>5. SlotReady'
  BY DEF SlotReady, TypeOK
<1>6. Accounted'
  BY SameAccount DEF TypeOK
<1>7. SnapChained' /\ WalkIsSnapshot'
  BY DEF SnapChained, WalkIsSnapshot, Linked, InRange
<1> QED
  BY <1>2, <1>3, <1>4, <1>5, <1>6, <1>7

(* Writing the slot touches no linked entry, since the relocation being    *)
(* inserted is in no list.                                                 *)
LEMMA StoreNextInv ==
  ASSUME Inv, NEW t \in Threads, StoreNext(t)
  PROVE  Inv'
<1> USE IndexAssumption DEF Inv, Core, StoreNext
<1>1. cur[t] \in Relocs /\ InRange(cur[t])
  BY DEF ListedOnce
<1>2. TypeOK'
  BY <1>1 DEF TypeOK, Entry
<1>3. \A s \in Symbols : \A i \in 1..Len(lists[s]) :
        lists[s][i] \in Relocs /\ lists[s][i] # cur[t]
  BY NotListed
<1>4. \A s \in Symbols : \A i \in 1..Len(lists[s]) :
        nexts'[lists[s][i]] = nexts[lists[s][i]]
  BY <1>3 DEF TypeOK
<1>5. ChainsAreLists'
  BY <1>4 DEF ChainsAreLists
<1>6. ListedOnce'
  BY DEF ListedOnce, Linked, InRange, TypeOK
<1>7. SlotReady'
  <2> SUFFICES ASSUME NEW u \in Threads, pc'[u] = "cas"
               PROVE  nexts'[cur[u]] = oldHead[u]
    BY DEF SlotReady
  <2>1. CASE u = t
    BY <1>1, <2>1 DEF TypeOK
  <2>2. CASE u # t
    <3>1. pc[u] = "cas" /\ cur[u] # cur[t] /\ cur[u] \in Relocs
      BY <2>2 DEF ListedOnce, TypeOK
    <3> QED
      BY <3>1 DEF SlotReady, TypeOK
  <2> QED
    BY <2>1, <2>2
<1>8. Accounted'
  BY SameAccount DEF TypeOK
<1>9. SnapChained'
  <2>1. ASSUME NEW i \in 1..Len(iter.snap)
        PROVE  nexts'[iter.snap[i]] = nexts[iter.snap[i]]
    <3>1. PICK j \in 1..Len(lists[SymOf[iter.snap[i]]]) :
            iter.snap[i] = lists[SymOf[iter.snap[i]]][j]
      BY DEF SnapChained, Linked
    <3>2. SymOf[iter.snap[i]] \in Symbols
      BY DEF SnapChained, InRange
    <3> QED
      BY <1>4, <3>1, <3>2
  <2> QED
    BY <2>1 DEF SnapChained, Linked, InRange
<1>10. WalkIsSnapshot'
  BY DEF WalkIsSnapshot
<1> QED
  BY <1>2, <1>5, <1>6, <1>7, <1>8, <1>9, <1>10

(* A successful exchange puts the relocation in front of its symbol's list;*)
(* a failed one changes nothing but the control point.                     *)
LEMMA CompareExchangeInv ==
  ASSUME Inv, NEW t \in Threads, CompareExchange(t)
  PROVE  Inv'
<1> USE IndexAssumption DEF Inv, Core
<1> DEFINE s == SymOf[cur[t]]
           c == cur[t]
<1>1. c \in Relocs /\ s \in Symbols /\ pc[t] = "cas" /\ InRange(c)
  BY DEF ListedOnce, InRange, CompareExchange
<1>2. CASE heads[s] # oldHead[t]
  <2>1. /\ pc' = [pc EXCEPT ![t] = "load"]
        /\ UNCHANGED <<heads, lists, nexts, todo, cur, oldHead, iter>>
    BY <1>2 DEF CompareExchange
  <2>2. TypeOK'
    BY <2>1 DEF TypeOK
  <2>3. ChainsAreLists'
    BY <2>1 DEF ChainsAreLists
  <2>4. ListedOnce'
    BY <2>1, <1>1 DEF ListedOnce, Linked, InRange, TypeOK
  <2>5. SlotReady'
    BY <2>1 DEF SlotReady, TypeOK
  <2>6. Accounted'
    BY <2>1, SameAccount DEF TypeOK
  <2>7. SnapChained' /\ WalkIsSnapshot'
    BY <2>1 DEF SnapChained, WalkIsSnapshot, Linked, InRange
  <2> QED
    BY <2>2, <2>3, <2>4, <2>5, <2>6, <2>7
<1>3. CASE heads[s] = oldHead[t]
  <2>1. /\ heads' = [heads EXCEPT ![s] = c]
        /\ lists' = [lists EXCEPT ![s] = <<c>> \o @]
        /\ pc' = [pc EXCEPT ![t] = "idle"]
        /\ UNCHANGED <<nexts, todo, cur, oldHead, iter>>
    BY <1>3 DEF CompareExchange
  <2> DEFINE q == lists[s]
  <2>2. q \in Seq(Relocs) /\ Len(q) \in Nat
    BY <1>1 DEF TypeOK
  <2>3. /\ lists'[s] = <<c>> \o q
        /\ \A u \in Symbols \ {s} : lists'[u] = lists[u]
        /\ heads'[s] = c
        /\ \A u \in Symbols \ {s} : heads'[u] = heads[u]
    BY <1>1, <2>1 DEF TypeOK
  <2> HIDE DEF q
  <2>4. /\ <<c>> \o q \in Seq(Relocs)
        /\ Len(lists'[s]) = Len(q) + 1
        /\ lists'[s][1] = c
        /\ \A i \in 2..(Len(q) + 1) : lists'[s][i] = q[i - 1]
    BY <1>1, <2>2, <2>3, ConsFacts
  <2>5. TypeOK'
    BY <1>1, <2>1, <2>3, <2>4 DEF TypeOK, Entry, q
  <2>6. nexts[c] = IF q = << >> THEN NO_ENTRY ELSE q[1]
    BY <1>1, <1>3 DEF SlotReady, ChainsAreLists, q
  <2>7. ChainsAreLists'
    <3> SUFFICES ASSUME NEW u \in Symbols
                 PROVE  /\ heads'[u] = IF lists'[u] = << >> THEN NO_ENTRY ELSE lists'[u][1]
                        /\ \A i \in 1..Len(lists'[u]) :
                             nexts[lists'[u][i]] =
                               IF i = Len(lists'[u]) THEN NO_ENTRY ELSE lists'[u][i + 1]
      BY <2>1 DEF ChainsAreLists
    <3>1. CASE u # s
      BY <2>3, <3>1 DEF ChainsAreLists
    <3>2. CASE u = s
      <4>1. lists'[s] # << >>
        BY <2>2, <2>4
      <4>2. ASSUME NEW i \in 1..Len(lists'[s])
            PROVE  nexts[lists'[s][i]] =
                     IF i = Len(lists'[s]) THEN NO_ENTRY ELSE lists'[s][i + 1]
        <5>1. CASE i = 1
          <6>1. CASE q = << >>
            BY <2>2, <2>4, <2>6, <5>1, <6>1
          <6>2. CASE q # << >>
            <7>1. Len(q) >= 1
              BY <2>2, <6>2
            <7>2. lists'[s][2] = q[1] /\ Len(lists'[s]) # 1
              BY <2>2, <2>4, <7>1
            <7> QED
              BY <2>4, <2>6, <5>1, <6>2, <7>2
          <6> QED
            BY <6>1, <6>2
        <5>2. CASE i # 1
          <6>1. i - 1 \in 1..Len(q) /\ lists'[s][i] = q[i - 1]
            BY <2>2, <2>4, <5>2
          <6>2. nexts[q[i - 1]] = IF i - 1 = Len(q) THEN NO_ENTRY ELSE q[i]
            BY <1>1, <2>2, <6>1 DEF ChainsAreLists, q
          <6>3. i - 1 # Len(q) => lists'[s][i + 1] = q[i]
            BY <2>2, <2>4, <6>1
          <6> QED
            BY <2>2, <2>4, <6>1, <6>2, <6>3
        <5> QED
          BY <5>1, <5>2
      <4> QED
        BY <2>3, <2>4, <3>2, <4>1, <4>2
    <3> QED
      BY <3>1, <3>2
  <2>8. \A i \in 1..Len(q) : q[i] # c /\ q[i] \in Relocs
    BY <1>1, NotListed DEF q
  <2>9. Entries(lists'[s]) = {c} \cup Linked(s)
    <3>1. ASSUME NEW i \in 1..Len(lists'[s])
          PROVE  lists'[s][i] = c \/ \E j \in 1..Len(q) : lists'[s][i] = q[j]
      <4>1. CASE i = 1
        BY <2>4, <4>1
      <4>2. CASE i # 1
        <5>1. i - 1 \in 1..Len(q) /\ lists'[s][i] = q[i - 1]
          BY <2>2, <2>4, <4>2
        <5> QED
          BY <5>1
      <4> QED
        BY <4>1, <4>2
    <3>2. \A j \in 1..Len(q) : \E i \in 1..Len(lists'[s]) : lists'[s][i] = q[j]
      <4> TAKE j \in 1..Len(q)
      <4>1. j + 1 \in 1..Len(lists'[s]) /\ lists'[s][j + 1] = q[j]
        BY <2>2, <2>4
      <4> QED
        BY <4>1
    <3>3. 1 \in 1..Len(lists'[s])
      BY <2>2, <2>4
    <3> HIDE DEF s, c
    <3> QED
      <4>1. \A x : x \in Entries(lists'[s]) => x = c \/ x \in Entries(q)
        BY <3>1 DEF Entries
      <4>2. \A x : x \in Entries(q) => x \in Entries(lists'[s])
        BY <3>2 DEF Entries
      <4>3. c \in Entries(lists'[s])
        BY <2>4, <3>3 DEF Entries
      <4>4. Entries(q) = Linked(s)
        BY DEF Entries, Linked, q
      <4> QED
        BY <4>1, <4>2, <4>3, <4>4
  <2>10. /\ \A u \in Symbols \ {s} : Entries(lists'[u]) = Linked(u)
         /\ \A u \in Symbols : Linked(u) \subseteq Entries(lists'[u])
    <3>1. \A u \in Symbols \ {s} : Entries(lists'[u]) = Linked(u)
      <4> TAKE u \in Symbols \ {s}
      <4>1. lists'[u] = lists[u] /\ Linked(u) = Entries(lists[u])
        BY <2>3 DEF Entries, Linked
      <4> QED
        BY <4>1
    <3> QED
      BY <2>9, <3>1
  <2>11. pc'[t] = "idle" /\ \A u \in Threads \ {t} : pc'[u] = pc[u]
    BY <2>1 DEF TypeOK
  <2>12. ListedOnce'
    <3>1. ASSUME NEW u \in Symbols, NEW i \in 1..Len(lists'[u])
          PROVE  /\ SymOf[lists'[u][i]] = u
                 /\ lists'[u][i] \notin todo
                 /\ \A j \in 1..Len(lists'[u]) : lists'[u][i] = lists'[u][j] => i = j
      <4>1. CASE u # s
        BY <2>3, <3>1, <4>1 DEF ListedOnce
      <4>2. CASE u = s
        <5>1. \A j \in 1..Len(q) : /\ SymOf[q[j]] = s /\ q[j] \notin todo
                                   /\ \A k \in 1..Len(q) : q[j] = q[k] => j = k
          BY <1>1 DEF ListedOnce, q
        <5>2. \A j \in 1..Len(lists'[s]) : j = 1 \/ (j - 1 \in 1..Len(q) /\ lists'[s][j] = q[j - 1])
          BY <2>2, <2>4
        <5>3. c \notin todo /\ SymOf[c] = s
          BY <1>1 DEF ListedOnce
        <5>4. i \in 1..Len(lists'[s])
          BY <3>1, <4>2
        <5>5. SymOf[lists'[s][i]] = s /\ lists'[s][i] \notin todo
          <6>1. CASE i = 1
            BY <2>4, <5>3, <6>1
          <6>2. CASE i # 1
            BY <5>1, <5>2, <5>4, <6>2
          <6> QED
            BY <6>1, <6>2
        <5>6. ASSUME NEW j \in 1..Len(lists'[s]), lists'[s][i] = lists'[s][j] PROVE i = j
          <6>1. CASE i = 1 /\ j = 1
            BY <6>1
          <6>2. CASE i = 1 /\ j # 1
            BY <2>4, <2>8, <5>2, <5>6, <6>2
          <6>3. CASE i # 1 /\ j = 1
            BY <2>4, <2>8, <5>2, <5>4, <5>6, <6>3
          <6>4. CASE i # 1 /\ j # 1
            <7>1. i - 1 = j - 1
              BY <5>1, <5>2, <5>4, <5>6, <6>4
            <7> QED
              BY <2>2, <2>4, <5>4, <7>1
          <6> QED
            BY <6>1, <6>2, <6>3, <6>4
        <5> QED
          BY <4>2, <5>5, <5>6
      <4> QED
        BY <4>1, <4>2
    <3>2. ASSUME NEW u \in Threads, pc'[u] # "idle"
          PROVE  /\ cur[u] \in Relocs /\ InRange(cur[u]) /\ cur[u] \notin todo
                 /\ cur[u] \notin Entries(lists'[SymOf[cur[u]]])
                 /\ \A v \in Threads \ {u} : pc'[v] # "idle" => cur[v] # cur[u]
      <4>1. u # t /\ pc[u] # "idle"
        BY <2>11, <3>2
      <4>2. cur[u] # c
        BY <1>1, <4>1 DEF ListedOnce
      <4>3. SymOf[cur[u]] \in Symbols /\ cur[u] \notin Linked(SymOf[cur[u]])
        BY <4>1 DEF ListedOnce, InRange
      <4>4. cur[u] \notin Entries(lists'[SymOf[cur[u]]])
        BY <2>9, <2>10, <4>2, <4>3
      <4> QED
        BY <2>11, <4>1, <4>4 DEF ListedOnce
    <3> QED
      BY <2>1, <3>1, <3>2 DEF ListedOnce, Linked, Entries, InRange
  <2>13. SlotReady'
    BY <2>1, <2>11 DEF SlotReady
  <2>14. Accounted'
    <3> SUFFICES ASSUME NEW r \in RelocIds, InRange(r)
                 PROVE  \/ r \in todo
                        \/ \E u \in Threads : pc'[u] # "idle" /\ cur[u] = r
                        \/ r \in Entries(lists'[SymOf[r]])
      BY <2>1 DEF Accounted, InRange, Linked, Entries
    <3>1. CASE r = c
      BY <2>9, <3>1
    <3>2. CASE r # c
      <4>1. Linked(SymOf[r]) \subseteq Entries(lists'[SymOf[r]])
        BY <2>10 DEF InRange
      <4>2. \A u \in Threads : cur[u] = r => pc'[u] = pc[u]
        BY <2>11, <3>2
      <4> QED
        BY <4>1, <4>2 DEF Accounted
    <3> QED
      BY <3>1, <3>2
  <2>15. SnapChained'
    <3>1. ASSUME NEW i \in 1..Len(iter.snap)
          PROVE  iter.snap[i] \in Entries(lists'[SymOf[iter.snap[i]]])
      BY <2>10 DEF SnapChained, InRange
    <3> QED
      BY <2>1, <3>1 DEF SnapChained, InRange, Linked, Entries
  <2>16. WalkIsSnapshot'
    BY <2>1 DEF WalkIsSnapshot
  <2> QED
    BY <2>5, <2>7, <2>12, <2>13, <2>14, <2>15, <2>16
<1> QED
  BY <1>2, <1>3

(* A new walk starts from the whole chain of its symbol.                   *)
LEMMA IterRelocsInv ==
  ASSUME Inv, NEW s \in SymbolIds, IterRelocs(s)
  PROVE  Inv'
<1> USE IndexAssumption DEF Inv, Core
<1>1. UNCHANGED <<heads, nexts, todo, pc, cur, oldHead, lists>>
  BY DEF IterRelocs
<1>2. ChainsAreLists' /\ ListedOnce' /\ SlotReady' /\ Accounted'
  BY <1>1 DEF ChainsAreLists, ListedOnce, SlotReady, Accounted, Linked, InRange
<1>3. iter' = [on |-> TRUE,
               current |-> IF s \in Symbols THEN heads[s] ELSE NO_ENTRY,
               seen |-> << >>,
               snap |-> IF s \in Symbols THEN lists[s] ELSE << >>]
  BY DEF IterRelocs
<1>4. CASE s \in Symbols
  <2>1. iter'.snap = lists[s] /\ iter'.current = heads[s] /\ iter'.seen = << >> /\ iter'.on = TRUE
    BY <1>3, <1>4
  <2>2. lists[s] \in Seq(Relocs) /\ heads[s] \in Entry
    BY <1>4 DEF TypeOK
  <2>3. TypeOK'
    BY <1>1, <1>3, <1>4, <2>2 DEF TypeOK
  <2>4. SnapChained'
    <3>1. ASSUME NEW i \in 1..Len(lists[s])
          PROVE  /\ InRange(lists[s][i]) /\ lists[s][i] \in Linked(SymOf[lists[s][i]])
                 /\ nexts[lists[s][i]] = IF i = Len(lists[s]) THEN NO_ENTRY ELSE lists[s][i + 1]
      <4>1. SymOf[lists[s][i]] = s /\ lists[s][i] \in Relocs
        BY <1>4, <2>2 DEF ListedOnce
      <4>2. lists[s][i] \in Linked(s)
        BY DEF Linked
      <4> QED
        BY <1>4, <4>1, <4>2 DEF ChainsAreLists, InRange
    <3> QED
      BY <1>1, <2>1, <3>1 DEF SnapChained, InRange, Linked
  <2>5. WalkIsSnapshot'
    <3>1. heads[s] = IF Len(lists[s]) = 0 THEN NO_ENTRY ELSE lists[s][1]
      BY <1>4, <2>2 DEF ChainsAreLists
    <3> QED
      BY <2>1, <2>2, <3>1 DEF WalkIsSnapshot
  <2> QED
    BY <1>2, <2>3, <2>4, <2>5
<1>5. CASE s \notin Symbols
  <2>1. iter'.snap = << >> /\ iter'.current = NO_ENTRY /\ iter'.seen = << >> /\ iter'.on = TRUE
    BY <1>3, <1>5
  <2>2. TypeOK'
    BY <1>1, <1>3, <1>5 DEF TypeOK, Entry
  <2>3. SnapChained' /\ WalkIsSnapshot'
    BY <2>1 DEF SnapChained, WalkIsSnapshot
  <2> QED
    BY <1>2, <2>2, <2>3
<1> QED
  BY <1>4, <1>5

(* One step of a walk follows the slot of a linked entry, which holds the  *)
(* next entry of the snapshot.                                             *)
LEMMA IterNextInv ==
  ASSUME Inv, IterNext
  PROVE  Inv'
<1> USE IndexAssumption DEF Inv, Core
<1>1. UNCHANGED <<heads, nexts, todo, pc, cur, oldHead, lists>>
  BY DEF IterNext
<1>2. ChainsAreLists' /\ ListedOnce' /\ SlotReady' /\ Accounted'
  BY <1>1 DEF ChainsAreLists, ListedOnce, SlotReady, Accounted, Linked, InRange
<1> DEFINE k == Len(iter.seen)
<1>3. /\ iter.seen \in Seq(Relocs) /\ iter.snap \in Seq(Relocs)
      /\ k \in Nat /\ Len(iter.snap) \in Nat
      /\ iter.on /\ iter.current \in Relocs
  BY DEF TypeOK, IterNext, Entry
<1>4. k < Len(iter.snap) /\ iter.current = iter.snap[k + 1]
  BY <1>3 DEF WalkIsSnapshot, IterNext
<1>5. nexts[iter.current] = IF k + 1 = Len(iter.snap) THEN NO_ENTRY ELSE iter.snap[k + 2]
  BY <1>3, <1>4 DEF SnapChained
<1>6. /\ iter'.seen = Append(iter.seen, iter.current)
      /\ iter'.current = nexts[iter.current]
      /\ iter'.snap = iter.snap /\ iter'.on = iter.on
  BY DEF IterNext, TypeOK
<1>7. TypeOK'
  <2>1. nexts[iter.current] \in Entry /\ Append(iter.seen, iter.current) \in Seq(Relocs)
    BY <1>3 DEF TypeOK
  <2>2. iter' = [iter EXCEPT !.seen = Append(iter.seen, iter.current),
                             !.current = nexts[iter.current]]
    BY DEF IterNext
  <2> QED
    BY <1>1, <2>1, <2>2 DEF TypeOK
<1>8. SnapChained'
  BY <1>1, <1>6 DEF SnapChained, InRange, Linked
<1>9. WalkIsSnapshot'
  <2>1. Len(iter'.seen) = k + 1
    BY <1>3, <1>6
  <2>2. iter.seen = SubSeq(iter.snap, 1, k)
    BY <1>3 DEF WalkIsSnapshot
  <2>3. iter'.seen = SubSeq(iter.snap, 1, k + 1)
    <3>1. \A i \in 1..k : iter.seen[i] = iter.snap[i]
      BY <1>3, <1>4, <2>2
    <3>2. Len(SubSeq(iter.snap, 1, k + 1)) = k + 1
      BY <1>3, <1>4
    <3>3. \A i \in 1..(k + 1) : iter'.seen[i] = SubSeq(iter.snap, 1, k + 1)[i]
      BY <1>3, <1>4, <1>6, <3>1
    <3>4. iter'.seen \in Seq(Relocs) /\ SubSeq(iter.snap, 1, k + 1) \in Seq(Relocs)
      BY <1>3, <1>4, <1>6
    <3> QED
      BY <2>1, <3>2, <3>3, <3>4
  <2> QED
    BY <1>3, <1>4, <1>5, <1>6, <2>1, <2>3 DEF WalkIsSnapshot
<1> QED
  BY <1>2, <1>7, <1>8, <1>9

(* Dropping the iterator forgets the walk.                                 *)
LEMMA IterEndInv ==
  ASSUME Inv, IterEnd
  PROVE  Inv'
<1>1. UNCHANGED <<heads, nexts, todo, pc, cur, oldHead, lists>> /\ iter' = NoIter
  BY DEF IterEnd
<1>2. ChainsAreLists' /\ ListedOnce' /\ SlotReady' /\ Accounted'
  BY <1>1 DEF Inv, Core, ChainsAreLists, ListedOnce, SlotReady, Accounted, Linked, InRange
<1>3. TypeOK'
  BY <1>1 DEF Inv, Core, TypeOK, NoIter, Entry
<1>4. SnapChained' /\ WalkIsSnapshot'
  BY <1>1 DEF SnapChained, WalkIsSnapshot, NoIter
<1> QED
  BY <1>2, <1>3, <1>4 DEF Inv, Core

(* The empty index satisfies the inductive invariant.                      *)
LEMMA InitInv == Init => Inv
<1> SUFFICES ASSUME Init PROVE Inv
  OBVIOUS
<1>1. TypeOK
  BY IndexAssumption DEF Init, TypeOK, Entry, NoIter
<1>2. ChainsAreLists /\ ListedOnce /\ SlotReady
  BY DEF Init, ChainsAreLists, ListedOnce, SlotReady, Linked
<1>3. Accounted /\ SnapChained /\ WalkIsSnapshot
  BY DEF Init, Accounted, SnapChained, WalkIsSnapshot, NoIter
<1> QED
  BY <1>1, <1>2, <1>3 DEF Inv, Core

(* Every step of every inserter and walker preserves it.                   *)
LEMMA NextInv == Inv /\ [Next]_vars => Inv'
<1> SUFFICES ASSUME Inv, [Next]_vars PROVE Inv'
  OBVIOUS
<1>1. CASE UNCHANGED vars
  BY <1>1 DEF vars, Inv, Core, TypeOK, ChainsAreLists, ListedOnce, SlotReady, Accounted,
              SnapChained, WalkIsSnapshot, Linked, InRange
<1>2. CASE Next
  BY <1>2, EnterInv, LoadHeadInv, StoreNextInv, CompareExchangeInv, IterRelocsInv,
     IterNextInv, IterEndInv DEF Next, InsertStep, IterStep
<1> QED
  BY <1>1, <1>2

(* The inductive invariant: chains are the lists, each relocation is listed*)
(* once and accounted for, a slot about to be published is ready, and the  *)
(* walker stays on its snapshot.                                           *)
THEOREM Invariance == Spec => []Inv
<1>1. Init => Inv
  BY InitInv
<1>2. Inv /\ [Next]_vars => Inv'
  BY NextInv
<1> QED
  BY <1>1, <1>2, PTL DEF Spec

(* The arrays and the threads' registers keep their types.                 *)
THEOREM TypeCorrect == Spec => []TypeOK
<1>1. Inv => TypeOK
  BY DEF Inv, Core
<1> QED
  BY <1>1, Invariance, PTL

(* At every moment the chain of each symbol is exactly the relocations     *)
(* whose insert has returned, whatever the racing inserters do.            *)
THEOREM ChainsCorrect == Spec => [](ChainsAreLists /\ ListedOnce)
<1>1. Inv => ChainsAreLists /\ ListedOnce
  BY DEF Inv, Core
<1> QED
  BY <1>1, Invariance, PTL

(* When all the inserts have returned, no relocation in range is missing.  *)
THEOREM NoInsertLost == Spec => []NothingLost
<1>1. Inv => NothingLost
  <2> SUFFICES ASSUME Inv, todo = {}, \A t \in Threads : pc[t] = "idle"
               PROVE  AllLinked = {r \in RelocIds : InRange(r)}
    BY DEF NothingLost
  <2>1. ASSUME NEW r \in RelocIds, InRange(r) PROVE r \in AllLinked
    BY <2>1 DEF Inv, Accounted, AllLinked, InRange
  <2>2. ASSUME NEW s \in Symbols, NEW i \in 1..Len(lists[s])
        PROVE  lists[s][i] \in RelocIds /\ InRange(lists[s][i])
    <3>1. lists[s][i] \in Relocs
      BY NotListed DEF Inv, Core
    <3>2. SymOf[lists[s][i]] = s
      BY DEF Inv, Core, ListedOnce
    <3> QED
      BY <3>1, <3>2, IndexAssumption DEF InRange
  <2> QED
    BY <2>1, <2>2 DEF AllLinked, Linked
<1> QED
  BY <1>1, Invariance, PTL

(* A walk beside running inserts yields the chain it found when it began.  *)
THEOREM WalkSound == Spec => []WalkIsSnapshot
<1>1. Inv => WalkIsSnapshot
  BY DEF Inv
<1> QED
  BY <1>1, Invariance, PTL

(* The slot of a linked relocation is never written again.                 *)
THEOREM SlotsFrozen == Spec => LinkedSlotsFrozen
<1>1. ASSUME Inv, [Next]_vars
      PROVE  [\A r \in AllLinked : nexts'[r] = nexts[r]]_vars
  <2>1. CASE UNCHANGED vars
    BY <2>1
  <2>2. ASSUME NEW t \in Threads, StoreNext(t)
        PROVE  \A r \in AllLinked : nexts'[r] = nexts[r]
    <3>1. \A s \in Symbols : \A i \in 1..Len(lists[s]) :
            lists[s][i] \in Relocs /\ lists[s][i] # cur[t]
      BY <1>1, <2>2, NotListed DEF Inv, Core, StoreNext
    <3>2. \A r \in AllLinked : r \in Relocs /\ r # cur[t]
      BY <3>1 DEF AllLinked, Linked
    <3> QED
      BY <1>1, <2>2, <3>2 DEF StoreNext, Inv, Core, TypeOK
  <2>3. ASSUME NEW t \in Threads, Enter(t) \/ LoadHead(t) \/ CompareExchange(t)
        PROVE  nexts' = nexts
    BY <2>3 DEF Enter, LoadHead, CompareExchange
  <2>4. ASSUME (\E s \in SymbolIds : IterRelocs(s)) \/ IterStep
        PROVE  nexts' = nexts
    BY <2>4 DEF IterRelocs, IterStep, IterNext, IterEnd
  <2> QED
    BY <1>1, <2>1, <2>2, <2>3, <2>4 DEF Next, InsertStep
<1> QED
  BY <1>1, Invariance, PTL DEF Spec, LinkedSlotsFrozen

(* The lock-free index implements one atomic list per symbol: only the     *)
(* successful exchange is visible, as one insertion at the front.          *)
THEOREM Refinement == Spec => ImplementsLists
<1>1. Init => Abstract!Init
  BY DEF Init, Abstract!Init
<1>2. ASSUME Inv, [Next]_vars
      PROVE  [Abstract!Next]_lists
  <2>1. ASSUME NEW t \in Threads, CompareExchange(t)
        PROVE  [Abstract!Next]_lists
    <3> DEFINE s == SymOf[cur[t]]
    <3>1. cur[t] \in Relocs /\ s \in Symbols /\ pc[t] # "idle"
      BY <1>2, <2>1 DEF Inv, Core, ListedOnce, InRange, CompareExchange
    <3>2. CASE lists' = lists
      BY <3>2
    <3>3. CASE lists' # lists
      <4>1. lists' = [lists EXCEPT ![s] = <<cur[t]>> \o @]
        BY <2>1, <3>3 DEF CompareExchange
      <4>2. \A u \in Symbols : cur[t] \notin Abstract!ListedIn(u)
        BY <1>2, <3>1, NotListed DEF Inv, Core, Abstract!ListedIn
      <4>3. Abstract!Insert(s, cur[t])
        BY <4>1, <4>2 DEF Abstract!Insert
      <4> QED
        BY <3>1, <4>3 DEF Abstract!Next
    <3> QED
      BY <3>2, <3>3
  <2>2. ASSUME NEW t \in Threads, Enter(t) \/ LoadHead(t) \/ StoreNext(t)
        PROVE  lists' = lists
    BY <2>2 DEF Enter, LoadHead, StoreNext
  <2>3. ASSUME (\E s \in SymbolIds : IterRelocs(s)) \/ IterStep
        PROVE  lists' = lists
    BY <2>3 DEF IterRelocs, IterStep, IterNext, IterEnd
  <2> QED
    BY <1>2, <2>1, <2>2, <2>3 DEF Next, InsertStep, vars
<1> QED
  BY <1>1, <1>2, Invariance, PTL DEF Spec, ImplementsLists, Abstract!Spec
=============================================================================
