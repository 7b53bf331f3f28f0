-------------------------- MODULE LinkOutputProofs --------------------------
(***************************************************************************)
(* Proofs about what a link writes, for every program.                     *)
(***************************************************************************)
EXTENDS LinkOutput, FiniteSetTheorems, WellFoundedInduction, TLAPS

(* Every set of naturals that is not empty has a least member.             *)
LEMMA LeastNat ==
  ASSUME NEW S \in SUBSET Nat, S # {}
  PROVE  \E n \in S : \A m \in S : n <= m
<1>1. \E n \in S : \A m \in S : ~(<<m, n>> \in OpToRel(<, Nat))
  BY NatLessThanWellFounded, WFMin
<1>2. \E n \in S : \A m \in S : ~(m < n)
  BY <1>1 DEF OpToRel
<1> QED BY <1>2

(* A computation that takes one step after another has a result: the       *)
(* function that the definitions of the tables and of the placement choose *)
(* exists.                                                                 *)
Closed(N, S, step) == \A n \in 1..N : \A x \in S : step[n][x] \in S
IsRun(N, S, first, step, f) ==
  f \in [0..N -> S] /\ f[0] = first /\ \A n \in 1..N : f[n] = step[n][f[n - 1]]

LEMMA StepsExist ==
  ASSUME NEW N \in Nat, NEW S, NEW first \in S, NEW step, Closed(N, S, step)
  PROVE  \E f : IsRun(N, S, first, step, f)
<1> DEFINE Good(n) == \E f \in [0..n -> S] : f[0] = first /\ \A m \in 1..n : f[m] = step[m][f[m - 1]]
           Bad == {n \in 0..N : ~Good(n)}
<1>1. SUFFICES ASSUME Bad # {} PROVE FALSE
  <2>1. N \in 0..N /\ (N \notin Bad => Good(N))
    OBVIOUS
  <2> QED BY <2>1 DEF IsRun
<1>2. PICK n \in Bad : \A m \in Bad : n <= m
  <2>1. Bad \in SUBSET Nat
    OBVIOUS
  <2> HIDE DEF Bad
  <2> QED BY <1>1, <2>1, LeastNat
<1>3. n # 0
  <2>1. Good(0)
    <3> DEFINE z == [k \in 0..0 |-> first]
    <3>1. z \in [0..0 -> S] /\ z[0] = first /\ \A m \in 1..0 : FALSE
      OBVIOUS
    <3> HIDE DEF z
    <3> QED BY <3>1
  <2> QED BY <2>1
<1>4. Good(n - 1)
  <2>1. n - 1 \in 0..N /\ ~(n <= n - 1)
    BY <1>3
  <2>2. n - 1 \notin Bad
    BY <1>2, <2>1
  <2> HIDE DEF Good
  <2> QED BY <2>1, <2>2
<1>5. PICK f \in [0..(n - 1) -> S] : f[0] = first /\ \A m \in 1..(n - 1) : f[m] = step[m][f[m - 1]]
  BY <1>4
<1> DEFINE g == [k \in 0..n |-> IF k = n THEN step[n][f[n - 1]] ELSE f[k]]
<1>6. g \in [0..n -> S]
  BY <1>3, <1>5 DEF Closed
<1>7. g[0] = first /\ \A m \in 1..n : g[m] = step[m][g[m - 1]]
  BY <1>3, <1>5
<1> QED BY <1>6, <1>7

(* What s \o t consists of.                                                *)
LEMMA ConcatFacts ==
  ASSUME NEW T, NEW s \in Seq(T), NEW t \in Seq(T)
  PROVE  /\ s \o t \in Seq(T) /\ Len(s \o t) = Len(s) + Len(t)
         /\ DOMAIN (s \o t) = 1 .. Len(s) + Len(t)
         /\ \A i \in 1..Len(s) : (s \o t)[i] = s[i]
         /\ \A i \in 1..Len(t) : (s \o t)[Len(s) + i] = t[i]
  OBVIOUS
-----------------------------------------------------------------------------
(* The dynamic symbols.                                                    *)

(* .dynsym and its two parts.                                              *)
NImports(dyn) == Len(dyn.imports)
NExports(dyn) == Len(dyn.exports)
NSyms(dyn) == Len(DynSyms(dyn))

LEMMA DynSymsShape ==
  ASSUME NEW dyn, DynWellFormed(dyn)
  PROVE  /\ NImports(dyn) \in Nat /\ DOMAIN dyn.imports = 1 .. NImports(dyn)
         /\ NExports(dyn) \in Nat /\ DOMAIN dyn.exports = 1 .. NExports(dyn)
         /\ NSyms(dyn) = NImports(dyn) + NExports(dyn) /\ DOMAIN DynSyms(dyn) = 1 .. NSyms(dyn)
         /\ \A i \in DOMAIN dyn.imports : DynSyms(dyn)[i] = dyn.imports[i].name
<1>1. PICK imp, exp : imp = dyn.imports /\ exp = dyn.exports
  OBVIOUS
<1>2. imp \in Seq(ToSet(imp)) /\ exp \in Seq(ToSet(exp))
  BY <1>1 DEF DynWellFormed, IsSeq
<1> DEFINE a == [i \in 1..Len(imp) |-> imp[i].name]
           U == {imp[i].name : i \in 1..Len(imp)} \cup ToSet(exp)
<1>3. a \in Seq(U) /\ Len(a) = Len(imp) /\ exp \in Seq(U)
  BY <1>2
<1>4. DynSyms(dyn) = a \o exp /\ NImports(dyn) = Len(imp) /\ NExports(dyn) = Len(exp)
  BY <1>1 DEF DynSyms, NImports, NExports
<1>5. \A i \in 1..Len(imp) : a[i] = imp[i].name
  OBVIOUS
<1>6. /\ Len(imp) \in Nat /\ DOMAIN imp = 1 .. Len(imp)
      /\ Len(exp) \in Nat /\ DOMAIN exp = 1 .. Len(exp)
  BY <1>2
<1> HIDE DEF a, U
<1>7. /\ Len(a \o exp) = Len(a) + Len(exp)
      /\ DOMAIN (a \o exp) = 1 .. Len(a) + Len(exp)
      /\ \A i \in 1..Len(a) : (a \o exp)[i] = a[i]
  BY <1>3, ConcatFacts
<1>8. NSyms(dyn) = Len(imp) + Len(exp)
  BY <1>3, <1>4, <1>7 DEF NSyms
<1> QED BY <1>1, <1>3, <1>4, <1>5, <1>6, <1>7, <1>8

(* The hashed entries are entries, and every entry has a bucket.           *)
LEMMA HashedShape ==
  ASSUME NEW dyn, DynWellFormed(dyn)
  PROVE  /\ NSyms(dyn) \in Nat /\ Hashed(dyn) \in SUBSET (1 .. NSyms(dyn))
         /\ NBucket(dyn) \in Nat \ {0}
         /\ \A i \in 1 .. NSyms(dyn) : BucketOf(dyn, i) \in 0 .. NBucket(dyn) - 1
<1>0. /\ NImports(dyn) \in Nat /\ DOMAIN dyn.imports = 1 .. NImports(dyn)
      /\ NExports(dyn) \in Nat /\ NSyms(dyn) = NImports(dyn) + NExports(dyn)
      /\ DOMAIN DynSyms(dyn) = 1 .. NSyms(dyn)
  BY DynSymsShape, Zenon
<1>1. Hashed(dyn) \in SUBSET (1 .. NSyms(dyn))
  <2>1. Copied(dyn) \in SUBSET (1 .. NImports(dyn))
    BY <1>0 DEF Copied
  <2>2. Exported(dyn) = NImports(dyn) + 1 .. NImports(dyn) + NExports(dyn)
    BY Zenon DEF Exported, NImports, NExports
  <2> QED BY <1>0, <2>1, <2>2 DEF Hashed
<1>2. NBucket(dyn) \in Nat \ {0}
  <2>1. IsFiniteSet(1 .. NSyms(dyn))
    BY <1>0, FS_Interval
  <2>2. IsFiniteSet(Hashed(dyn))
    BY <1>1, <2>1, FS_Subset
  <2> QED BY <2>2, FS_CardinalityType, FS_EmptySet DEF NBucket
<1>3. ASSUME NEW i \in 1 .. NSyms(dyn) PROVE BucketOf(dyn, i) \in 0 .. NBucket(dyn) - 1
  <2>1. SysvHash(DynSyms(dyn)[i]) \in Nat
    BY <1>0 DEF DynWellFormed
  <2> QED BY <1>2, <2>1 DEF BucketOf
<1> QED BY <1>0, <1>1, <1>2, <1>3

(* v is the last hashed symbol up to i that belongs in bucket b, 0 if      *)
(* there is none.                                                          *)
Latest(dyn, b, i, v) ==
  \/ v = 0 /\ \A k \in Hashed(dyn) : BucketOf(dyn, k) = b => ~(k <= i)
  \/ /\ v \in Hashed(dyn) /\ BucketOf(dyn, v) = b /\ v <= i
     /\ \A k \in Hashed(dyn) : BucketOf(dyn, k) = b /\ k <= i => k <= v

(* The table when the symbols up to i have been inserted: a bucket begins  *)
(* with its last symbol, and a symbol is followed by the one before it.    *)
TableTypes(dyn) ==
  [buckets : [0 .. NBucket(dyn) - 1 -> 0 .. NSyms(dyn)], chain : [0 .. NSyms(dyn) -> 0 .. NSyms(dyn)]]
TableUpTo(dyn, t, i) ==
  /\ t \in TableTypes(dyn)
  /\ \A b \in 0 .. NBucket(dyn) - 1 : Latest(dyn, b, i, t.buckets[b])
  /\ \A k \in Hashed(dyn) : k <= i => Latest(dyn, BucketOf(dyn, k), k - 1, t.chain[k])
  /\ \A k \in 0 .. NSyms(dyn) : k \notin Hashed(dyn) => t.chain[k] = 0

EmptyTableOf(dyn) ==
  [buckets |-> [h \in 0 .. NBucket(dyn) - 1 |-> 0], chain |-> [k \in 0 .. NSyms(dyn) |-> 0]]

LEMMA EmptyHashTable ==
  ASSUME NEW dyn, DynWellFormed(dyn)
  PROVE  TableUpTo(dyn, EmptyTableOf(dyn), 0)
<1>1. NSyms(dyn) \in Nat /\ Hashed(dyn) \in SUBSET (1 .. NSyms(dyn)) /\ NBucket(dyn) \in Nat \ {0}
  BY HashedShape, Zenon
<1>2. EmptyTableOf(dyn) \in TableTypes(dyn)
  BY <1>1 DEF EmptyTableOf, TableTypes
<1> QED BY <1>1, <1>2 DEF EmptyTableOf, TableUpTo, Latest

LEMMA HashInsertTypes ==
  ASSUME NEW dyn, DynWellFormed(dyn), NEW t \in TableTypes(dyn), NEW i \in 1 .. NSyms(dyn)
  PROVE  /\ HashInsert(dyn, t, i) \in TableTypes(dyn)
         /\ \A b \in 0 .. NBucket(dyn) - 1 :
              HashInsert(dyn, t, i).buckets[b] = IF b = BucketOf(dyn, i) THEN i ELSE t.buckets[b]
         /\ \A k \in 0 .. NSyms(dyn) :
              HashInsert(dyn, t, i).chain[k] = IF k = i THEN t.buckets[BucketOf(dyn, i)] ELSE t.chain[k]
<1>1. NSyms(dyn) \in Nat /\ BucketOf(dyn, i) \in 0 .. NBucket(dyn) - 1
  BY HashedShape, Zenon
<1>2. PICK b0, c0 : b0 = t.buckets /\ c0 = t.chain
  OBVIOUS
<1>3. b0 \in [0 .. NBucket(dyn) - 1 -> 0 .. NSyms(dyn)] /\ c0 \in [0 .. NSyms(dyn) -> 0 .. NSyms(dyn)]
  BY <1>2 DEF TableTypes
<1> DEFINE bs == [b0 EXCEPT ![BucketOf(dyn, i)] = i]
           cs == [c0 EXCEPT ![i] = b0[BucketOf(dyn, i)]]
<1>4. bs \in [0 .. NBucket(dyn) - 1 -> 0 .. NSyms(dyn)] /\ cs \in [0 .. NSyms(dyn) -> 0 .. NSyms(dyn)]
  BY <1>1, <1>3
<1>5. \A b \in 0 .. NBucket(dyn) - 1 : bs[b] = IF b = BucketOf(dyn, i) THEN i ELSE b0[b]
  BY <1>3
<1>6. \A k \in 0 .. NSyms(dyn) : cs[k] = IF k = i THEN b0[BucketOf(dyn, i)] ELSE c0[k]
  BY <1>3
<1>7. HashInsert(dyn, t, i) = [buckets |-> bs, chain |-> cs]
  BY <1>2 DEF HashInsert
<1> HIDE DEF bs, cs
<1> QED BY <1>2, <1>4, <1>5, <1>6, <1>7 DEF TableTypes

(* A symbol that is inserted keeps the table in order.                     *)
LEMMA HashInsertKeeps ==
  ASSUME NEW dyn, DynWellFormed(dyn), NEW i \in 1 .. NSyms(dyn), NEW t, TableUpTo(dyn, t, i - 1)
  PROVE  TableUpTo(dyn, IF i \in Hashed(dyn) THEN HashInsert(dyn, t, i) ELSE t, i)
<1>1. /\ NSyms(dyn) \in Nat /\ Hashed(dyn) \in SUBSET (1 .. NSyms(dyn)) /\ NBucket(dyn) \in Nat \ {0}
      /\ \A k \in 1 .. NSyms(dyn) : BucketOf(dyn, k) \in 0 .. NBucket(dyn) - 1
  BY HashedShape, Zenon
<1>2. t \in TableTypes(dyn)
  BY DEF TableUpTo
<1>3. CASE i \notin Hashed(dyn)
  <2>1. \A b, v : Latest(dyn, b, i - 1, v) => Latest(dyn, b, i, v)
    BY <1>1, <1>3 DEF Latest
  <2>2. \A k \in Hashed(dyn) : k <= i => k <= i - 1
    BY <1>1, <1>3
  <2> QED BY <1>3, <2>1, <2>2 DEF TableUpTo
<1>4. CASE i \in Hashed(dyn)
  <2> DEFINE u == HashInsert(dyn, t, i)
  <2>1. /\ u \in TableTypes(dyn)
        /\ \A b \in 0 .. NBucket(dyn) - 1 : u.buckets[b] = IF b = BucketOf(dyn, i) THEN i ELSE t.buckets[b]
        /\ \A k \in 0 .. NSyms(dyn) : u.chain[k] = IF k = i THEN t.buckets[BucketOf(dyn, i)] ELSE t.chain[k]
    BY <1>2, HashInsertTypes
  <2> HIDE DEF u
  <2>2. ASSUME NEW b \in 0 .. NBucket(dyn) - 1 PROVE Latest(dyn, b, i, u.buckets[b])
    <3>1. Latest(dyn, b, i - 1, t.buckets[b])
      BY DEF TableUpTo
    <3>2. CASE b = BucketOf(dyn, i)
      BY <1>1, <1>4, <2>1, <3>2 DEF Latest
    <3>3. CASE b # BucketOf(dyn, i)
      <4>1. u.buckets[b] = t.buckets[b]
        BY <2>1, <3>3
      <4>2. \A k \in Hashed(dyn) : BucketOf(dyn, k) = b /\ k <= i => k <= i - 1
        BY <1>1, <3>3
      <4>3. \A k \in Hashed(dyn) : k <= i - 1 => k <= i
        BY <1>1
      <4> QED BY <3>1, <4>1, <4>2, <4>3 DEF Latest
    <3> QED BY <3>2, <3>3
  <2>3. ASSUME NEW k \in Hashed(dyn), k <= i PROVE Latest(dyn, BucketOf(dyn, k), k - 1, u.chain[k])
    <3>1. CASE k = i
      <4>1. u.chain[k] = t.buckets[BucketOf(dyn, i)]
        BY <1>1, <2>1, <3>1
      <4>2. Latest(dyn, BucketOf(dyn, i), i - 1, t.buckets[BucketOf(dyn, i)])
        BY <1>1 DEF TableUpTo
      <4> QED BY <3>1, <4>1, <4>2
    <3>2. CASE k # i
      <4>1. u.chain[k] = t.chain[k] /\ k <= i - 1
        BY <1>1, <2>1, <2>3, <3>2
      <4> QED BY <4>1 DEF TableUpTo
    <3> QED BY <3>1, <3>2
  <2>4. \A k \in 0 .. NSyms(dyn) : k \notin Hashed(dyn) => u.chain[k] = 0
    BY <1>4, <2>1 DEF TableUpTo
  <2>5. TableUpTo(dyn, u, i)
    BY <2>1, <2>2, <2>3, <2>4 DEF TableUpTo
  <2> QED BY <1>4, <2>5 DEF u
<1> QED BY <1>3, <1>4

(* The finished table.                                                     *)
LEMMA HashTableExact ==
  ASSUME NEW dyn, DynWellFormed(dyn)
  PROVE  TableUpTo(dyn, HashTable(dyn), NSyms(dyn))
<1>1. NSyms(dyn) \in Nat /\ Hashed(dyn) \in SUBSET (1 .. NSyms(dyn))
  BY HashedShape, Zenon
<1> DEFINE N == NSyms(dyn)
           S == TableTypes(dyn)
           Ins(i, t) == IF i \in Hashed(dyn) THEN HashInsert(dyn, t, i) ELSE t
           step == [i \in 1..N |-> [t \in S |-> Ins(i, t)]]
           Rec(g) == g = [i \in 0..N |-> IF i = 0 THEN EmptyTableOf(dyn) ELSE Ins(i, g[i - 1])]
<1>2. EmptyTableOf(dyn) \in S
  BY EmptyHashTable DEF TableUpTo
<1>3. \A i \in 1..N : \A t \in S : step[i][t] = Ins(i, t) /\ step[i][t] \in S
  BY <1>1, HashInsertTypes
<1>4. \E f : IsRun(N, S, EmptyTableOf(dyn), step, f)
  <2>1. N \in Nat /\ Closed(N, S, step)
    BY <1>1, <1>3 DEF Closed
  <2> HIDE DEF step, S, N
  <2> QED BY <1>2, <2>1, StepsExist
<1>5. \E g : Rec(g)
  <2>0. PICK f : IsRun(N, S, EmptyTableOf(dyn), step, f)
    BY <1>4
  <2>1. f \in [0..N -> S] /\ f[0] = EmptyTableOf(dyn) /\ \A i \in 1..N : f[i] = step[i][f[i - 1]]
    BY <2>0 DEF IsRun
  <2>2. \A i \in 1..N : f[i] = Ins(i, f[i - 1])
    <3> TAKE i \in 1..N
    <3>1. i - 1 \in 0..N /\ f[i - 1] \in S
      BY <1>1, <2>1
    <3> HIDE DEF step, Ins, S
    <3> QED BY <2>1, <3>1, <1>3
  <2> HIDE DEF step, Ins, S
  <2>3. \A i \in 0..N : f[i] = IF i = 0 THEN EmptyTableOf(dyn) ELSE Ins(i, f[i - 1])
    BY <1>1, <2>1, <2>2
  <2>4. Rec(f)
    BY <2>1, <2>3
  <2> QED BY <2>4
<1>6. PICK g : Rec(g) /\ HashTable(dyn) = g[N]
  <2>1. HashTable(dyn) = (CHOOSE g : Rec(g))[N]
    BY Zenon DEF HashTable, NSyms, EmptyTableOf
  <2> HIDE DEF Rec
  <2> QED BY <1>5, <2>1
<1>7. \A i \in 0..N : TableUpTo(dyn, g[i], i)
  <2> DEFINE Bad == {i \in 0..N : ~TableUpTo(dyn, g[i], i)}
  <2> SUFFICES ASSUME Bad # {} PROVE FALSE
    OBVIOUS
  <2>1. PICK i \in Bad : \A j \in Bad : i <= j
    <3>1. Bad \in SUBSET Nat
      BY <1>1
    <3> HIDE DEF Bad
    <3> QED BY <3>1, LeastNat
  <2>2. CASE i = 0
    <3>1. g[0] = EmptyTableOf(dyn)
      BY <1>1, <1>6
    <3> QED BY <2>1, <2>2, <3>1, EmptyHashTable
  <2>3. CASE i # 0
    <3>1. i \in 1..N /\ i - 1 \in 0..N /\ ~(i <= i - 1)
      BY <1>1, <2>3
    <3>2. TableUpTo(dyn, g[i - 1], i - 1)
      BY <2>1, <3>1
    <3>3. g[i] = Ins(i, g[i - 1])
      BY <1>6, <3>1
    <3>4. TableUpTo(dyn, Ins(i, g[i - 1]), i)
      BY <3>1, <3>2, HashInsertKeeps
    <3> QED BY <2>1, <3>3, <3>4
  <2> QED BY <2>2, <2>3
<1> QED BY <1>1, <1>6, <1>7

(* What holds of 0, and of a number when it holds of the one before it,    *)
(* holds up to N.                                                          *)
LEMMA UpTo ==
  ASSUME NEW N \in Nat, NEW G, 0 \in G, \A n \in 1..N : n - 1 \in G => n \in G
  PROVE  \A n \in 0..N : n \in G
<1> DEFINE Bad == {n \in 0..N : n \notin G}
<1>1. SUFFICES ASSUME Bad # {} PROVE FALSE
  OBVIOUS
<1>2. PICK n \in Bad : \A m \in Bad : n <= m
  <2>1. Bad \in SUBSET Nat
    OBVIOUS
  <2> HIDE DEF Bad
  <2> QED BY <1>1, <2>1, LeastNat
<1>3. n \in 1..N /\ n - 1 \in 0..N /\ ~(n <= n - 1)
  OBVIOUS
<1>4. n - 1 \notin Bad
  BY <1>2, <1>3
<1> QED BY <1>3, <1>4

(* The loader's walk along a chain meets the symbols of the bucket, and    *)
(* nothing else.                                                           *)
InBucket(dyn, b) == {k \in Hashed(dyn) : BucketOf(dyn, k) = b}

LEMMA ChainExact ==
  ASSUME NEW dyn, DynWellFormed(dyn), NEW b \in 0 .. NBucket(dyn) - 1
  PROVE  Chain(dyn, b) = InBucket(dyn, b)
<1> DEFINE N == NSyms(dyn)
           S == 0 .. N
           t == HashTable(dyn)
           M == N + 1
           step == [n \in 1..M |-> t.chain]
           Rec(g) == g = [n \in 0..M |-> IF n = 0 THEN t.buckets[b] ELSE t.chain[g[n - 1]]]
<1>1. N \in Nat /\ Hashed(dyn) \in SUBSET (1..N)
  BY HashedShape, Zenon
<1>2. TableUpTo(dyn, t, N)
  BY HashTableExact, Zenon
<1>3. t.chain \in [S -> S] /\ t.buckets[b] \in S
  BY <1>2 DEF TableUpTo, TableTypes
<1>4. Latest(dyn, b, N, t.buckets[b])
  BY <1>2, Zenon DEF TableUpTo
<1>5. \A k \in InBucket(dyn, b) : Latest(dyn, b, k - 1, t.chain[k])
  BY <1>1, <1>2 DEF TableUpTo, InBucket
<1>6. t.chain[0] = 0
  BY <1>1, <1>2 DEF TableUpTo
<1>7. \E g : Rec(g)
  <2>1. M \in Nat /\ Closed(M, S, step)
    BY <1>1, <1>3 DEF Closed
  <2>2. PICK f : IsRun(M, S, t.buckets[b], step, f)
    <3> HIDE DEF step, S, t, M
    <3> QED BY <1>3, <2>1, StepsExist
  <2>3. f \in [0..M -> S] /\ f[0] = t.buckets[b] /\ \A n \in 1..M : f[n] = t.chain[f[n - 1]]
    <3> HIDE DEF t
    <3> QED BY <2>2 DEF IsRun
  <2> HIDE DEF t, S
  <2>4. \A n \in 0..M : f[n] = IF n = 0 THEN t.buckets[b] ELSE t.chain[f[n - 1]]
    BY <1>1, <2>3
  <2>5. Rec(f)
    BY <2>3, <2>4
  <2> QED BY <2>5
<1>8. PICK w : Rec(w) /\ Chain(dyn, b) = {w[n] : n \in DOMAIN w} \ {0}
  <2>1. Chain(dyn, b) = LET g == CHOOSE g : Rec(g) IN {g[n] : n \in DOMAIN g} \ {0}
    BY Zenon DEF Chain, NSyms
  <2> HIDE DEF Rec
  <2> QED BY <1>7, <2>1
<1> HIDE DEF t
<1>9. w[0] = t.buckets[b] /\ DOMAIN w = 0..M /\ \A n \in 1..M : w[n] = t.chain[w[n - 1]]
  BY <1>1, <1>8
<1> DEFINE G == {n \in 0..M : w[n] \in S /\ (w[n] = 0 \/ (w[n] \in InBucket(dyn, b) /\ w[n] <= N - n))}
<1>10. \A n \in 0..M : n \in G
  <2>1. 0 \in G
    BY <1>1, <1>3, <1>4, <1>9 DEF Latest, InBucket
  <2>2. ASSUME NEW n \in 1..M, n - 1 \in G PROVE n \in G
    <3>1. w[n] = t.chain[w[n - 1]] /\ w[n - 1] \in S
      BY <1>9, <2>2
    <3>2. w[n] \in S
      BY <1>3, <3>1
    <3>3. CASE w[n - 1] = 0
      BY <1>6, <3>1, <3>2, <3>3
    <3>4. CASE w[n - 1] # 0
      <4>1. w[n - 1] \in InBucket(dyn, b) /\ w[n - 1] <= N - (n - 1)
        BY <2>2, <3>4
      <4>2. Latest(dyn, b, w[n - 1] - 1, w[n])
        BY <1>5, <3>1, <4>1
      <4> QED BY <1>1, <3>2, <4>1, <4>2 DEF Latest, InBucket
    <3> QED BY <3>3, <3>4
  <2> HIDE DEF G
  <2> QED BY <1>1, <2>1, <2>2, UpTo
<1> DEFINE H == {n \in 0..M : \A k \in InBucket(dyn, b) : (\E m \in 0..n : w[m] = k) \/ k < w[n]}
<1>11. \A n \in 0..M : n \in H
  <2>1. 0 \in H
    <3>1. ASSUME NEW k \in InBucket(dyn, b) PROVE w[0] = k \/ k < w[0]
      BY <1>1, <1>4, <1>9 DEF Latest, InBucket
    <3> QED BY <1>1, <3>1
  <2>2. ASSUME NEW n \in 1..M, n - 1 \in H PROVE n \in H
    <3> SUFFICES ASSUME NEW k \in InBucket(dyn, b), ~(\E m \in 0..n : w[m] = k) PROVE k < w[n]
      OBVIOUS
    <3>1. k < w[n - 1] /\ w[n] # k
      BY <2>2
    <3>2. w[n - 1] \in InBucket(dyn, b)
      <4>1. n - 1 \in G
        BY <1>1, <1>10
      <4> QED BY <1>1, <3>1, <4>1 DEF InBucket
    <3>3. Latest(dyn, b, w[n - 1] - 1, w[n])
      BY <1>5, <1>9, <3>2
    <3> QED BY <1>1, <3>1, <3>2, <3>3 DEF Latest, InBucket
  <2> HIDE DEF H
  <2> QED BY <1>1, <2>1, <2>2, UpTo
<1>12. ASSUME NEW k \in InBucket(dyn, b) PROVE \E m \in 0..M : w[m] = k
  <2>1. M \in G /\ M \in H
    BY <1>1, <1>10, <1>11
  <2>2. w[M] = 0
    BY <1>1, <2>1
  <2>3. ~(k < w[M])
    BY <1>1, <2>2 DEF InBucket
  <2> QED BY <2>1, <2>3
<1>13. ASSUME NEW n \in 0..M, w[n] # 0 PROVE w[n] \in InBucket(dyn, b)
  BY <1>10, <1>13
<1>14. 0 \notin InBucket(dyn, b)
  BY <1>1 DEF InBucket
<1> HIDE DEF M, G, H, Rec
<1> QED BY <1>8, <1>9, <1>12, <1>13, <1>14

(* A name of .dynsym is found at the hashed entry that has it.             *)
LEMMA FoundExact ==
  ASSUME NEW dyn, DynWellFormed(dyn), ~HashStyleUnsupported(dyn), NEW i \in DOMAIN DynSyms(dyn)
  PROVE  Found(dyn, DynSyms(dyn)[i]) = IF i \in Hashed(dyn) THEN {i} ELSE {}
<1>1. /\ NSyms(dyn) \in Nat /\ Hashed(dyn) \in SUBSET (1 .. NSyms(dyn))
      /\ \A k \in 1 .. NSyms(dyn) : BucketOf(dyn, k) \in 0 .. NBucket(dyn) - 1
  BY HashedShape, Zenon
<1>2. DOMAIN DynSyms(dyn) = 1 .. NSyms(dyn)
  BY DynSymsShape, Zenon
<1>3. CASE HasGnuHash(dyn) \/ ~HasHash(dyn)
  <2>1. Hashed(dyn) = {}
    BY <1>3 DEF HasGnuHash, HasHash, HashStyleUnsupported, GnuHashStub
  <2> QED BY <1>3, <2>1 DEF Found
<1>4. CASE ~(HasGnuHash(dyn) \/ ~HasHash(dyn))
  <2>1. Chain(dyn, BucketOf(dyn, i)) = InBucket(dyn, BucketOf(dyn, i))
    BY <1>1, <1>2, ChainExact
  <2>2. Found(dyn, DynSyms(dyn)[i])
          = {k \in InBucket(dyn, BucketOf(dyn, i)) : DynSyms(dyn)[k] = DynSyms(dyn)[i]}
    BY <1>4, <2>1, Zenon DEF Found, BucketOf
  <2>3. \A k \in Hashed(dyn) : DynSyms(dyn)[k] = DynSyms(dyn)[i] => k = i
    BY <1>1, <1>2 DEF DynWellFormed
  <2> QED BY <2>2, <2>3 DEF InBucket
<1> QED BY <1>3, <1>4

-----------------------------------------------------------------------------
(* The versions.                                                           *)

(* Every set of naturals that has a bound has a greatest member.           *)
LEMMA GreatestNat ==
  ASSUME NEW N \in Nat, NEW S \in SUBSET (0..N), S # {}
  PROVE  \E n \in S : \A m \in S : m <= n
<1> DEFINE U == {n \in 0..N : \A m \in S : m <= n}
<1>1. N \in U /\ U \in SUBSET Nat
  OBVIOUS
<1>2. PICK n \in U : \A m \in U : n <= m
  <2>1. U # {}
    BY <1>1
  <2> HIDE DEF U
  <2> QED BY <1>1, <2>1, LeastNat
<1>3. n \in S
  <2> SUFFICES ASSUME n \notin S PROVE FALSE
    OBVIOUS
  <2>1. \A m \in S : m <= n - 1
    BY <1>2
  <2>2. PICK m \in S : m <= n - 1
    BY <2>1
  <2>3. n - 1 \in U
    BY <2>1, <2>2
  <2> QED BY <1>2, <2>3
<1> QED BY <1>2, <1>3

(* A versioned import's library is the one its version is listed under.    *)
LEMMA SonameFound ==
  ASSUME NEW dyn, DynWellFormed(dyn), NEW so, SonameIndex(dyn, so) # 0
  PROVE  dyn.needed[SonameIndex(dyn, so)] = so
<1> DEFINE A == {l \in DOMAIN dyn.needed : dyn.needed[l] = so}
<1>1. PICK nd : nd = dyn.needed
  OBVIOUS
<1>2. nd \in Seq(ToSet(nd))
  BY <1>1 DEF DynWellFormed, IsSeq
<1>3. Len(nd) \in Nat /\ DOMAIN nd = 1..Len(nd)
  BY <1>2
<1>4. A \in SUBSET (0..Len(nd))
  BY <1>1, <1>3
<1>5. SonameIndex(dyn, so) = IF A = {} THEN 0 ELSE CHOOSE l \in A : \A m \in A : m <= l
  BY Zenon DEF SonameIndex
<1> HIDE DEF A
<1>6. A # {}
  BY <1>5
<1>7. \E l \in A : \A m \in A : m <= l
  BY <1>3, <1>4, <1>6, GreatestNat
<1>8. SonameIndex(dyn, so) \in A
  BY <1>5, <1>6, <1>7
<1> QED BY <1>8 DEF A

(* The first import of a version; the numbers of the versions are distinct.*)
FirstsUpTo(dyn, i) == {j \in Versioned(dyn) : j <= i /\ FirstOf(dyn, j)}

LEMMA VersionedShape ==
  ASSUME NEW dyn, DynWellFormed(dyn)
  PROVE  NImports(dyn) \in Nat /\ Versioned(dyn) \in SUBSET (1 .. NImports(dyn))
  BY DynSymsShape DEF Versioned

LEMMA VersionFirst ==
  ASSUME NEW dyn, DynWellFormed(dyn), NEW i \in Versioned(dyn)
  PROVE  \E f \in Versioned(dyn) :
           /\ VersionKey(dyn, f) = VersionKey(dyn, i) /\ FirstOf(dyn, f)
           /\ VersionIndex(dyn, VersionKey(dyn, i)) = 1 + Cardinality(FirstsUpTo(dyn, f))
<1> DEFINE key == VersionKey(dyn, i)
           A == {j \in Versioned(dyn) : VersionKey(dyn, j) = key}
           P(f) == VersionKey(dyn, f) = key /\ FirstOf(dyn, f)
<1>1. NImports(dyn) \in Nat /\ Versioned(dyn) \in SUBSET (1 .. NImports(dyn))
  BY VersionedShape, Zenon
<1>2. A \in SUBSET Nat /\ A # {}
  BY <1>1
<1>3. PICK n \in A : \A m \in A : n <= m
  <2> HIDE DEF A
  <2> QED BY <1>2, LeastNat
<1>4. n \in Versioned(dyn) /\ P(n)
  BY <1>3 DEF FirstOf
<1>5. VersionIndex(dyn, key) = 1 + Cardinality(FirstsUpTo(dyn, CHOOSE f \in Versioned(dyn) : P(f)))
  BY Zenon DEF VersionIndex, FirstsUpTo
<1>6. PICK f \in Versioned(dyn) : P(f) /\ VersionIndex(dyn, key) = 1 + Cardinality(FirstsUpTo(dyn, f))
  <2> HIDE DEF P
  <2> QED BY <1>4, <1>5
<1> QED BY <1>6

LEMMA FirstsGrow ==
  ASSUME NEW dyn, DynWellFormed(dyn), NEW f \in Versioned(dyn), NEW g \in Versioned(dyn),
         FirstOf(dyn, g), f < g
  PROVE  /\ Cardinality(FirstsUpTo(dyn, f)) # Cardinality(FirstsUpTo(dyn, g))
         /\ Cardinality(FirstsUpTo(dyn, f)) \in Nat /\ Cardinality(FirstsUpTo(dyn, g)) \in Nat
<1> DEFINE A == FirstsUpTo(dyn, f)
           B == FirstsUpTo(dyn, g)
<1>1. NImports(dyn) \in Nat /\ Versioned(dyn) \in SUBSET (1 .. NImports(dyn))
  BY VersionedShape, Zenon
<1>2. A \subseteq B /\ g \in B /\ g \notin A
  BY <1>1 DEF FirstsUpTo
<1>3. IsFiniteSet(B)
  <2>1. IsFiniteSet(1 .. NImports(dyn)) /\ B \subseteq 1 .. NImports(dyn)
    BY <1>1, FS_Interval DEF FirstsUpTo
  <2> QED BY <2>1, FS_Subset
<1> HIDE DEF A, B
<1>4. IsFiniteSet(A)
  BY <1>2, <1>3, FS_Subset
<1>5. Cardinality(A) \in Nat /\ Cardinality(B) \in Nat
  BY <1>3, <1>4, FS_CardinalityType
<1>6. Cardinality(A) = Cardinality(B) => A = B
  BY <1>2, <1>3, FS_Subset
<1>7. Cardinality(A) # Cardinality(B)
  BY <1>2, <1>6
<1> QED BY <1>5, <1>7 DEF A, B

LEMMA SuccInjective ==
  ASSUME NEW a \in Nat, NEW b \in Nat, 1 + a = 1 + b
  PROVE  a = b
  OBVIOUS

LEMMA VersionIndexInjective ==
  ASSUME NEW dyn, DynWellFormed(dyn), NEW i \in Versioned(dyn), NEW j \in Versioned(dyn),
         VersionIndex(dyn, VersionKey(dyn, i)) = VersionIndex(dyn, VersionKey(dyn, j))
  PROVE  VersionKey(dyn, i) = VersionKey(dyn, j)
<1>1. NImports(dyn) \in Nat /\ Versioned(dyn) \in SUBSET (1 .. NImports(dyn))
  BY VersionedShape, Zenon
<1>2. PICK f \in Versioned(dyn) :
        /\ VersionKey(dyn, f) = VersionKey(dyn, i) /\ FirstOf(dyn, f)
        /\ VersionIndex(dyn, VersionKey(dyn, i)) = 1 + Cardinality(FirstsUpTo(dyn, f))
  BY VersionFirst
<1>3. PICK g \in Versioned(dyn) :
        /\ VersionKey(dyn, g) = VersionKey(dyn, j) /\ FirstOf(dyn, g)
        /\ VersionIndex(dyn, VersionKey(dyn, j)) = 1 + Cardinality(FirstsUpTo(dyn, g))
  BY VersionFirst
<1>4. 1 + Cardinality(FirstsUpTo(dyn, f)) = 1 + Cardinality(FirstsUpTo(dyn, g))
  BY <1>2, <1>3, Zenon
<1>5. ~(f < g)
  <2> SUFFICES ASSUME f < g PROVE FALSE
    OBVIOUS
  <2>1. /\ Cardinality(FirstsUpTo(dyn, f)) # Cardinality(FirstsUpTo(dyn, g))
        /\ Cardinality(FirstsUpTo(dyn, f)) \in Nat /\ Cardinality(FirstsUpTo(dyn, g)) \in Nat
    BY <1>3, FirstsGrow
  <2> QED BY <1>4, <2>1, SuccInjective
<1>6. ~(g < f)
  <2> SUFFICES ASSUME g < f PROVE FALSE
    OBVIOUS
  <2>1. /\ Cardinality(FirstsUpTo(dyn, g)) # Cardinality(FirstsUpTo(dyn, f))
        /\ Cardinality(FirstsUpTo(dyn, f)) \in Nat /\ Cardinality(FirstsUpTo(dyn, g)) \in Nat
    BY <1>2, FirstsGrow
  <2> QED BY <1>4, <2>1, SuccInjective
<1>7. f = g
  BY <1>1, <1>5, <1>6
<1> QED BY <1>2, <1>3, <1>7

(* The version an import has in .gnu.version is in .gnu.version_r under    *)
(* its number, and only once.                                              *)
LEMMA VersymOfImport ==
  ASSUME NEW dyn, DynWellFormed(dyn), NEW i \in Versioned(dyn)
  PROVE  Versym(dyn)[i] = VersionIndex(dyn, VersionKey(dyn, i))
<1>1. NImports(dyn) \in Nat /\ Versioned(dyn) \in SUBSET (1 .. NImports(dyn))
  BY VersionedShape, Zenon
<1>2. DOMAIN dyn.imports = 1 .. NImports(dyn) /\ NExports(dyn) \in Nat /\ DOMAIN dyn.exports = 1 .. NExports(dyn)
  BY DynSymsShape, Zenon
<1> DEFINE val(k) == IF k \in Versioned(dyn) THEN VersionIndex(dyn, VersionKey(dyn, k)) ELSE 1
           a == [k \in 1 .. NImports(dyn) |-> val(k)]
           e == [k \in 1 .. NExports(dyn) |-> 1]
           T == {1} \cup {val(k) : k \in 1 .. NImports(dyn)}
<1>3. Versym(dyn) = a \o e
  BY <1>2, Zenon DEF Versym
<1>4. a \in Seq(T) /\ e \in Seq(T) /\ Len(a) = NImports(dyn)
  <2> HIDE DEF val
  <2> QED BY <1>1, <1>2
<1>5. a[i] = VersionIndex(dyn, VersionKey(dyn, i))
  BY <1>1
<1> HIDE DEF a, e, T
<1>6. \A k \in 1..Len(a) : (a \o e)[k] = a[k]
  BY <1>4, ConcatFacts
<1> QED BY <1>1, <1>3, <1>4, <1>5, <1>6

LEMMA VersionsLead ==
  ASSUME NEW dyn, DynWellFormed(dyn), NEW i \in Versioned(dyn)
  PROVE  \E v \in Verneed(dyn) :
           /\ v.other = Versym(dyn)[i] /\ v.lib = dyn.imports[i].lib /\ v.ver = dyn.imports[i].ver
           /\ \A w \in Verneed(dyn) : w.other = v.other => w = v
<1> DEFINE Entry(k) == [lib |-> dyn.needed[k[1]], ver |-> k[2], other |-> VersionIndex(dyn, k)]
           key == VersionKey(dyn, i)
           v == Entry(key)
<1>1. v \in Verneed(dyn)
  BY Zenon DEF Verneed
<1>2. v.other = Versym(dyn)[i]
  BY VersymOfImport
<1>3. v.lib = dyn.imports[i].lib /\ v.ver = dyn.imports[i].ver
  <2>1. SonameIndex(dyn, dyn.imports[i].lib) # 0
    BY DEF Versioned
  <2>2. dyn.needed[SonameIndex(dyn, dyn.imports[i].lib)] = dyn.imports[i].lib
    BY <2>1, SonameFound
  <2> QED BY <2>2 DEF VersionKey
<1>4. ASSUME NEW w \in Verneed(dyn), w.other = v.other PROVE w = v
  <2>1. PICK j \in Versioned(dyn) : w = Entry(VersionKey(dyn, j))
    BY Zenon DEF Verneed
  <2>2. w.other = VersionIndex(dyn, VersionKey(dyn, j)) /\ v.other = VersionIndex(dyn, key)
    BY <2>1
  <2>3. VersionKey(dyn, j) = key
    BY <1>4, <2>2, VersionIndexInjective
  <2> QED BY <2>1, <2>3
<1> HIDE DEF v
<1> QED BY <1>1, <1>2, <1>3, <1>4

-----------------------------------------------------------------------------
(* The link.                                                               *)

(* The passes that are not part of a layout, and what the layout has been  *)
(* asked for in all the others.                                            *)
NoLayout == {"output", "error", "merge_sections", "merge_locals", "merge_globals", "rela", "offsets",
             "merged", "handoff"}
Accepted ==
  /\ prog \in Programs
  /\ pc \notin NoLayout => ~prog.relocatable /\ ~(prog.dynamic /\ HashStyleUnsupported(prog.dyn))

(* A hash style that cannot be built is refused before anything else.      *)
LEMMA AcceptedStep ==
  ASSUME Accepted, [LinkNext]_<<allvars, rel>>
  PROVE  Accepted'
<1>1. CASE LinkRelocatable
  <2>1. prog' = prog /\ pc' \in NoLayout
    BY <1>1 DEF LinkRelocatable, NoLayout, R!EmitRelocatable, R!HandOff, R!ApplyDefsym,
       R!MergeSections, R!MergeLocals, R!MergeGlobals, R!BuildRela, R!AssignOffsets
  <2> QED BY <2>1 DEF Accepted
<1>2. CASE PrebuildDynamic /\ UNCHANGED image
  BY <1>2 DEF PrebuildDynamic, Accepted
<1>3. CASE RejectHashStyle \/ RejectAlignment \/ RejectEntry \/ PhdrCountMismatch
  BY <1>3 DEF RejectHashStyle, RejectAlignment, RejectEntry, PhdrCountMismatch, Fail, Accepted, NoLayout
<1>4. ASSUME pc \notin NoLayout, prog' = prog PROVE Accepted'
  BY <1>4 DEF Accepted
<1>5. CASE GroupSection \/ AddSynthetic \/ CountHeaders \/ OrderWritable \/ AliasFolded \/ AssignSlots \/ TlsLayout
  <2>1. pc \notin NoLayout /\ prog' = prog
    BY <1>5 DEF GroupSection, AddSynthetic, CountHeaders, OrderWritable, AliasFolded, AssignSlots, TlsLayout, NoLayout
  <2> QED BY <1>4, <2>1
<1>6. CASE PlaceReadOnly \/ PlaceExecutable \/ PlaceWritable \/ PlaceMeta
  <2>1. pc \notin NoLayout /\ prog' = prog
    BY <1>6 DEF PlaceReadOnly, PlaceExecutable, PlaceWritable, PlaceMeta, Placed, NoLayout
  <2> QED BY <1>4, <2>1
<1>7. CASE ResolveEntry \/ BuildDynamic \/ ProgramHeaders \/ LinkerSymbols
  <2>1. pc \notin NoLayout /\ prog' = prog
    BY <1>7 DEF ResolveEntry, BuildDynamic, ProgramHeaders, LinkerSymbols, NoLayout
  <2> QED BY <1>4, <2>1
<1>8. CASE OpenOutput \/ WriteHeaders \/ WriteSynthetic \/ CopyInputs \/ WriteTlsGot
           \/ WriteEhFrameHdr \/ WriteSectionHeaders \/ FinalizeBuildId
  <2>1. pc \notin NoLayout /\ prog' = prog
    BY <1>8 DEF OpenOutput, WriteHeaders, WriteSynthetic, CopyInputs, WriteTlsGot, WriteEhFrameHdr,
       WriteSectionHeaders, FinalizeBuildId, Step, NoLayout
  <2> QED BY <1>4, <2>1
<1>9. CASE UNCHANGED <<allvars, rel>>
  BY <1>9 DEF allvars, vars, Accepted
<1> QED
  BY <1>1, <1>2, <1>3, <1>5, <1>6, <1>7, <1>8, <1>9
  DEF LinkNext, LinkImage, EmitImageNext, Laying, ComputeLayout, Ended

(* The tables for the loader are right: in every finished layout of every  *)
(* dynamic program the hash table finds the exports and copied imports,    *)
(* each at its own entry, and nothing else, and the version number of an   *)
(* import leads to its library and version.                                *)
THEOREM LoaderFindsAlways == LinkSpec => []LoaderFinds
<1>1. LinkInit => Accepted
  BY DEF LinkInit, EmitInit, Init, Accepted, NoLayout
<1>2. Accepted /\ [LinkNext]_<<allvars, rel>> => Accepted'
  BY AcceptedStep
<1>3. Accepted => LoaderFinds
  <2> SUFFICES ASSUME Accepted, LaidOut, prog.dynamic PROVE LoaderFinds
    BY DEF LoaderFinds
  <2> DEFINE d == prog.dyn
  <2>1. ~prog.relocatable /\ ~HashStyleUnsupported(d)
    BY DEF Accepted, LaidOut, NoLayout
  <2>2. DynWellFormed(d)
    BY <2>1, ProgramsAssumption DEF Accepted, IsProgram
  <2>3. \A i \in DOMAIN DynSyms(d) :
          Found(d, DynSyms(d)[i]) = IF i \in Copied(d) \cup Exported(d) THEN {i} ELSE {}
    BY <2>1, <2>2, FoundExact DEF Hashed
  <2>4. \A i \in Versioned(d) : \E v \in Verneed(d) :
          /\ v.other = Versym(d)[i] /\ v.lib = d.imports[i].lib /\ v.ver = d.imports[i].ver
          /\ \A w \in Verneed(d) : w.other = v.other => w = v
    BY <2>2, VersionsLead
  <2> HIDE DEF d
  <2>5. QED BY <2>3, <2>4, Zenon DEF LoaderFinds, d
<1> QED BY <1>1, <1>2, <1>3, PTL DEF LinkSpec

-----------------------------------------------------------------------------
(* Sorting.                                                                *)

(* In a finite total order the number of members up to i is a position,    *)
(* a different one for each i, and every position is that of some member.  *)
TotalOrder(I, order) ==
  /\ \A i, j \in I : <<i, j>> \in order \/ <<j, i>> \in order
  /\ \A i, j \in I : <<i, j>> \in order /\ <<j, i>> \in order => i = j
  /\ \A i, j, k \in I : <<i, j>> \in order /\ <<j, k>> \in order => <<i, k>> \in order
PositionOf(I, order, i) == Cardinality({j \in I : <<j, i>> \in order})

LEMMA Positions ==
  ASSUME NEW I, IsFiniteSet(I), NEW order, TotalOrder(I, order)
  PROVE  /\ \A i \in I : PositionOf(I, order, i) \in 1 .. Cardinality(I)
         /\ \A i, j \in I : PositionOf(I, order, i) = PositionOf(I, order, j) => i = j
         /\ \A p \in 1 .. Cardinality(I) : \E i \in I : p = PositionOf(I, order, i)
<1> DEFINE Down(i) == {j \in I : <<j, i>> \in order}
           n == Cardinality(I)
           f == [i \in I |-> Cardinality(Down(i))]
<1>1. n \in Nat
  BY FS_CardinalityType
<1>2. ASSUME NEW i \in I
      PROVE  /\ IsFiniteSet(Down(i)) /\ Cardinality(Down(i)) \in 1..n /\ i \in Down(i)
  <2>1. i \in Down(i)
    BY DEF TotalOrder
  <2>2. IsFiniteSet(Down(i)) /\ Cardinality(Down(i)) <= n
    <3>1. Down(i) \in SUBSET I
      OBVIOUS
    <3> HIDE DEF Down
    <3> QED BY <3>1, FS_Subset
  <2>3. Cardinality(Down(i)) \in Nat
    BY <2>2, FS_CardinalityType
  <2>4. Cardinality(Down(i)) # 0
    <3> HIDE DEF Down
    <3> QED BY <2>1, <2>2, FS_EmptySet
  <2> HIDE DEF Down, n
  <2> QED BY <2>1, <2>2, <2>3, <2>4, <1>1
<1>3. ASSUME NEW i \in I, NEW j \in I, f[i] = f[j]
      PROVE  i = j
  <2>1. CASE <<i, j>> \in order
    <3>1. Down(i) \in SUBSET Down(j)
      BY <2>1 DEF TotalOrder
    <3>2. Cardinality(Down(i)) = Cardinality(Down(j))
      BY <1>3
    <3>3. Down(i) = Down(j)
      <4> HIDE DEF Down
      <4> QED BY <1>2, <3>1, <3>2, FS_Subset
    <3>4. <<j, i>> \in order
      BY <1>2, <3>3
    <3> QED BY <2>1, <3>4 DEF TotalOrder
  <2>2. CASE <<j, i>> \in order
    <3>1. Down(j) \in SUBSET Down(i)
      BY <2>2 DEF TotalOrder
    <3>2. Cardinality(Down(i)) = Cardinality(Down(j))
      BY <1>3
    <3>3. Down(i) = Down(j)
      <4> HIDE DEF Down
      <4> QED BY <1>2, <3>1, <3>2, FS_Subset
    <3>4. <<i, j>> \in order
      BY <1>2, <3>3
    <3> QED BY <2>2, <3>4 DEF TotalOrder
  <2> QED BY <2>1, <2>2 DEF TotalOrder
<1>4. f \in Injection(I, 1..n)
  <2>1. f \in [I -> 1..n]
    BY <1>2
  <2> HIDE DEF f
  <2> QED BY <1>3, <2>1 DEF Injection, IsInjective
<1>5. IsFiniteSet(1..n) /\ Cardinality(1..n) = n
  BY <1>1, FS_Interval
<1>6. f \in Surjection(I, 1..n)
  <2> HIDE DEF f
  <2> QED BY <1>4, <1>5, FS_Injection
<1>7. \A p \in 1..n : \E i \in I : p = f[i]
  <2> HIDE DEF f
  <2> QED BY <1>6 DEF Surjection
<1> QED BY <1>2, <1>3, <1>7 DEF PositionOf

(* An arrangement has the members at the positions, and no others.         *)
Holds(t, s, I) ==
  /\ IsSeq(t) /\ Len(t) = Cardinality(I)
  /\ \A p \in 1 .. Len(t) : \E i \in I : t[p] = s[i]
  /\ \A i \in I : \E p \in 1 .. Len(t) : t[p] = s[i]

LEMMA FunctionIsSeq ==
  ASSUME NEW n \in Nat, NEW t, t = [p \in 1..n |-> t[p]]
  PROVE  IsSeq(t) /\ Len(t) = n /\ DOMAIN t = 1..n
<1>1. \A p \in 1..n : t[p] \in ToSet(t)
  BY DEF ToSet
<1> HIDE DEF ToSet
<1>2. t \in [1..n -> ToSet(t)]
  BY <1>1
<1>3. t \in Seq(ToSet(t))
  BY <1>2
<1>4. DOMAIN t = 1..n
  BY <1>2
<1> QED BY <1>3, <1>4 DEF IsSeq

LEMMA ArrangedHolds ==
  ASSUME NEW s, NEW I, IsFiniteSet(I), NEW order, TotalOrder(I, order)
  PROVE  Holds(Arranged(s, I, order), s, I)
<1> DEFINE n == Cardinality(I)
           At(p) == CHOOSE i \in I : p = PositionOf(I, order, i)
           t == Arranged(s, I, order)
<1>1. n \in Nat
  BY FS_CardinalityType
<1>2. t = [p \in 1..n |-> s[At(p)]]
  BY DEF Arranged, PositionOf
<1>3. ASSUME NEW p \in 1..n
      PROVE  At(p) \in I /\ p = PositionOf(I, order, At(p))
  BY Positions
<1>4. ASSUME NEW i \in I
      PROVE  PositionOf(I, order, i) \in 1..n /\ At(PositionOf(I, order, i)) = i
  <2>1. PICK p : p = PositionOf(I, order, i)
    OBVIOUS
  <2>2. p \in 1..n
    BY <2>1, Positions
  <2>3. PICK j : j = At(p)
    OBVIOUS
  <2>4. j \in I /\ p = PositionOf(I, order, j)
    BY <2>2, <2>3, <1>3
  <2>5. \A k, m \in I : PositionOf(I, order, k) = PositionOf(I, order, m) => k = m
    BY Positions, Zenon
  <2>6. j = i
    BY <2>1, <2>4, <2>5, Zenon
  <2> HIDE DEF At
  <2> QED BY <2>1, <2>2, <2>3, <2>6
<1> HIDE DEF At, n
<1>5. t = [p \in 1..n |-> t[p]] /\ \A p \in 1..n : t[p] = s[At(p)]
  BY <1>2
<1> HIDE DEF t
<1>6. IsSeq(t) /\ Len(t) = n
  BY <1>1, <1>5, FunctionIsSeq
<1>7. \A p \in 1..Len(t) : \E i \in I : t[p] = s[i]
  BY <1>3, <1>5, <1>6
<1>8. \A i \in I : \E p \in 1..Len(t) : t[p] = s[i]
  BY <1>4, <1>5, <1>6
<1> QED BY <1>6, <1>7, <1>8 DEF Holds, t, n

(* An earlier member of an arrangement comes before a later one.           *)
Precedes(s, I, order, p, q) ==
  \E i, j \in I : Arranged(s, I, order)[p] = s[i] /\ Arranged(s, I, order)[q] = s[j] /\ <<i, j>> \in order
LEMMA ArrangedSorted ==
  ASSUME NEW s, NEW I, IsFiniteSet(I), NEW order, TotalOrder(I, order)
  PROVE  \A p, q \in 1 .. Cardinality(I) : p < q => Precedes(s, I, order, p, q)
<1> SUFFICES ASSUME NEW p \in 1 .. Cardinality(I), NEW q \in 1 .. Cardinality(I), p < q
             PROVE  Precedes(s, I, order, p, q)
  BY Zenon
<1> DEFINE At(x) == CHOOSE i \in I : x = PositionOf(I, order, i)
<1>1. Arranged(s, I, order)[p] = s[At(p)] /\ Arranged(s, I, order)[q] = s[At(q)]
  BY DEF Arranged, PositionOf
<1>2. PICK i, j : i = At(p) /\ j = At(q)
  OBVIOUS
<1>3. i \in I /\ j \in I /\ p = PositionOf(I, order, i) /\ q = PositionOf(I, order, j)
  BY <1>2, Positions
<1> HIDE DEF At
<1>4. ASSUME <<i, j>> \notin order PROVE FALSE
  <2>1. <<j, i>> \in order
    BY <1>3, <1>4 DEF TotalOrder
  <2>2. PICK A, B : A = {x \in I : <<x, j>> \in order} /\ B = {x \in I : <<x, i>> \in order}
    OBVIOUS
  <2>3. A \subseteq B /\ B \subseteq I
    BY <1>3, <2>1, <2>2 DEF TotalOrder
  <2>4. IsFiniteSet(B)
    BY <2>3, FS_Subset
  <2>5. Cardinality(A) <= Cardinality(B)
    BY <2>3, <2>4, FS_Subset
  <2> QED BY <1>3, <2>2, <2>5, FS_CardinalityType DEF PositionOf
<1> QED BY <1>1, <1>2, <1>3, <1>4 DEF Precedes

(* Sorting by up to three numbers, one after the other, and then by the    *)
(* position is a total order.                                              *)
Smaller(a, b, c, i, j) ==
  a[i] < a[j] \/ (a[i] = a[j] /\ (b[i] < b[j] \/ (b[i] = b[j] /\ c[i] < c[j])))
LEMMA StableOrder ==
  ASSUME NEW I \in SUBSET Nat, NEW a \in [I -> Int], NEW b \in [I -> Int], NEW c \in [I -> Int],
         NEW order, \A i, j \in I : <<i, j>> \in order <=>
                      Smaller(a, b, c, i, j) \/ (i <= j /\ ~Smaller(a, b, c, j, i))
  PROVE  TotalOrder(I, order)
<1>1. ASSUME NEW i \in I, NEW j \in I PROVE <<i, j>> \in order \/ <<j, i>> \in order
  <2>1. i \in Nat /\ j \in Nat /\ (i <= j \/ j <= i)
    OBVIOUS
  <2>2. a[i] \in Int /\ a[j] \in Int /\ b[i] \in Int /\ b[j] \in Int /\ c[i] \in Int /\ c[j] \in Int
    OBVIOUS
  <2> QED BY <2>1, <2>2 DEF Smaller
<1>2. \A i, j \in I : <<i, j>> \in order /\ <<j, i>> \in order => i = j
  BY DEF Smaller
<1>3. \A i, j, k \in I : <<i, j>> \in order /\ <<j, k>> \in order => <<i, k>> \in order
  BY DEF Smaller
<1> QED BY <1>1, <1>2, <1>3 DEF TotalOrder

LEMMA InOrderHolds ==
  ASSUME NEW s, NEW n \in Nat, NEW I \in SUBSET (1..n)
  PROVE  Holds(InOrder(s, I), s, I)
<1> DEFINE order == {x \in I \X I : x[1] <= x[2]}
<1>1. TotalOrder(I, order)
  BY DEF TotalOrder
<1>2. IsFiniteSet(I)
  <2>1. IsFiniteSet(1..n)
    BY FS_Interval
  <2> QED BY <2>1, FS_Subset
<1> HIDE DEF order
<1>3. Holds(Arranged(s, I, order), s, I)
  BY <1>1, <1>2, ArrangedHolds
<1> QED BY <1>3 DEF InOrder, order

-----------------------------------------------------------------------------
(* Sizes and alignments.                                                   *)

(* Rounding up never goes back, and by less than the alignment.            *)
LEMMA AlignUpFacts ==
  ASSUME NEW v \in Nat, NEW a \in Nat
  PROVE  AlignUp(v, a) \in Nat /\ v <= AlignUp(v, a)
<1>1. CASE a <= 1
  BY <1>1 DEF AlignUp
<1>2. CASE a > 1
  <2>1. PICK q, r : q = (v + a - 1) \div a /\ r = (v + a - 1) % a
    OBVIOUS
  <2>2. q \in Int /\ r \in 0..(a - 1) /\ v + a - 1 = a * q + r
    BY <1>2, <2>1
  <2>3. AlignUp(v, a) = q * a
    BY <1>2, <2>1 DEF AlignUp
  <2>4. a * q = q * a /\ a * q >= v
    BY <1>2, <2>2
  <2> QED BY <2>2, <2>3, <2>4
<1> QED BY <1>1, <1>2

LEMMA ImageBound ==
  ASSUME NEW N \in Nat, NEW f \in [1..N -> Nat]
  PROVE  \E b \in Nat : \A k \in 1..N : f[k] <= b
<1> DEFINE P(n) == \E b \in Nat : \A k \in 1..n : f[k] <= b
           G == {n \in 0..N : P(n)}
<1>1. 0 \in G
  <2>1. \A k \in 1..0 : f[k] <= 0
    OBVIOUS
  <2> QED BY <2>1
<1>2. ASSUME NEW n \in 1..N, n - 1 \in G PROVE n \in G
  <2>1. PICK b \in Nat : \A k \in 1..(n - 1) : f[k] <= b
    BY <1>2
  <2>2. f[n] \in Nat
    OBVIOUS
  <2>3. PICK c \in Nat : b <= c /\ f[n] <= c
    <3>1. CASE b <= f[n]
      BY <2>2, <3>1
    <3>2. CASE f[n] <= b
      BY <2>2, <3>2
    <3> QED BY <2>2, <3>1, <3>2
  <2>4. \A k \in 1..n : f[k] <= c
    <3> TAKE k \in 1..n
    <3>1. CASE k = n
      BY <2>3, <3>1
    <3>2. CASE k \in 1..(n - 1)
      BY <2>1, <2>3, <3>2
    <3> QED BY <3>1, <3>2
  <2>5. P(n)
    BY <2>4, Zenon
  <2>6. n \in 0..N
    OBVIOUS
  <2> HIDE DEF P
  <2> QED BY <2>5, <2>6, Zenon
<1> HIDE DEF G
<1>3. \A n \in 1..N : n - 1 \in G => n \in G
  BY <1>2
<1>4. \A n \in 0..N : n \in G
  BY <1>1, <1>3, UpTo
<1>5. N \in G
  BY <1>4
<1> QED BY <1>5 DEF G

LEMMA MaxOf ==
  ASSUME NEW b \in Nat, NEW S \in SUBSET (0..b), S # {}
  PROVE  Max(S) \in S /\ \A m \in S : m <= Max(S)
<1>1. PICK n \in S : \A m \in S : m <= n
  BY GreatestNat
<1>2. \E x \in S : \A y \in S : x >= y
  BY <1>1
<1>3. Max(S) \in S /\ \A y \in S : Max(S) >= y
  BY <1>2, Zenon DEF Max
<1> QED BY <1>3

LEMMA MinOf ==
  ASSUME NEW S \in SUBSET Nat, S # {}
  PROVE  Min(S) \in S /\ \A m \in S : Min(S) <= m
<1>1. PICK n \in S : \A m \in S : n <= m
  BY LeastNat
<1>2. Min(S) \in S /\ \A y \in S : Min(S) <= y
  BY <1>1, Zenon DEF Min
<1> QED BY <1>2

(* Sequences of things with a size and an alignment.                       *)
Sized(bs) == IsSeq(bs) /\ \A k \in 1 .. Len(bs) : bs[k].size \in Nat /\ bs[k].align \in Nat

LEMMA MaxAlignFacts ==
  ASSUME NEW bs, Sized(bs)
  PROVE  /\ MaxAlign(bs) \in Nat /\ 1 <= MaxAlign(bs)
         /\ \A k \in 1 .. Len(bs) : bs[k].align <= MaxAlign(bs)
         /\ MaxAlign(bs) = 1 \/ \E k \in 1 .. Len(bs) : MaxAlign(bs) = bs[k].align
<1> DEFINE N == Len(bs)
           f == [k \in 1..N |-> bs[k].align]
           S == {1} \cup {bs[k].align : k \in DOMAIN bs}
<1>1. N \in Nat /\ DOMAIN bs = 1..N
  BY DEF Sized, IsSeq
<1>2. f \in [1..N -> Nat]
  BY DEF Sized
<1>3. PICK c \in Nat : \A k \in 1..N : f[k] <= c
  <2> HIDE DEF f
  <2> QED BY <1>1, <1>2, ImageBound
<1>4. \A k \in 1..N : bs[k].align \in Nat /\ bs[k].align <= c
  BY <1>2, <1>3
<1>5. S \in SUBSET (0..(c + 1)) /\ S # {} /\ 1 \in S
  BY <1>1, <1>4
<1>6. \A k \in 1..N : bs[k].align \in S
  BY <1>1
<1>7. \A x \in S : x = 1 \/ \E k \in 1..N : x = bs[k].align
  BY <1>1
<1>8. MaxAlign(bs) = Max(S)
  BY DEF MaxAlign
<1> HIDE DEF S, N, f
<1>9. Max(S) \in S /\ \A m \in S : m <= Max(S)
  <2>1. c + 1 \in Nat
    OBVIOUS
  <2> QED BY <1>5, <2>1, MaxOf
<1>10. PICK x : x = MaxAlign(bs)
  OBVIOUS
<1>11. x \in S /\ \A m \in S : m <= x
  BY <1>8, <1>9, <1>10
<1>12. x \in Nat /\ 1 <= x /\ \A k \in 1..N : bs[k].align <= x
  <2>1. x \in 0..(c + 1)
    BY <1>5, <1>11
  <2>2. 1 <= x
    BY <1>5, <1>11
  <2>3. \A k \in 1..N : bs[k].align <= x
    BY <1>6, <1>11
  <2> QED BY <2>1, <2>2, <2>3
<1>13. x = 1 \/ \E k \in 1..N : x = bs[k].align
  BY <1>7, <1>11
<1> QED BY <1>10, <1>12, <1>13 DEF N

(* The ends are where they should be, and never go back.                   *)
LEMMA EndsFacts ==
  ASSUME NEW bs, Sized(bs), NEW v \in Nat
  PROVE  /\ Ends(bs, v) \in [0 .. Len(bs) -> Nat]
         /\ Ends(bs, v)[0] = v
         /\ \A k \in 1 .. Len(bs) :
              Ends(bs, v)[k] = AlignUp(Ends(bs, v)[k - 1], bs[k].align) + bs[k].size
<1> DEFINE N == Len(bs)
           Put(k, x) == AlignUp(x, bs[k].align) + bs[k].size
           step == [k \in 1..N |-> [x \in Nat |-> Put(k, x)]]
           Rec(g) == g = [k \in 0..N |-> IF k = 0 THEN v ELSE Put(k, g[k - 1])]
<1>1. N \in Nat
  BY DEF Sized, IsSeq
<1>2. \A k \in 1..N : \A x \in Nat : Put(k, x) \in Nat
  <2> TAKE k \in 1..N
  <2> TAKE x \in Nat
  <2>1. bs[k].size \in Nat /\ bs[k].align \in Nat
    BY DEF Sized
  <2>2. AlignUp(x, bs[k].align) \in Nat
    BY <2>1, AlignUpFacts
  <2> QED BY <2>1, <2>2
<1>3. \E f : IsRun(N, Nat, v, step, f)
  <2>1. Closed(N, Nat, step)
    BY <1>2 DEF Closed
  <2> HIDE DEF step, N
  <2> QED BY <1>1, <2>1, StepsExist
<1>4. \E g : Rec(g)
  <2>0. PICK f : IsRun(N, Nat, v, step, f)
    BY <1>3
  <2>1. f \in [0..N -> Nat] /\ f[0] = v /\ \A k \in 1..N : f[k] = step[k][f[k - 1]]
    BY <2>0 DEF IsRun
  <2>2. \A k \in 1..N : f[k] = Put(k, f[k - 1])
    <3> TAKE k \in 1..N
    <3>1. k - 1 \in 0..N /\ f[k - 1] \in Nat
      BY <1>1, <2>1
    <3> HIDE DEF Put
    <3> QED BY <2>1, <3>1
  <2> HIDE DEF step, Put
  <2>3. Rec(f)
    BY <1>1, <2>1, <2>2
  <2> QED BY <2>3
<1>5. PICK g : Rec(g) /\ Ends(bs, v) = g
  <2>1. Ends(bs, v) = CHOOSE g : Rec(g)
    BY Zenon DEF Ends
  <2> HIDE DEF Rec
  <2> QED BY <1>4, <2>1
<1> HIDE DEF Put
<1>6. DOMAIN g = 0..N /\ g[0] = v /\ \A k \in 1..N : g[k] = Put(k, g[k - 1])
  BY <1>1, <1>5
<1>7. \A k \in 0..N : g[k] \in Nat
  <2> DEFINE G == {k \in 0..N : g[k] \in Nat}
  <2>1. 0 \in G
    BY <1>1, <1>6
  <2>2. \A k \in 1..N : k - 1 \in G => k \in G
    BY <1>1, <1>2, <1>6
  <2> HIDE DEF G
  <2>3. \A k \in 0..N : k \in G
    BY <1>1, <2>1, <2>2, UpTo
  <2> QED BY <2>3 DEF G
<1>8. g \in [0..N -> Nat]
  <2>1. g = [k \in 0..N |-> g[k]]
    BY <1>5
  <2> QED BY <1>7, <2>1
<1> QED BY <1>5, <1>6, <1>8 DEF Put

LEMMA EndsGrow ==
  ASSUME NEW bs, Sized(bs), NEW v \in Nat, NEW i \in 0 .. Len(bs)
  PROVE  \A j \in i .. Len(bs) : Ends(bs, v)[i] <= Ends(bs, v)[j]
<1> DEFINE N == Len(bs)
<1>1. N \in Nat
  BY DEF Sized, IsSeq
<1>2. PICK e : e = Ends(bs, v)
  OBVIOUS
<1>3. /\ e \in [0..N -> Nat]
      /\ \A k \in 1..N : e[k] = AlignUp(e[k - 1], bs[k].align) + bs[k].size
  BY <1>2, EndsFacts
<1>4. \A k \in 1..N : e[k - 1] <= e[k]
  <2> TAKE k \in 1..N
  <2>1. k - 1 \in 0..N /\ e[k - 1] \in Nat /\ bs[k].align \in Nat /\ bs[k].size \in Nat
    BY <1>1, <1>3 DEF Sized
  <2>2. AlignUp(e[k - 1], bs[k].align) \in Nat /\ e[k - 1] <= AlignUp(e[k - 1], bs[k].align)
    BY <2>1, AlignUpFacts
  <2> QED BY <1>3, <2>1, <2>2
<1> DEFINE G == {n \in 0..N : i <= n => e[i] <= e[n]}
<1> HIDE DEF N
<1>5. 0 \in G
  BY <1>1, <1>3 DEF N
<1>6. \A n \in 1..N : n - 1 \in G => n \in G
  <2> TAKE n \in 1..N
  <2>2. n \in 0..N /\ n - 1 \in 0..N /\ i \in 0..N
    BY <1>1 DEF N
  <2>1. e[n - 1] \in Nat /\ e[n] \in Nat /\ e[i] \in Nat /\ e[n - 1] <= e[n] /\ n \in 0..N
    <3>1. e[n - 1] <= e[n]
      BY <1>4, Zenon
    <3> QED BY <1>3, <2>2, <3>1, Zenon
  <2> QED BY <2>1 DEF N
<1> HIDE DEF G
<1>7. \A n \in 0..N : n \in G
  BY <1>1, <1>5, <1>6, UpTo
<1> QED BY <1>1, <1>2, <1>7 DEF G, N

(* Each thing lies between its beginning and its end, after the start.     *)
LEMMA BeginFacts ==
  ASSUME NEW bs, Sized(bs), NEW v \in Nat, NEW k \in 1 .. Len(bs)
  PROVE  /\ Begin(bs, v, k) \in Nat /\ End(bs, v) \in Nat
         /\ v <= Begin(bs, v, k) /\ Ends(bs, v)[k - 1] <= Begin(bs, v, k)
         /\ Begin(bs, v, k) + bs[k].size = Ends(bs, v)[k]
         /\ Begin(bs, v, k) + bs[k].size <= End(bs, v)
<1> DEFINE N == Len(bs)
<1>1. N \in Nat /\ k - 1 \in 0..N /\ k \in 0..N /\ 0 \in 0..N /\ N \in k..N /\ k - 1 \in 0..N
  BY DEF Sized, IsSeq
<1>2. PICK e : e = Ends(bs, v)
  OBVIOUS
<1>3. e \in [0..N -> Nat] /\ e[0] = v /\ e[k] = AlignUp(e[k - 1], bs[k].align) + bs[k].size
  BY <1>2, EndsFacts
<1>4. e[k - 1] \in Nat /\ bs[k].align \in Nat /\ bs[k].size \in Nat
  BY <1>1, <1>3 DEF Sized
<1>5. AlignUp(e[k - 1], bs[k].align) \in Nat /\ e[k - 1] <= AlignUp(e[k - 1], bs[k].align)
  BY <1>4, AlignUpFacts
<1>6. e[0] <= e[k - 1]
  BY <1>1, <1>2, EndsGrow
<1>7. e[k] <= e[N]
  BY <1>1, <1>2, EndsGrow
<1>8. Begin(bs, v, k) = AlignUp(e[k - 1], bs[k].align) /\ End(bs, v) = e[N]
  BY <1>2 DEF Begin, End
<1>9. e[N] \in Nat
  BY <1>1, <1>3
<1> QED BY <1>2, <1>3, <1>4, <1>5, <1>6, <1>7, <1>8, <1>9

-----------------------------------------------------------------------------
(* Output sections.                                                        *)

LEMMA ConcatIsSeq ==
  ASSUME NEW a, NEW b, IsSeq(a), IsSeq(b)
  PROVE  /\ IsSeq(a \o b) /\ Len(a) \in Nat /\ Len(b) \in Nat /\ Len(a \o b) = Len(a) + Len(b)
         /\ DOMAIN a = 1 .. Len(a) /\ DOMAIN b = 1 .. Len(b)
         /\ DOMAIN (a \o b) = 1 .. Len(a) + Len(b)
         /\ \A i \in 1..Len(a) : (a \o b)[i] = a[i]
         /\ \A i \in 1..Len(b) : (a \o b)[Len(a) + i] = b[i]
<1> DEFINE T == ToSet(a) \cup ToSet(b)
<1>1. a \in Seq(T) /\ b \in Seq(T)
  <2>1. a \in Seq(ToSet(a)) /\ b \in Seq(ToSet(b)) /\ ToSet(a) \subseteq T /\ ToSet(b) \subseteq T
    BY DEF IsSeq
  <2>2. \A S : \A s \in Seq(S) : S \subseteq T => s \in Seq(T)
    OBVIOUS
  <2> HIDE DEF T
  <2> QED BY <2>1, <2>2
<1> HIDE DEF T
<1>2. /\ a \o b \in Seq(T) /\ Len(a \o b) = Len(a) + Len(b)
      /\ DOMAIN (a \o b) = 1 .. Len(a) + Len(b)
      /\ \A i \in 1..Len(a) : (a \o b)[i] = a[i]
      /\ \A i \in 1..Len(b) : (a \o b)[Len(a) + i] = b[i]
  BY <1>1, ConcatFacts
<1>3. Len(a) \in Nat /\ Len(b) \in Nat /\ DOMAIN a = 1..Len(a) /\ DOMAIN b = 1..Len(b)
  BY <1>1
<1>4. IsSeq(a \o b)
  <2>1. PICK c, n : c = a \o b /\ n = Len(a) + Len(b)
    OBVIOUS
  <2>2. n \in Nat /\ c \in Seq(T) /\ Len(c) = n
    BY <2>1, <1>2, <1>3
  <2>3. c = [p \in 1..n |-> c[p]]
    BY <2>2
  <2>4. IsSeq(c)
    BY <2>2, <2>3, FunctionIsSeq
  <2> QED BY <2>1, <2>4
<1> QED BY <1>2, <1>3, <1>4

(* What an output section is made of.                                      *)
Fields == {"name", "kind", "flags", "align", "size", "nobits", "parts", "addr", "off", "source"}
IsBuilder(b) ==
  /\ b = [f \in Fields |-> b[f]]
  /\ b.size \in Nat /\ b.align \in Nat /\ b.nobits = (b.kind \in {"Bss", "Tbss"})
IsBuilders(bs) == IsSeq(bs) /\ \A k \in 1 .. Len(bs) : IsBuilder(bs[k])

(* What no pass changes of it once it is assembled.                        *)
Core(b) == [name |-> b.name, kind |-> b.kind, flags |-> b.flags, size |-> b.size]
Cores(bs) == {Core(bs[k]) : k \in DOMAIN bs}

LEMMA BuildersSized ==
  ASSUME NEW bs, IsBuilders(bs)
  PROVE  Sized(bs) /\ Len(bs) \in Nat /\ DOMAIN bs = 1 .. Len(bs)
<1>1. \A b : IsBuilder(b) => b.size \in Nat /\ b.align \in Nat
  BY DEF IsBuilder
<1>2. Sized(bs)
  BY <1>1 DEF IsBuilders, Sized
<1>3. Len(bs) \in Nat /\ DOMAIN bs = 1 .. Len(bs)
  BY DEF IsBuilders, IsSeq
<1> QED BY <1>2, <1>3

LEMMA BuildersConcat ==
  ASSUME NEW a, NEW b, IsBuilders(a), IsBuilders(b)
  PROVE  IsBuilders(a \o b) /\ Cores(a \o b) = Cores(a) \cup Cores(b)
<1>1. PICK c, m, n : c = a \o b /\ m = Len(a) /\ n = Len(b)
  OBVIOUS
<1>2. /\ IsSeq(c) /\ m \in Nat /\ n \in Nat /\ Len(c) = m + n
      /\ DOMAIN a = 1..m /\ DOMAIN b = 1..n /\ DOMAIN c = 1..(m + n)
      /\ \A i \in 1..m : c[i] = a[i]
      /\ \A i \in 1..n : c[m + i] = b[i]
  BY <1>1, ConcatIsSeq DEF IsBuilders
<1>3. \A k \in 1..(m + n) : (k \in 1..m /\ c[k] = a[k]) \/ (k - m \in 1..n /\ c[k] = b[k - m])
  <2> TAKE k \in 1..(m + n)
  <2>1. CASE k \in 1..m
    BY <1>2, <2>1
  <2>2. CASE k \notin 1..m
    <3>1. PICK i : i = k - m
      OBVIOUS
    <3>2. i \in 1..n /\ k = m + i
      BY <1>2, <2>2, <3>1
    <3> QED BY <1>2, <3>1, <3>2
  <2> QED BY <2>1, <2>2
<1>4. \A k \in 1..(m + n) : IsBuilder(c[k])
  BY <1>1, <1>3 DEF IsBuilders
<1>5. Cores(c) \subseteq Cores(a) \cup Cores(b)
  BY <1>2, <1>3 DEF Cores
<1>6. Cores(a) \subseteq Cores(c)
  BY <1>2 DEF Cores
<1>7. Cores(b) \subseteq Cores(c)
  <2>1. \A i \in 1..n : m + i \in 1..(m + n)
    BY <1>2
  <2> QED BY <1>2, <2>1 DEF Cores
<1> QED BY <1>1, <1>2, <1>4, <1>5, <1>6, <1>7 DEF IsBuilders

LEMMA EmptyBuilders == IsBuilders(<< >>) /\ Cores(<< >>) = {}
<1>1. << >> \in Seq(ToSet(<< >>)) /\ Len(<< >>) = 0 /\ DOMAIN << >> = {}
  OBVIOUS
<1> QED BY <1>1 DEF IsBuilders, Cores, IsSeq

LEMMA OneBuilder ==
  ASSUME NEW b, IsBuilder(b)
  PROVE  IsBuilders(<<b>>) /\ Cores(<<b>>) = {Core(b)}
<1>1. <<b>> \in Seq({b}) /\ Len(<<b>>) = 1 /\ DOMAIN <<b>> = {1} /\ <<b>>[1] = b
  OBVIOUS
<1>2. ToSet(<<b>>) = {b}
  BY <1>1 DEF ToSet
<1> QED BY <1>1, <1>2 DEF IsBuilders, Cores, IsSeq

LEMMA NewBuilder ==
  ASSUME NEW name, NEW kind, NEW flags, NEW align \in Nat, NEW size \in Nat
  PROVE  /\ IsBuilder(Builder(name, kind, flags, align, size))
         /\ Core(Builder(name, kind, flags, align, size)) =
              [name |-> name, kind |-> kind, flags |-> flags, size |-> size]
         /\ Builder(name, kind, flags, align, size).parts = << >>
<1>1. PICK b : b = Builder(name, kind, flags, align, size)
  OBVIOUS
<1>2. DOMAIN b = Fields
  BY <1>1 DEF Builder, Fields
<1>3. b = [f \in DOMAIN b |-> b[f]]
  BY <1>1 DEF Builder
<1>4. b.name = name /\ b.kind = kind /\ b.flags = flags /\ b.align = align /\ b.size = size /\ b.parts = << >>
  BY <1>1 DEF Builder
<1>5. b.nobits = (kind \in {"Bss", "Tbss"})
  BY <1>1 DEF Builder
<1>6. b = [f \in Fields |-> b[f]]
  BY <1>2, <1>3
<1>7. b.nobits = (b.kind \in {"Bss", "Tbss"})
  BY <1>4, <1>5, Zenon
<1>8. IsBuilder(b)
  BY <1>4, <1>6, <1>7 DEF IsBuilder
<1>9. Core(b) = [name |-> name, kind |-> kind, flags |-> flags, size |-> size]
  BY <1>4 DEF Core
<1> QED BY <1>1, <1>4, <1>8, <1>9

(* A synthetic section is made if it has a size.                           *)
Made(name, kind, flags, size) ==
  IF size > 0 THEN {[name |-> name, kind |-> kind, flags |-> flags, size |-> size]} ELSE {}

LEMMA SomeMade ==
  ASSUME NEW name, NEW kind, NEW flags, NEW align \in Nat, NEW size \in Nat
  PROVE  /\ IsBuilders(Some(Builder(name, kind, flags, align, size)))
         /\ Cores(Some(Builder(name, kind, flags, align, size))) = Made(name, kind, flags, size)
<1>1. PICK b : b = Builder(name, kind, flags, align, size)
  OBVIOUS
<1>2. IsBuilder(b) /\ Core(b) = [name |-> name, kind |-> kind, flags |-> flags, size |-> size] /\ b.size = size
  <2>1. b.size = size
    BY <1>1 DEF Builder
  <2> QED BY <1>1, <2>1, NewBuilder
<1>3. IsBuilders(Some(b)) /\ Cores(Some(b)) = Made(name, kind, flags, size)
  BY <1>2, EmptyBuilders, OneBuilder DEF Some, Made
<1> QED BY <1>1, <1>3

-----------------------------------------------------------------------------
(* The sections the linker makes.                                          *)

Items(I, num) == UNION {{i} \X (1 .. num[i]) : i \in I}

(* What a finite sequence or set of numbers is mapped to is finite.        *)
LEMMA ImageFinite ==
  ASSUME NEW I, IsFiniteSet(I), NEW f, DOMAIN f = I
  PROVE  IsFiniteSet({f[k] : k \in I})
<1> DEFINE T == {f[k] : k \in I}
           g == [k \in I |-> f[k]]
<1>1. g \in [I -> T] /\ \A t \in T : \E k \in I : g[k] = t
  OBVIOUS
<1>2. g \in Surjection(I, T)
  <2> HIDE DEF g, T
  <2> QED BY <1>1 DEF Surjection
<1> HIDE DEF g, T
<1>3. IsFiniteSet(T)
  BY <1>2, FS_Surjection
<1> QED BY <1>3 DEF T

LEMMA CountedItems ==
  ASSUME NEW n \in Nat, NEW I \in SUBSET (1..n), NEW num, \A i \in I : num[i] \in Nat
  PROVE  IsFiniteSet(Items(I, num))
<1> DEFINE f == [i \in I |-> {i} \X (1 .. num[i])]
           T == {f[i] : i \in I}
<1>1. IsFiniteSet(I)
  <2>1. IsFiniteSet(1..n)
    BY FS_Interval
  <2> QED BY <2>1, FS_Subset
<1>2. IsFiniteSet(T)
  <2>1. DOMAIN f = I
    OBVIOUS
  <2> HIDE DEF f
  <2> QED BY <1>1, <2>1, ImageFinite
<1>3. \A i \in I : IsFiniteSet(f[i])
  <2> TAKE i \in I
  <2>1. IsFiniteSet({i}) /\ IsFiniteSet(1 .. num[i])
    <3>1. IsFiniteSet({i})
      BY FS_Singleton
    <3>2. 1 \in Int /\ num[i] \in Int
      OBVIOUS
    <3> QED BY <3>1, <3>2, FS_Interval
  <2>2. IsFiniteSet({i} \X (1 .. num[i]))
    BY <2>1, FS_Product
  <2> QED BY <2>2
<1>4. \A t \in T : IsFiniteSet(t)
  BY <1>3
<1>5. Items(I, num) = UNION T
  BY DEF Items
<1> HIDE DEF T
<1>6. IsFiniteSet(UNION T)
  BY <1>2, <1>4, FS_UNION
<1> QED BY <1>5, <1>6

LEMMA CountsOfSections ==
  ASSUME IsProgram(prog), NEW I \in SUBSET Secs
  PROVE  FdesOf(I) \in Nat /\ RelocsOf(I) \in Nat
<1>1. PICK n \in Nat : Secs = 1..n
  BY DEF IsProgram, IsSeq, Secs
<1>2. \A i \in Secs : Sec(i).fdes \in Nat /\ Sec(i).relocs \in Nat
  BY DEF IsProgram, Secs, Sec, PlainSection
<1> DEFINE f == [i \in I |-> Sec(i).fdes]
           r == [i \in I |-> Sec(i).relocs]
<1>3. (\A i \in I : f[i] \in Nat) /\ \A i \in I : r[i] \in Nat
  BY <1>2
<1>4. IsFiniteSet(Items(I, f))
  <2> HIDE DEF f
  <2> QED BY <1>1, <1>3, CountedItems
<1>5. IsFiniteSet(Items(I, r))
  <2> HIDE DEF r
  <2> QED BY <1>1, <1>3, CountedItems
<1>6. Items(I, f) = UNION {{i} \X (1 .. Sec(i).fdes) : i \in I}
  BY DEF Items
<1>7. Items(I, r) = UNION {{i} \X (1 .. Sec(i).relocs) : i \in I}
  BY DEF Items
<1> HIDE DEF f, r
<1> QED BY <1>4, <1>5, <1>6, <1>7, FS_CardinalityType DEF FdesOf, RelocsOf

LEMMA NoteSizeNat ==
  ASSUME IsProgram(prog)
  PROVE  NoteSize \in Nat
<1> DEFINE D == UNION {DOMAIN x : x \in ToSet(prog.notes)}
<1>1. PICK n \in Nat : DOMAIN prog.notes = 1..n
  BY DEF IsProgram, IsSeq
<1> DEFINE f == [k \in 1..n |-> DOMAIN prog.notes[k]]
           T == {f[k] : k \in 1..n}
<1>2. D = UNION T
  BY <1>1 DEF ToSet
<1>3. IsFiniteSet(T)
  <2>1. IsFiniteSet(1..n) /\ DOMAIN f = 1..n
    BY FS_Interval
  <2> HIDE DEF f
  <2> QED BY <2>1, ImageFinite
<1>4. \A t \in T : IsFiniteSet(t)
  BY <1>1 DEF IsProgram
<1>5. IsFiniteSet(D)
  <2> HIDE DEF T, D
  <2> QED BY <1>2, <1>3, <1>4, FS_UNION
<1>6. DOMAIN MergedNote = D
  BY DEF MergedNote
<1>7. Cardinality(DOMAIN MergedNote) \in Nat
  BY <1>5, <1>6, FS_CardinalityType
<1> QED BY <1>7 DEF NoteSize

LEMMA VersionCounts ==
  ASSUME NEW dyn, DynWellFormed(dyn)
  PROVE  Cardinality(Verneed(dyn)) \in Nat /\ VerneedNum(dyn) \in Nat
<1> DEFINE Entry(key) == [lib |-> dyn.needed[key[1]], ver |-> key[2], other |-> VersionIndex(dyn, key)]
           V == Versioned(dyn)
           f == [i \in V |-> Entry(VersionKey(dyn, i))]
           g == [v \in Verneed(dyn) |-> v.lib]
<1>1. IsFiniteSet(V)
  <2>1. NImports(dyn) \in Nat /\ V \in SUBSET (1 .. NImports(dyn))
    BY VersionedShape, Zenon
  <2>2. IsFiniteSet(1 .. NImports(dyn))
    BY <2>1, FS_Interval
  <2> HIDE DEF V
  <2> QED BY <2>1, <2>2, FS_Subset
<1>2. Verneed(dyn) = {f[i] : i \in V}
  BY DEF Verneed
<1>3. IsFiniteSet({f[i] : i \in V})
  <2>1. DOMAIN f = V
    OBVIOUS
  <2> HIDE DEF f, V
  <2> QED BY <1>1, <2>1, ImageFinite
<1>4. IsFiniteSet(Verneed(dyn))
  BY <1>2, <1>3
<1>5. IsFiniteSet({g[v] : v \in Verneed(dyn)})
  <2>1. DOMAIN g = Verneed(dyn)
    OBVIOUS
  <2> HIDE DEF g
  <2> QED BY <1>4, <2>1, ImageFinite
<1>6. {v.lib : v \in Verneed(dyn)} = {g[v] : v \in Verneed(dyn)}
  OBVIOUS
<1> HIDE DEF f, V, g
<1>7. Cardinality(Verneed(dyn)) \in Nat
  BY <1>4, FS_CardinalityType
<1>8. Cardinality({v.lib : v \in Verneed(dyn)}) \in Nat
  BY <1>5, <1>6, FS_CardinalityType
<1> QED BY <1>7, <1>8 DEF VerneedNum

LEMMA BlobSizes ==
  ASSUME IsProgram(prog), prog.dynamic
  PROVE  /\ DynBlobs.interp \in Nat /\ DynBlobs.hash \in Nat /\ DynBlobs.gnuhash \in Nat
         /\ DynBlobs.dynsym \in Nat /\ DynBlobs.dynstr \in Nat /\ DynBlobs.versym \in Nat
         /\ DynBlobs.verneed \in Nat /\ DynBlobs.rela \in Nat
         /\ DynBlobs.interp = IF prog.shared THEN 0 ELSE StrSize
<1>1. PICK d : d = prog.dyn
  OBVIOUS
<1>2. DynWellFormed(d) /\ d.rela \in Nat
  BY <1>1 DEF IsProgram
<1>3. PICK n, b, v, m, q : /\ n = Len(DynSyms(d)) /\ b = NBucket(d) /\ v = Cardinality(Verneed(d))
                           /\ m = VerneedNum(d) /\ q = Len(d.needed)
  OBVIOUS
<1>4. n \in Nat /\ b \in Nat
  BY <1>2, <1>3, HashedShape DEF NSyms
<1>5. v \in Nat /\ m \in Nat
  BY <1>2, <1>3, VersionCounts
<1>6. q \in Nat
  BY <1>2, <1>3 DEF DynWellFormed, IsSeq
<1>7. Flag(d.soname) \in Nat /\ Flag(d.rpath) \in Nat /\ StrSize \in Nat
  BY LayoutSizesAssumption DEF Flag
<1>8. PICK x : x = Strings
  OBVIOUS
<1>9. x \in Nat
  <2>1. x = n + q + Flag(d.soname) + Flag(d.rpath) + v
    BY <1>1, <1>3, <1>8, Zenon DEF Strings
  <2> QED BY <2>1, <1>4, <1>5, <1>6, <1>7
<1>10. StrSize * x \in Nat
  BY <1>7, <1>9
<1>11. DynBlobs =
         [interp  |-> IF prog.shared THEN 0 ELSE StrSize,
          hash    |-> IF HasHash(d) THEN 4 * (2 + b + (n + 1)) ELSE 0,
          gnuhash |-> IF HasGnuHash(d) THEN 28 ELSE 0,
          dynsym  |-> 24 * (n + 1),
          dynstr  |-> 1 + StrSize * x,
          versym  |-> IF Verneed(d) = {} THEN 0 ELSE 2 * (n + 1),
          verneed |-> 16 * (m + v),
          rela    |-> 24 * d.rela]
  BY <1>1, <1>3, <1>8 DEF DynBlobs, SYM_SIZE, RELA_SIZE
<1> QED BY <1>2, <1>4, <1>5, <1>7, <1>10, <1>11

LEMMA SizedConcat ==
  ASSUME NEW a, NEW b, Sized(a), Sized(b)
  PROVE  Sized(a \o b)
<1>1. PICK c, m, n : c = a \o b /\ m = Len(a) /\ n = Len(b)
  OBVIOUS
<1>2. /\ IsSeq(c) /\ m \in Nat /\ n \in Nat /\ Len(c) = m + n
      /\ \A i \in 1..m : c[i] = a[i]
      /\ \A i \in 1..n : c[m + i] = b[i]
  BY <1>1, ConcatIsSeq DEF Sized
<1>3. \A k \in 1..(m + n) : c[k].size \in Nat /\ c[k].align \in Nat
  <2> TAKE k \in 1..(m + n)
  <2>1. CASE k \in 1..m
    BY <1>1, <1>2, <2>1 DEF Sized
  <2>2. CASE k \notin 1..m
    <3>1. PICK i : i = k - m
      OBVIOUS
    <3>2. i \in 1..n /\ k = m + i
      BY <1>2, <2>2, <3>1
    <3> QED BY <1>1, <1>2, <3>2 DEF Sized
  <2> QED BY <2>1, <2>2
<1> QED BY <1>1, <1>2, <1>3 DEF Sized

LEMMA CopyAlignNat ==
  ASSUME NEW n \in Nat
  PROVE  CopyRelocAlign(n) \in Nat
<1>1. PICK m : m = Min({n, 32})
  OBVIOUS
<1>2. m \in {n, 32} /\ m <= 32
  <2>1. {n, 32} \in SUBSET Nat /\ {n, 32} # {}
    OBVIOUS
  <2>2. Min({n, 32}) \in {n, 32} /\ \A x \in {n, 32} : Min({n, 32}) <= x
    BY <2>1, MinOf
  <2> QED BY <1>1, <2>2
<1>3. PICK S : S = {a \in {1, 2, 4, 8, 16, 32} : a >= m}
  OBVIOUS
<1>4. S \in SUBSET Nat /\ 32 \in S
  BY <1>2, <1>3
<1>5. PICK x : x = Min(S)
  OBVIOUS
<1>6. x \in Nat
  <2>1. Min(S) \in S
    BY <1>4, MinOf
  <2> QED BY <1>4, <1>5, <2>1
<1>7. Min({16, x}) \in {16, x}
  <2>1. {16, x} \in SUBSET Nat /\ {16, x} # {}
    BY <1>6
  <2> QED BY <2>1, MinOf
<1>8. CopyRelocAlign(n) = Min({16, x})
  BY <1>1, <1>3, <1>5, Zenon DEF CopyRelocAlign
<1> QED BY <1>6, <1>7, <1>8

LEMMA AtLeastOne ==
  ASSUME NEW n \in Nat
  PROVE  Max({n, 1}) \in Nat /\ 1 <= Max({n, 1}) /\ n <= Max({n, 1})
<1>1. {n, 1} \in SUBSET (0..(n + 1)) /\ {n, 1} # {} /\ n + 1 \in Nat
  OBVIOUS
<1>2. Max({n, 1}) \in {n, 1} /\ \A m \in {n, 1} : m <= Max({n, 1})
  BY <1>1, MaxOf
<1> QED BY <1>2

LEMMA ReservedSized ==
  ASSUME IsProgram(prog)
  PROVE  Sized(Reserved)
<1> DEFINE a == [k \in DOMAIN prog.commons |-> Reserve(prog.commons[k].size, Max({prog.commons[k].align, 1}))]
           b == [k \in DOMAIN prog.copies |->
                   Reserve(Max({prog.copies[k], 1}), CopyRelocAlign(Max({prog.copies[k], 1})))]
<1>1. PICK m \in Nat, n \in Nat : DOMAIN prog.commons = 1..m /\ DOMAIN prog.copies = 1..n
  <2>1. \A s : IsSeq(s) => \E n \in Nat : DOMAIN s = 1..n
    BY DEF IsSeq
  <2> QED BY <2>1 DEF IsProgram
<1>2. \A k \in 1..m : a[k].size \in Nat /\ a[k].align \in Nat
  <2> TAKE k \in 1..m
  <2>1. prog.commons[k].size \in Nat /\ prog.commons[k].align \in Nat
    BY <1>1 DEF IsProgram
  <2>2. Max({prog.commons[k].align, 1}) \in Nat
    BY <2>1, AtLeastOne
  <2> QED BY <1>1, <2>1, <2>2 DEF Reserve
<1>3. \A k \in 1..n : b[k].size \in Nat /\ b[k].align \in Nat
  <2> TAKE k \in 1..n
  <2>1. prog.copies[k] \in Nat
    BY <1>1 DEF IsProgram
  <2>2. Max({prog.copies[k], 1}) \in Nat
    BY <2>1, AtLeastOne
  <2>3. CopyRelocAlign(Max({prog.copies[k], 1})) \in Nat
    BY <2>2, CopyAlignNat
  <2> QED BY <1>1, <2>2, <2>3 DEF Reserve
<1>4. a = [k \in 1..m |-> a[k]] /\ b = [k \in 1..n |-> b[k]]
  BY <1>1
<1>5. Reserved = a \o b
  BY DEF Reserved
<1> HIDE DEF a, b
<1>6. Sized(a) /\ Sized(b)
  <2>1. IsSeq(a) /\ Len(a) = m
    BY <1>4, FunctionIsSeq
  <2>2. IsSeq(b) /\ Len(b) = n
    BY <1>4, FunctionIsSeq
  <2> QED BY <1>2, <1>3, <2>1, <2>2 DEF Sized
<1> QED BY <1>5, <1>6, SizedConcat

LEMMA EndNat ==
  ASSUME NEW bs, Sized(bs), NEW v \in Nat
  PROVE  End(bs, v) \in Nat /\ v <= End(bs, v)
<1>1. Len(bs) \in Nat /\ 0 \in 0 .. Len(bs) /\ Len(bs) \in 0 .. Len(bs)
  BY DEF Sized, IsSeq
<1>2. Ends(bs, v) \in [0 .. Len(bs) -> Nat] /\ Ends(bs, v)[0] = v
  BY EndsFacts, Zenon
<1>3. Ends(bs, v)[0] <= Ends(bs, v)[Len(bs)]
  BY <1>1, EndsGrow
<1> QED BY <1>1, <1>2, <1>3 DEF End

LEMMA RoMade ==
  ASSUME NEW name, NEW align \in Nat, NEW size \in Nat
  PROVE  /\ IsBuilders(Ro(name, align, size))
         /\ Cores(Ro(name, align, size)) = Made(name, "Other", {"A"}, size)
  BY SomeMade DEF Ro

LEMMA OnlyBuilders ==
  ASSUME NEW c \in BOOLEAN, NEW s, c => IsBuilders(s)
  PROVE  IsBuilders(Only(c, s)) /\ Cores(Only(c, s)) = IF c THEN Cores(s) ELSE {}
  BY EmptyBuilders DEF Only

(* The read-only sections for the loader.                                  *)
SynthLoader ==
  LET d == DynBlobs IN
  Ro(".interp", 1, d.interp) \o Ro(".hash", 8, d.hash) \o Ro(".gnu.hash", 8, d.gnuhash)
  \o Ro(".dynsym", 8, d.dynsym) \o Ro(".dynstr", 1, d.dynstr)
  \o Ro(".gnu.version", 2, d.versym) \o Ro(".gnu.version_r", 8, d.verneed)
  \o Ro(".rela.dyn", 8, d.rela) \o Ro(".rela.plt", 8, RELA_SIZE * prog.plt)
LoaderMade ==
  LET made(name, size) == Made(name, "Other", {"A"}, size) IN
  made(".interp", DynBlobs.interp) \cup made(".hash", DynBlobs.hash)
  \cup made(".gnu.hash", DynBlobs.gnuhash) \cup made(".dynsym", DynBlobs.dynsym)
  \cup made(".dynstr", DynBlobs.dynstr) \cup made(".gnu.version", DynBlobs.versym)
  \cup made(".gnu.version_r", DynBlobs.verneed) \cup made(".rela.dyn", DynBlobs.rela)
  \cup made(".rela.plt", RELA_SIZE * prog.plt)

LEMMA SynthLoaderMade ==
  ASSUME IsProgram(prog), prog.dynamic
  PROVE  IsBuilders(SynthLoader) /\ Cores(SynthLoader) = LoaderMade
<1>1. PICK a : a = Ro(".interp", 1, DynBlobs.interp)
  OBVIOUS
<1>2. PICK b : b = Ro(".hash", 8, DynBlobs.hash)
  OBVIOUS
<1>3. PICK c : c = Ro(".gnu.hash", 8, DynBlobs.gnuhash)
  OBVIOUS
<1>4. PICK d : d = Ro(".dynsym", 8, DynBlobs.dynsym)
  OBVIOUS
<1>5. PICK e : e = Ro(".dynstr", 1, DynBlobs.dynstr)
  OBVIOUS
<1>6. PICK f : f = Ro(".gnu.version", 2, DynBlobs.versym)
  OBVIOUS
<1>7. PICK g : g = Ro(".gnu.version_r", 8, DynBlobs.verneed)
  OBVIOUS
<1>8. PICK h : h = Ro(".rela.dyn", 8, DynBlobs.rela)
  OBVIOUS
<1>9. PICK i : i = Ro(".rela.plt", 8, RELA_SIZE * prog.plt)
  OBVIOUS
<1> DEFINE made(name, size) == Made(name, "Other", {"A"}, size)
<1>10. /\ DynBlobs.interp \in Nat /\ DynBlobs.hash \in Nat /\ DynBlobs.gnuhash \in Nat
       /\ DynBlobs.dynsym \in Nat /\ DynBlobs.dynstr \in Nat /\ DynBlobs.versym \in Nat
       /\ DynBlobs.verneed \in Nat /\ DynBlobs.rela \in Nat
  BY BlobSizes, Zenon
<1>11. RELA_SIZE * prog.plt \in Nat
  BY DEF RELA_SIZE, IsProgram
<1>12. 1 \in Nat /\ 2 \in Nat /\ 8 \in Nat
  OBVIOUS
<1>13. IsBuilders(a) /\ Cores(a) = made(".interp", DynBlobs.interp)
  BY <1>1, <1>10, <1>12, RoMade, Zenon
<1>14. IsBuilders(b) /\ Cores(b) = made(".hash", DynBlobs.hash)
  BY <1>2, <1>10, <1>12, RoMade, Zenon
<1>15. IsBuilders(c) /\ Cores(c) = made(".gnu.hash", DynBlobs.gnuhash)
  BY <1>3, <1>10, <1>12, RoMade, Zenon
<1>16. IsBuilders(d) /\ Cores(d) = made(".dynsym", DynBlobs.dynsym)
  BY <1>4, <1>10, <1>12, RoMade, Zenon
<1>17. IsBuilders(e) /\ Cores(e) = made(".dynstr", DynBlobs.dynstr)
  BY <1>5, <1>10, <1>12, RoMade, Zenon
<1>18. IsBuilders(f) /\ Cores(f) = made(".gnu.version", DynBlobs.versym)
  BY <1>6, <1>10, <1>12, RoMade, Zenon
<1>19. IsBuilders(g) /\ Cores(g) = made(".gnu.version_r", DynBlobs.verneed)
  BY <1>7, <1>10, <1>12, RoMade, Zenon
<1>20. IsBuilders(h) /\ Cores(h) = made(".rela.dyn", DynBlobs.rela)
  BY <1>8, <1>10, <1>12, RoMade, Zenon
<1>21. IsBuilders(i) /\ Cores(i) = made(".rela.plt", RELA_SIZE * prog.plt)
  BY <1>9, <1>11, <1>12, RoMade, Zenon
<1>22. SynthLoader = a \o b \o c \o d \o e \o f \o g \o h \o i
  BY <1>1, <1>2, <1>3, <1>4, <1>5, <1>6, <1>7, <1>8, <1>9, Zenon DEF SynthLoader
<1> HIDE DEF made
<1>23. IsBuilders(a \o b) /\ Cores(a \o b) = Cores(a) \cup Cores(b)
  BY <1>13, <1>14, BuildersConcat
<1>24. IsBuilders(a \o b \o c) /\ Cores(a \o b \o c) = Cores(a) \cup Cores(b) \cup Cores(c)
  BY <1>23, <1>15, BuildersConcat
<1>25. PICK x : x = a \o b \o c
  OBVIOUS
<1>26. IsBuilders(x \o d) /\ Cores(x \o d) = Cores(x) \cup Cores(d)
  BY <1>24, <1>25, <1>16, BuildersConcat
<1>27. IsBuilders(x \o d \o e) /\ Cores(x \o d \o e) = Cores(x) \cup Cores(d) \cup Cores(e)
  BY <1>26, <1>17, BuildersConcat
<1>28. PICK y : y = x \o d \o e
  OBVIOUS
<1>29. IsBuilders(y \o f) /\ Cores(y \o f) = Cores(y) \cup Cores(f)
  BY <1>27, <1>28, <1>18, BuildersConcat
<1>30. IsBuilders(y \o f \o g) /\ Cores(y \o f \o g) = Cores(y) \cup Cores(f) \cup Cores(g)
  BY <1>29, <1>19, BuildersConcat
<1>31. PICK z : z = y \o f \o g
  OBVIOUS
<1>32. IsBuilders(z \o h) /\ Cores(z \o h) = Cores(z) \cup Cores(h)
  BY <1>30, <1>31, <1>20, BuildersConcat
<1>33. IsBuilders(z \o h \o i) /\ Cores(z \o h \o i) = Cores(z) \cup Cores(h) \cup Cores(i)
  BY <1>32, <1>21, BuildersConcat
<1>34. SynthLoader = z \o h \o i
  BY <1>22, <1>25, <1>28, <1>31
<1>35. Cores(SynthLoader) =
         Cores(a) \cup Cores(b) \cup Cores(c) \cup Cores(d) \cup Cores(e) \cup Cores(f) \cup Cores(g)
         \cup Cores(h) \cup Cores(i)
  BY <1>24, <1>25, <1>27, <1>28, <1>30, <1>31, <1>33, <1>34
<1>36. Cores(SynthLoader) = LoaderMade
  BY <1>13, <1>14, <1>15, <1>16, <1>17, <1>18, <1>19, <1>20, <1>21, <1>35, Zenon DEF LoaderMade, made
<1> QED BY <1>33, <1>34, <1>36

RoMadeAll ==
  Made(".note.gnu.property", "Other", {"A"}, NoteSize)
  \cup Made(".note.gnu.build-id", "Other", {"A"}, Flag(prog.build_id) * BUILD_ID_NOTE_SIZE)
  \cup Made(".eh_frame_hdr", "Other", {"A"}, IF NFdes = 0 THEN 0 ELSE 12 + 8 * NFdes)
  \cup (IF prog.dynamic THEN LoaderMade ELSE {})

LEMMA SynthRoMade ==
  ASSUME IsProgram(prog)
  PROVE  IsBuilders(SynthRo) /\ Cores(SynthRo) = RoMadeAll
<1>1. PICK n, id, fde : /\ n = NoteSize /\ id = Flag(prog.build_id) * BUILD_ID_NOTE_SIZE
                        /\ fde = IF NFdes = 0 THEN 0 ELSE 12 + 8 * NFdes
  OBVIOUS
<1>2. n \in Nat /\ id \in Nat /\ fde \in Nat
  <2>1. n \in Nat
    BY <1>1, NoteSizeNat
  <2>2. id \in Nat
    BY <1>1 DEF Flag, BUILD_ID_NOTE_SIZE
  <2>3. NFdes \in Nat
    BY CountsOfSections DEF NFdes
  <2> QED BY <1>1, <2>1, <2>2, <2>3
<1>3. PICK a : a = Ro(".note.gnu.property", 8, n)
  OBVIOUS
<1>4. PICK b : b = Ro(".note.gnu.build-id", 4, id)
  OBVIOUS
<1>5. PICK c : c = Ro(".eh_frame_hdr", 4, fde)
  OBVIOUS
<1>6. PICK d : d = Only(prog.dynamic, SynthLoader)
  OBVIOUS
<1>7. SynthRo = a \o b \o c \o d
  BY <1>1, <1>3, <1>4, <1>5, <1>6, Zenon DEF SynthRo, SynthLoader
<1>8. 4 \in Nat /\ 8 \in Nat
  OBVIOUS
<1>9. IsBuilders(a) /\ Cores(a) = Made(".note.gnu.property", "Other", {"A"}, n)
  BY <1>2, <1>3, <1>8, RoMade, Zenon
<1>10. IsBuilders(b) /\ Cores(b) = Made(".note.gnu.build-id", "Other", {"A"}, id)
  BY <1>2, <1>4, <1>8, RoMade, Zenon
<1>11. IsBuilders(c) /\ Cores(c) = Made(".eh_frame_hdr", "Other", {"A"}, fde)
  BY <1>2, <1>5, <1>8, RoMade, Zenon
<1>12. IsBuilders(d) /\ Cores(d) = IF prog.dynamic THEN LoaderMade ELSE {}
  <2>1. prog.dynamic \in BOOLEAN
    BY DEF IsProgram
  <2> QED BY <1>6, <2>1, OnlyBuilders, SynthLoaderMade
<1>13. IsBuilders(a \o b) /\ Cores(a \o b) = Cores(a) \cup Cores(b)
  BY <1>9, <1>10, BuildersConcat
<1>14. IsBuilders(a \o b \o c) /\ Cores(a \o b \o c) = Cores(a) \cup Cores(b) \cup Cores(c)
  BY <1>13, <1>11, BuildersConcat
<1>15. PICK x : x = a \o b \o c
  OBVIOUS
<1>16. IsBuilders(x \o d) /\ Cores(x \o d) = Cores(x) \cup Cores(d)
  BY <1>14, <1>15, <1>12, BuildersConcat
<1>17. Cores(SynthRo) = Cores(a) \cup Cores(b) \cup Cores(c) \cup Cores(d)
  BY <1>7, <1>14, <1>15, <1>16
<1>18. Cores(SynthRo) = RoMadeAll
  BY <1>1, <1>9, <1>10, <1>11, <1>12, <1>17, Zenon DEF RoMadeAll
<1> QED BY <1>7, <1>15, <1>16, <1>18

LEMMA CountNat ==
  ASSUME IsBuilders(builders), NEW c, NEW names
  PROVE  Count(c, names) \in Nat /\ IsFiniteSet(InClass(c)) /\ InClass(c) \in SUBSET (1 .. Len(builders))
<1>1. Len(builders) \in Nat /\ DOMAIN builders = 1 .. Len(builders)
  BY BuildersSized
<1>2. IsFiniteSet(1 .. Len(builders))
  BY <1>1, FS_Interval
<1>3. InClass(c) \in SUBSET (1 .. Len(builders))
  BY <1>1 DEF InClass
<1>4. IsFiniteSet(InClass(c))
  BY <1>2, <1>3, FS_Subset
<1>5. IsFiniteSet({k \in InClass(c) : builders[k].name \in names})
  BY <1>4, FS_Subset
<1>6. Count(c, names) \in Nat
  BY <1>5, FS_CardinalityType DEF Count
<1> QED BY <1>3, <1>4, <1>6

LEMMA DynEntriesNat ==
  ASSUME IsProgram(prog), prog.dynamic, IsBuilders(builders)
  PROVE  DynEntries \in Nat /\ DynEntries > 0
<1>1. PICK d : d = prog.dyn
  OBVIOUS
<1>2. Len(d.needed) \in Nat
  BY <1>1 DEF IsProgram, DynWellFormed, IsSeq
<1>3. PICK x, y : x = Count("rx", {".init", ".fini"}) /\ y = Count("rw", {".init_array", ".fini_array"})
  OBVIOUS
<1>4. x \in Nat /\ y \in Nat
  BY <1>3, CountNat
<1>5. NFlags \in Nat
  BY DEF NFlags
<1>6. \A c : Flag(c) \in Nat
  BY DEF Flag
<1>7. PICK a1, a2, a3, a4, a5, a6, a7, a8 :
        /\ a1 = Flag(HasHash(d)) /\ a2 = Flag(HasGnuHash(d)) /\ a3 = Flag(d.soname) /\ a4 = Flag(d.rpath)
        /\ a5 = Flag(d.rela > 0) /\ a6 = Flag(d.relcount) /\ a7 = Flag(prog.plt > 0)
        /\ a8 = Flag(Verneed(d) # {})
  OBVIOUS
<1>8. a1 \in Nat /\ a2 \in Nat /\ a3 \in Nat /\ a4 \in Nat /\ a5 \in Nat /\ a6 \in Nat /\ a7 \in Nat /\ a8 \in Nat
  BY <1>6, <1>7
<1>9. DynEntries = Len(d.needed) + 4 + a1 + a2 + a3 + a4 + 3 * a5 + a6 + 4 * a7 + 3 * a8 + x + NFlags + 2 * y + 1
  BY <1>1, <1>3, <1>7, Zenon DEF DynEntries
<1>10. PICK z : z = Len(d.needed) + 4 + a1 + a2 + a3 + a4
  OBVIOUS
<1>11. z \in Nat
  BY <1>2, <1>8, <1>10
<1>12. PICK w : w = z + 3 * a5 + a6 + 4 * a7 + 3 * a8 + x
  OBVIOUS
<1>13. w \in Nat
  BY <1>4, <1>8, <1>11, <1>12
<1>14. DynEntries = w + NFlags + 2 * y + 1
  BY <1>9, <1>10, <1>12, Zenon
<1>15. w + NFlags + 2 * y + 1 \in Nat /\ w + NFlags + 2 * y + 1 > 0
  BY <1>4, <1>5, <1>13
<1> QED BY <1>14, <1>15

RxMadeAll == IF prog.dynamic THEN Made(".plt", "Text", {"A", "X"}, 16 * prog.plt) ELSE {}
RwMadeAll ==
  Made(".got", "Data", {"A", "W"}, GotTotal)
  \cup (IF prog.dynamic
        THEN (IF prog.plt > 0 THEN Made(".got.plt", "Data", {"A", "W"}, 8 * (prog.plt + 3)) ELSE {})
             \cup Made(".dynamic", "Data", {"A", "W"}, 16 * DynEntries)
        ELSE {})
BssMadeAll == Made(".bss", "Bss", {"A", "W"}, End(Reserved, 0))

LEMMA SynthRxMade ==
  ASSUME IsProgram(prog)
  PROVE  IsBuilders(SynthRx) /\ Cores(SynthRx) = RxMadeAll
<1>1. prog.dynamic \in BOOLEAN /\ 16 * prog.plt \in Nat /\ 16 \in Nat
  BY DEF IsProgram
<1>2. PICK b : b = Some(Builder(".plt", "Text", {"A", "X"}, 16, 16 * prog.plt))
  OBVIOUS
<1>3. IsBuilders(b) /\ Cores(b) = Made(".plt", "Text", {"A", "X"}, 16 * prog.plt)
  BY <1>1, <1>2, SomeMade, Zenon
<1>4. IsBuilders(Only(prog.dynamic, b)) /\ Cores(Only(prog.dynamic, b)) = IF prog.dynamic THEN Cores(b) ELSE {}
  BY <1>1, <1>3, OnlyBuilders
<1> QED BY <1>2, <1>3, <1>4, Zenon DEF SynthRx, RxMadeAll

LEMMA RwMade ==
  ASSUME NEW name, NEW size \in Nat
  PROVE  IsBuilders(Rw(name, size)) /\ Cores(Rw(name, size)) = Made(name, "Data", {"A", "W"}, size)
<1>1. 8 \in Nat
  OBVIOUS
<1> QED BY <1>1, SomeMade DEF Rw

LEMMA SynthRwMade ==
  ASSUME IsProgram(prog), IsBuilders(builders)
  PROVE  IsBuilders(SynthRw) /\ Cores(SynthRw) = RwMadeAll
<1>1. prog.dynamic \in BOOLEAN /\ 8 * (prog.plt + 3) \in Nat
  BY DEF IsProgram
<1>2. GotTotal \in Nat
  <2>1. Flag(prog.tls.ldm) \in Nat
    BY DEF Flag
  <2>2. prog.tls.gd \in Nat /\ prog.tls.desc \in Nat /\ prog.tls.ie \in Nat /\ prog.got \in Nat
    BY DEF IsProgram
  <2> QED BY <2>1, <2>2 DEF GotTotal, TlsBytes
<1>3. prog.dynamic => 16 * DynEntries \in Nat
  BY DynEntriesNat
<1>4. PICK a, b, c : a = Rw(".got", GotTotal) /\ b = Rw(".got.plt", 8 * (prog.plt + 3)) /\ c = Rw(".dynamic", 16 * DynEntries)
  OBVIOUS
<1>5. IsBuilders(a) /\ Cores(a) = Made(".got", "Data", {"A", "W"}, GotTotal)
  BY <1>2, <1>4, RwMade, Zenon
<1>6. IsBuilders(b) /\ Cores(b) = Made(".got.plt", "Data", {"A", "W"}, 8 * (prog.plt + 3))
  BY <1>1, <1>4, RwMade, Zenon
<1>7. prog.dynamic => IsBuilders(c) /\ Cores(c) = Made(".dynamic", "Data", {"A", "W"}, 16 * DynEntries)
  BY <1>3, <1>4, RwMade, Zenon
<1>8. PICK b1 : b1 = Only(prog.plt > 0, b)
  OBVIOUS
<1>9. IsBuilders(b1) /\ Cores(b1) = IF prog.plt > 0 THEN Cores(b) ELSE {}
  <2>1. (prog.plt > 0) \in BOOLEAN
    BY DEF IsProgram
  <2> QED BY <1>6, <1>8, <2>1, OnlyBuilders
<1>10. prog.dynamic => IsBuilders(b1 \o c) /\ Cores(b1 \o c) = Cores(b1) \cup Cores(c)
  BY <1>7, <1>9, BuildersConcat
<1>11. PICK d : d = Only(prog.dynamic, b1 \o c)
  OBVIOUS
<1>12. IsBuilders(d) /\ Cores(d) = IF prog.dynamic THEN Cores(b1 \o c) ELSE {}
  BY <1>1, <1>10, <1>11, OnlyBuilders
<1>13. IsBuilders(a \o d) /\ Cores(a \o d) = Cores(a) \cup Cores(d)
  BY <1>5, <1>12, BuildersConcat
<1>14. SynthRw = a \o d
  BY <1>4, <1>8, <1>11, Zenon DEF SynthRw
<1>15. Cores(d) = IF prog.dynamic
                  THEN (IF prog.plt > 0 THEN Made(".got.plt", "Data", {"A", "W"}, 8 * (prog.plt + 3)) ELSE {})
                       \cup Made(".dynamic", "Data", {"A", "W"}, 16 * DynEntries)
                  ELSE {}
  BY <1>6, <1>7, <1>9, <1>10, <1>12, Zenon
<1> QED BY <1>5, <1>13, <1>14, <1>15, Zenon DEF RwMadeAll

LEMMA SynthBssMade ==
  ASSUME IsProgram(prog)
  PROVE  IsBuilders(SynthBss) /\ Cores(SynthBss) = BssMadeAll
<1>1. PICK r : r = Reserved
  OBVIOUS
<1>2. Sized(r)
  BY <1>1, ReservedSized
<1>3. MaxAlign(r) \in Nat
  BY <1>2, MaxAlignFacts
<1>4. End(r, 0) \in Nat
  BY <1>2, EndNat
<1> QED BY <1>1, <1>3, <1>4, SomeMade, Zenon DEF SynthBss, BssMadeAll

MadeOf(c) ==
  CASE c = "ro" -> RoMadeAll [] c = "rx" -> RxMadeAll [] c = "rw" -> RwMadeAll [] c = "bss" -> BssMadeAll
Classes == {"ro", "rx", "rw", "bss"}

LEMMA SyntheticMade ==
  ASSUME IsProgram(prog), IsBuilders(builders), NEW c \in Classes
  PROVE  IsBuilders(SyntheticOf(c)) /\ Cores(SyntheticOf(c)) = MadeOf(c)
<1>1. CASE c = "ro"
  BY <1>1, SynthRoMade DEF SyntheticOf, MadeOf
<1>2. CASE c = "rx"
  BY <1>2, SynthRxMade DEF SyntheticOf, MadeOf
<1>3. CASE c = "rw"
  BY <1>3, SynthRwMade DEF SyntheticOf, MadeOf
<1>4. CASE c = "bss"
  BY <1>4, SynthBssMade DEF SyntheticOf, MadeOf
<1> QED BY <1>1, <1>2, <1>3, <1>4 DEF Classes

-----------------------------------------------------------------------------
(* Grouping.                                                               *)

LEMMA MaxOfThree ==
  ASSUME NEW a \in Nat, NEW b \in Nat
  PROVE  Max({a, b, 1}) \in Nat
<1>1. PICK n \in Nat : a <= n /\ b <= n /\ 1 <= n
  <2>1. a + b + 1 \in Nat /\ a <= a + b + 1 /\ b <= a + b + 1 /\ 1 <= a + b + 1
    OBVIOUS
  <2> QED BY <2>1
<1>2. PICK S : S = {a, b, 1}
  OBVIOUS
<1>3. S \in SUBSET (0..n) /\ S # {}
  BY <1>1, <1>2
<1>4. Max(S) \in S
  BY <1>3, MaxOf
<1> QED BY <1>2, <1>3, <1>4

LEMMA AddPartFacts ==
  ASSUME NEW b, IsBuilder(b), NEW i, Sec(i).align \in Nat, NEW size \in Nat
  PROVE  /\ IsBuilder(AddPart(b, i, size))
         /\ AddPart(b, i, size).name = b.name /\ AddPart(b, i, size).kind = b.kind
         /\ AddPart(b, i, size).flags = b.flags
<1>1. PICK off : off = AlignUp(b.size, Sec(i).align)
  OBVIOUS
<1>2. b.size \in Nat /\ b.align \in Nat
  BY DEF IsBuilder
<1>3. off \in Nat
  BY <1>1, <1>2, AlignUpFacts
<1>4. PICK m : m = Max({b.align, Sec(i).align, 1})
  OBVIOUS
<1>5. m \in Nat
  BY <1>2, <1>4, MaxOfThree
<1>6. PICK ps : ps = Append(b.parts, [sec |-> i, offset |-> off, size |-> size])
  OBVIOUS
<1>7. AddPart(b, i, size) = [b EXCEPT !.parts = ps, !.size = off + size, !.align = m]
  BY <1>1, <1>4, <1>6 DEF AddPart, IsBuilder
<1>8. PICK c : c = AddPart(b, i, size)
  OBVIOUS
<1>10. c = [f \in Fields |-> c[f]] /\ \A f \in Fields \ {"parts", "size", "align"} : c[f] = b[f]
  BY <1>7, <1>8 DEF IsBuilder
<1>11. c.size = off + size /\ c.align = m /\ c.name = b.name /\ c.kind = b.kind /\ c.flags = b.flags /\ c.nobits = b.nobits
  BY <1>7, <1>8 DEF IsBuilder, Fields
<1>9. b.nobits = (b.kind \in {"Bss", "Tbss"})
  BY DEF IsBuilder
<1> QED BY <1>3, <1>5, <1>8, <1>9, <1>10, <1>11 DEF IsBuilder

(* Every output section has a name of its own, and its kind and flags are  *)
(* those of a section it is made of.                                       *)
NameOf(i) == OutputSectionName(prog.script, Sec(i).name)
MadeFrom(b, i) ==
  Contributes(Sec(i)) /\ b.name = NameOf(i) /\ b.kind = Kind(Sec(i)) /\ b.flags = Sec(i).flags
GroupInv ==
  /\ IsBuilders(builders)
  /\ \A j, k \in 1 .. Len(builders) : builders[j].name = builders[k].name => j = k
  /\ \A k \in 1 .. Len(builders) : \E i \in Secs : MadeFrom(builders[k], i)

LEMMA GroupedIntoKeeps ==
  ASSUME IsProgram(prog), GroupInv, NEW i \in Secs, Contributes(Sec(i)), builders' = GroupedInto(i), prog' = prog
  PROVE  GroupInv'
<1>1. PICK bs, n : bs = builders /\ n = Len(builders)
  OBVIOUS
<1>2. n \in Nat /\ DOMAIN bs = 1..n /\ bs = [k \in 1..n |-> bs[k]] /\ IsSeq(bs)
  <2>1. n \in Nat /\ DOMAIN bs = 1..n /\ IsSeq(bs)
    BY <1>1, BuildersSized DEF GroupInv, IsBuilders
  <2> QED BY <2>1 DEF IsSeq
<1>3. /\ \A k \in 1..n : IsBuilder(bs[k])
      /\ \A j, k \in 1..n : bs[j].name = bs[k].name => j = k
      /\ \A k \in 1..n : \E j \in Secs : MadeFrom(bs[k], j)
  BY <1>1 DEF GroupInv, IsBuilders
<1>4. Sec(i).size \in Nat /\ Sec(i).align \in Nat
  BY DEF IsProgram, PlainSection, Secs, Sec
<1> DEFINE K == {k \in 1..n : bs[k].name = NameOf(i)}
           Good(t, m) == /\ m \in Nat /\ t = [k \in 1..m |-> t[k]] /\ builders' = t
                         /\ \A k \in 1..m : IsBuilder(t[k])
                         /\ \A j, k \in 1..m : t[j].name = t[k].name => j = k
                         /\ \A k \in 1..m : \E j \in Secs : MadeFrom(t[k], j)
<1>5. PICK t, m : Good(t, m)
  <2>1. CASE K = {}
    <3>1. PICK new : new = Builder(NameOf(i), Kind(Sec(i)), Sec(i).flags, 1, 0)
      OBVIOUS
    <3>2. IsBuilder(new) /\ new.name = NameOf(i) /\ new.kind = Kind(Sec(i)) /\ new.flags = Sec(i).flags
      <4>1. new.name = NameOf(i) /\ new.kind = Kind(Sec(i)) /\ new.flags = Sec(i).flags
        BY <3>1 DEF Builder
      <4>2. 1 \in Nat /\ 0 \in Nat
        OBVIOUS
      <4> QED BY <3>1, <4>1, <4>2, NewBuilder
    <3>3. PICK b : b = AddPart(new, i, Sec(i).size)
      OBVIOUS
    <3>4. IsBuilder(b) /\ b.name = NameOf(i) /\ MadeFrom(b, i)
      BY <1>4, <3>2, <3>3, AddPartFacts DEF MadeFrom
    <3>5. GroupedInto(i) = Append(bs, b)
      <4>1. {k \in DOMAIN builders : builders[k].name = NameOf(i)} = {}
        BY <1>1, <1>2, <2>1
      <4> QED BY <1>1, <3>1, <3>3, <4>1, Zenon DEF GroupedInto, NameOf
    <3>6. PICK t : t = Append(bs, b)
      OBVIOUS
    <3>7. t = [k \in 1..(n + 1) |-> t[k]] /\ t[n + 1] = b /\ \A k \in 1..n : t[k] = bs[k]
      <4>1. bs \in Seq(ToSet(bs)) /\ Len(bs) = n
        BY <1>1, <1>2 DEF IsSeq
      <4> HIDE DEF ToSet
      <4>2. PICK T : bs \in Seq(T) /\ b \in T
        <5>1. bs \in Seq(ToSet(bs) \cup {b})
          BY <4>1
        <5> QED BY <5>1
      <4>3. t \in Seq(T) /\ Len(t) = n + 1 /\ t[n + 1] = b /\ \A k \in 1..n : t[k] = bs[k]
        BY <1>2, <3>6, <4>1, <4>2
      <4>4. t = [k \in 1..Len(t) |-> t[k]]
        BY <4>3
      <4> QED BY <4>3, <4>4
    <3>8. \A k \in 1..(n + 1) : k = n + 1 \/ k \in 1..n
      BY <1>2
    <3>9. \A k \in 1..n : bs[k].name # NameOf(i)
      BY <2>1
    <3>10. \A k \in 1..(n + 1) : IsBuilder(t[k]) /\ \E j \in Secs : MadeFrom(t[k], j)
      BY <1>3, <3>4, <3>7, <3>8
    <3>11. \A j, k \in 1..(n + 1) : t[j].name = t[k].name => j = k
      BY <1>3, <3>4, <3>7, <3>8, <3>9
    <3>12. n + 1 \in Nat
      BY <1>2
    <3>13. Good(t, n + 1)
      BY <3>5, <3>6, <3>7, <3>10, <3>11, <3>12
    <3> QED BY <3>13
  <2>2. CASE K # {}
    <3>1. PICK p : p = Min(K)
      OBVIOUS
    <3>2. p \in K
      <4>1. K \in SUBSET Nat
        OBVIOUS
      <4> HIDE DEF K
      <4> QED BY <2>2, <3>1, <4>1, MinOf
    <3>3. PICK b : b = AddPart(bs[p], i, Sec(i).size)
      OBVIOUS
    <3>4. IsBuilder(b) /\ b.name = bs[p].name /\ b.kind = bs[p].kind /\ b.flags = bs[p].flags
      <4>1. IsBuilder(bs[p])
        BY <1>3, <3>2
      <4> QED BY <1>4, <3>3, <4>1, AddPartFacts
    <3>5. GroupedInto(i) = [bs EXCEPT ![p] = b]
      <4>1. {k \in DOMAIN builders : builders[k].name = NameOf(i)} = K
        BY <1>1, <1>2
      <4> HIDE DEF K
      <4>2. GroupedInto(i) = [builders EXCEPT ![p] = AddPart(@, i, Sec(i).size)]
        BY <2>2, <3>1, <4>1, Zenon DEF GroupedInto, NameOf
      <4> QED BY <1>1, <3>3, <4>2
    <3>6. PICK t : t = [bs EXCEPT ![p] = b]
      OBVIOUS
    <3>7. t = [k \in 1..n |-> t[k]] /\ t[p] = b /\ (\A k \in 1..n : k # p => t[k] = bs[k]) /\ p \in 1..n
      BY <1>2, <3>2, <3>6
    <3>8. \A k \in 1..n : IsBuilder(t[k]) /\ t[k].name = bs[k].name /\ t[k].kind = bs[k].kind /\ t[k].flags = bs[k].flags
      BY <1>3, <3>4, <3>7
    <3>9. \A k \in 1..n : \E j \in Secs : MadeFrom(t[k], j)
      BY <1>3, <3>8 DEF MadeFrom
    <3>10. \A j, k \in 1..n : t[j].name = t[k].name => j = k
      BY <1>3, <3>8
    <3>11. Good(t, n)
      BY <1>2, <3>5, <3>6, <3>7, <3>8, <3>9, <3>10
    <3> QED BY <3>11
  <2> QED BY <2>1, <2>2
<1>6. IsSeq(t) /\ Len(t) = m
  BY <1>5, FunctionIsSeq
<1>7. IsBuilders(t)
  BY <1>5, <1>6 DEF IsBuilders
<1>8. Secs' = Secs /\ (\A b, j : MadeFrom(b, j)' <=> MadeFrom(b, j))
  BY DEF Secs, MadeFrom, NameOf, Sec
<1>9. IsBuilders(builders)' <=> IsBuilders(t)
  BY <1>5 DEF IsBuilders
<1>10. Len(builders') = m /\ builders' = t
  BY <1>5, <1>6
<1> QED BY <1>5, <1>7, <1>8, <1>9, <1>10 DEF GroupInv

-----------------------------------------------------------------------------
(* Sorting output sections.                                                *)

Ranked(s, I) == \A i \in I : s[i].name \in DOMAIN NameRank
LEMMA FinitePositions ==
  ASSUME NEW n \in Nat, NEW I \in SUBSET (1..n)
  PROVE  IsFiniteSet(I) /\ I \in SUBSET Nat
<1>1. IsFiniteSet(1..n)
  BY FS_Interval
<1>2. I \in SUBSET Nat
  OBVIOUS
<1>3. IsFiniteSet(I)
  BY <1>1, FS_Subset
<1> QED BY <1>2, <1>3

LEMMA SortByName ==
  ASSUME NEW s, NEW n \in Nat, NEW I \in SUBSET (1..n), Ranked(s, I)
  PROVE  Holds(SortAt(s, I, ByName), s, I)
<1> DEFINE a == [i \in I |-> NameRank[s[i].name]]
           z == [i \in I |-> 0]
           order == {x \in I \X I : ByName(s[x[1]], s[x[2]]) \/ (x[1] <= x[2] /\ ~ByName(s[x[2]], s[x[1]]))}
<1>1. a \in [I -> Int] /\ z \in [I -> Int]
  BY ProgramsAssumption DEF Ranked
<1>2. \A i, j \in I : ByName(s[i], s[j]) <=> Smaller(a, z, z, i, j)
  BY DEF ByName, Smaller
<1>3. \A i, j \in I : <<i, j>> \in order <=> ByName(s[i], s[j]) \/ (i <= j /\ ~ByName(s[j], s[i]))
  OBVIOUS
<1>4. \A i, j \in I : <<i, j>> \in order <=> Smaller(a, z, z, i, j) \/ (i <= j /\ ~Smaller(a, z, z, j, i))
  <2> HIDE DEF a, z, order
  <2> QED BY <1>2, <1>3
<1>5. SortAt(s, I, ByName) = Arranged(s, I, order)
  BY DEF SortAt
<1> HIDE DEF a, z, order
<1>6. IsFiniteSet(I) /\ I \in SUBSET Nat
  BY FinitePositions
<1>7. TotalOrder(I, order)
  BY <1>1, <1>4, <1>6, StableOrder
<1> QED BY <1>5, <1>6, <1>7, ArrangedHolds

LEMMA SortByScript ==
  ASSUME IsProgram(prog), NEW s, NEW n \in Nat, DOMAIN s = 1..n, Ranked(s, 1..n)
  PROVE  Holds(StableSort(s, ByScript), s, 1..n)
<1> DEFINE I == 1..n
           K(i) == OrderOf(s[i].name)
           a == [i \in I |-> IF K(i) = {} THEN Len(prog.script) + 1 ELSE Min(K(i))]
           b == [i \in I |-> NameRank[s[i].name]]
           z == [i \in I |-> 0]
           order == {x \in I \X I : ByScript(s[x[1]], s[x[2]]) \/ (x[1] <= x[2] /\ ~ByScript(s[x[2]], s[x[1]]))}
<1>0. Len(prog.script) \in Nat /\ DOMAIN prog.script = 1 .. Len(prog.script)
  BY DEF IsProgram, IsSeq
<1>1. \A i \in I : K(i) # {} => Min(K(i)) \in 1 .. Len(prog.script)
  <2> TAKE i \in I
  <2>1. K(i) \in SUBSET (1 .. Len(prog.script))
    BY <1>0 DEF OrderOf
  <2>2. K(i) \in SUBSET Nat
    BY <2>1
  <2> HIDE DEF K
  <2>3. K(i) # {} => Min(K(i)) \in K(i)
    BY <2>2, MinOf
  <2> QED BY <2>1, <2>3
<1>2. b \in [I -> Int] /\ z \in [I -> Int]
  BY ProgramsAssumption DEF Ranked
<1>3. a \in [I -> Int]
  <2> HIDE DEF K
  <2> QED BY <1>0, <1>1
<1>4. ASSUME NEW i \in I, NEW j \in I PROVE ByScript(s[i], s[j]) <=> Smaller(a, b, z, i, j)
  <2>1. /\ a[i] = IF K(i) = {} THEN Len(prog.script) + 1 ELSE Min(K(i))
        /\ a[j] = IF K(j) = {} THEN Len(prog.script) + 1 ELSE Min(K(j))
        /\ ByName(s[i], s[j]) <=> b[i] < b[j]
    BY DEF ByName
  <2>2. ByScript(s[i], s[j]) <=>
          CASE K(i) # {} /\ K(j) # {} -> Min(K(i)) < Min(K(j)) \/ (Min(K(i)) = Min(K(j)) /\ ByName(s[i], s[j]))
            [] K(i) = {} /\ K(j) = {} -> ByName(s[i], s[j])
            [] OTHER -> K(i) # {}
    BY DEF ByScript
  <2>3. b[i] \in Int /\ b[j] \in Int /\ z[i] = 0 /\ z[j] = 0
    BY <1>2
  <2> HIDE DEF K, a, b, z
  <2> QED BY <1>0, <1>1, <2>1, <2>2, <2>3 DEF Smaller
<1>5. \A i, j \in I : <<i, j>> \in order <=> ByScript(s[i], s[j]) \/ (i <= j /\ ~ByScript(s[j], s[i]))
  OBVIOUS
<1>6. \A i, j \in I : <<i, j>> \in order <=> Smaller(a, b, z, i, j) \/ (i <= j /\ ~Smaller(a, b, z, j, i))
  <2> HIDE DEF a, b, z, order
  <2> QED BY <1>4, <1>5
<1>7. StableSort(s, ByScript) = Arranged(s, I, order)
  BY DEF SortAt, StableSort
<1> HIDE DEF a, b, z, order
<1>8. IsFiniteSet(I) /\ I \in SUBSET Nat
  BY FinitePositions
<1>9. TotalOrder(I, order)
  <2> HIDE DEF I
  <2> QED BY <1>2, <1>3, <1>6, <1>8, StableOrder
<1>10. Holds(Arranged(s, I, order), s, I)
  <2> HIDE DEF I
  <2> QED BY <1>8, <1>9, ArrangedHolds
<1> QED BY <1>7, <1>10

RelroSorted(bs) == \A j, k \in 1 .. Len(bs) : j < k /\ IsRelro(bs[k]) => IsRelro(bs[j])
LEMMA SortRelro ==
  ASSUME NEW s, NEW n \in Nat, DOMAIN s = 1..n, Ranked(s, 1..n)
  PROVE  Holds(StableSort(s, RelroFirst), s, 1..n) /\ RelroSorted(StableSort(s, RelroFirst))
<1> DEFINE I == 1..n
           a == [i \in I |-> IF IsRelro(s[i]) THEN 0 ELSE 1]
           b == [i \in I |-> NameRank[s[i].name]]
           z == [i \in I |-> IF s[i].kind = "Tdata" THEN 1 ELSE 0]
           order == {x \in I \X I : RelroFirst(s[x[1]], s[x[2]]) \/ (x[1] <= x[2] /\ ~RelroFirst(s[x[2]], s[x[1]]))}
<1>2. a \in [I -> Int] /\ b \in [I -> Int] /\ z \in [I -> Int]
  BY ProgramsAssumption DEF Ranked
<1>4. ASSUME NEW i \in I, NEW j \in I PROVE RelroFirst(s[i], s[j]) <=> Smaller(a, b, z, i, j)
  <2>1. /\ a[i] = (IF IsRelro(s[i]) THEN 0 ELSE 1) /\ a[j] = (IF IsRelro(s[j]) THEN 0 ELSE 1)
        /\ z[i] = (IF s[i].kind = "Tdata" THEN 1 ELSE 0) /\ z[j] = (IF s[j].kind = "Tdata" THEN 1 ELSE 0)
        /\ ByName(s[i], s[j]) <=> b[i] < b[j]
    BY DEF ByName
  <2>2. s[i].name = s[j].name <=> b[i] = b[j]
    BY ProgramsAssumption DEF Ranked
  <2>3. b[i] \in Int /\ b[j] \in Int
    BY <1>2
  <2>4. (IsRelro(s[i]) = IsRelro(s[j])) <=> (IsRelro(s[i]) <=> IsRelro(s[j]))
    BY DEF IsRelro
  <2>5. RelroFirst(s[i], s[j]) <=>
          \/ IsRelro(s[i]) /\ ~IsRelro(s[j])
          \/ (IsRelro(s[i]) <=> IsRelro(s[j]))
               /\ (ByName(s[i], s[j]) \/ (s[i].name = s[j].name /\ s[i].kind # "Tdata" /\ s[j].kind = "Tdata"))
    BY <2>4, Zenon DEF RelroFirst
  <2> HIDE DEF a, b, z
  <2> QED BY <2>1, <2>2, <2>3, <2>5 DEF Smaller
<1>5. \A i, j \in I : <<i, j>> \in order <=> RelroFirst(s[i], s[j]) \/ (i <= j /\ ~RelroFirst(s[j], s[i]))
  OBVIOUS
<1>6. \A i, j \in I : <<i, j>> \in order <=> Smaller(a, b, z, i, j) \/ (i <= j /\ ~Smaller(a, b, z, j, i))
  <2> HIDE DEF a, b, z, order
  <2> QED BY <1>4, <1>5
<1>7. StableSort(s, RelroFirst) = Arranged(s, I, order)
  BY DEF SortAt, StableSort
<1> HIDE DEF a, b, z, order
<1>8. IsFiniteSet(I) /\ I \in SUBSET Nat
  BY FinitePositions
<1>9. TotalOrder(I, order)
  <2> HIDE DEF I
  <2> QED BY <1>2, <1>6, <1>8, StableOrder
<1>10. Holds(Arranged(s, I, order), s, I)
  <2> HIDE DEF I
  <2> QED BY <1>8, <1>9, ArrangedHolds
<1>11. PICK t : t = Arranged(s, I, order)
  OBVIOUS
<1>12. Len(t) = Cardinality(I)
  BY <1>10, <1>11 DEF Holds
<1>13. ASSUME NEW p \in 1 .. Len(t), NEW q \in 1 .. Len(t), p < q, IsRelro(t[q]) PROVE IsRelro(t[p])
  <2>1. PICK i \in I, j \in I : t[p] = s[i] /\ t[q] = s[j] /\ <<i, j>> \in order
    <3> HIDE DEF I
    <3>1. p \in 1 .. Cardinality(I) /\ q \in 1 .. Cardinality(I) /\ p < q
      BY <1>12, <1>13
    <3>2. \A x, y \in 1 .. Cardinality(I) : x < y => Precedes(s, I, order, x, y)
      BY <1>8, <1>9, ArrangedSorted, Zenon
    <3>3. Precedes(s, I, order, p, q)
      BY <3>1, <3>2, Zenon
    <3> QED BY <1>11, <3>3 DEF Precedes
  <2>2. RelroFirst(s[i], s[j]) \/ ~RelroFirst(s[j], s[i])
    BY <1>5, <2>1
  <2>3. CASE RelroFirst(s[i], s[j])
    <3>1. IsRelro(s[i]) \/ IsRelro(s[i]) = IsRelro(s[j])
      BY <2>3, Zenon DEF RelroFirst
    <3> QED BY <1>13, <2>1, <3>1
  <2>4. CASE ~RelroFirst(s[j], s[i])
    <3>1. ~(IsRelro(s[j]) /\ ~IsRelro(s[i]))
      BY <2>4, Zenon DEF RelroFirst
    <3> QED BY <1>13, <2>1, <3>1
  <2> QED BY <2>2, <2>3, <2>4
<1>14. RelroSorted(t)
  BY <1>13 DEF RelroSorted
<1> QED BY <1>7, <1>10, <1>11, <1>14

LEMMA SortTbss ==
  ASSUME NEW s, NEW n \in Nat, DOMAIN s = 1..n
  PROVE  Holds(StableSort(s, TbssFirst), s, 1..n)
<1> DEFINE I == 1..n
           a == [i \in I |-> IF s[i].kind = "Tbss" THEN 0 ELSE 1]
           z == [i \in I |-> 0]
           order == {x \in I \X I : TbssFirst(s[x[1]], s[x[2]]) \/ (x[1] <= x[2] /\ ~TbssFirst(s[x[2]], s[x[1]]))}
<1>2. a \in [I -> Int] /\ z \in [I -> Int]
  OBVIOUS
<1>4. \A i, j \in I : TbssFirst(s[i], s[j]) <=> Smaller(a, z, z, i, j)
  BY DEF TbssFirst, Smaller
<1>5. \A i, j \in I : <<i, j>> \in order <=> TbssFirst(s[i], s[j]) \/ (i <= j /\ ~TbssFirst(s[j], s[i]))
  OBVIOUS
<1>6. \A i, j \in I : <<i, j>> \in order <=> Smaller(a, z, z, i, j) \/ (i <= j /\ ~Smaller(a, z, z, j, i))
  <2> HIDE DEF a, z, order
  <2> QED BY <1>4, <1>5
<1>7. StableSort(s, TbssFirst) = Arranged(s, I, order)
  BY DEF SortAt, StableSort
<1> HIDE DEF a, z, order
<1>8. IsFiniteSet(I) /\ I \in SUBSET Nat
  BY FinitePositions
<1>9. TotalOrder(I, order)
  <2> HIDE DEF I
  <2> QED BY <1>2, <1>6, <1>8, StableOrder
<1>10. Holds(Arranged(s, I, order), s, I)
  <2> HIDE DEF I
  <2> QED BY <1>8, <1>9, ArrangedHolds
<1> QED BY <1>7, <1>10

CoresAt(s, I) == {Core(s[i]) : i \in I}
LEMMA HoldsCores ==
  ASSUME NEW t, NEW s, NEW I, Holds(t, s, I), \A i \in I : IsBuilder(s[i])
  PROVE  IsBuilders(t) /\ Cores(t) = CoresAt(s, I)
<1>1. DOMAIN t = 1 .. Len(t)
  BY DEF Holds, IsSeq
<1>2. \A p \in 1 .. Len(t) : \E i \in I : t[p] = s[i]
  BY DEF Holds
<1>3. \A i \in I : \E p \in 1 .. Len(t) : t[p] = s[i]
  BY DEF Holds
<1>4. IsBuilders(t)
  BY <1>2 DEF IsBuilders, Holds
<1>5. Cores(t) \subseteq CoresAt(s, I)
  BY <1>1, <1>2 DEF Cores, CoresAt
<1>6. CoresAt(s, I) \subseteq Cores(t)
  <2> SUFFICES ASSUME NEW i \in I PROVE Core(s[i]) \in Cores(t)
    BY DEF CoresAt
  <2>1. PICK p \in 1 .. Len(t) : t[p] = s[i]
    BY <1>3
  <2>2. Core(t[p]) \in Cores(t)
    BY <1>1 DEF Cores
  <2> QED BY <2>1, <2>2
<1> QED BY <1>4, <1>5, <1>6

-----------------------------------------------------------------------------
(* The output sections there will be, and what is known of them.           *)

WantCores(c) == CoresAt(builders, InClass(c)) \cup MadeOf(c)

RoNames == {".note.gnu.build-id", ".note.gnu.property", ".interp", ".hash", ".gnu.hash", ".dynsym", ".dynstr",
            ".rela.dyn", ".rela.plt", ".gnu.version", ".gnu.version_r", ".eh_frame_hdr"}
LEMMA MadeMember ==
  ASSUME NEW name, NEW kind, NEW flags, NEW size, NEW w
  PROVE  w \in Made(name, kind, flags, size) <=>
           size > 0 /\ w = [name |-> name, kind |-> kind, flags |-> flags, size |-> size]
  BY DEF Made

(* The sections the linker makes have their own names.                     *)
Is(w, name, kind) == w.name = name /\ w.kind = kind

LEMMA MadeIs ==
  ASSUME NEW name, NEW kind, NEW flags, NEW size, NEW w \in Made(name, kind, flags, size)
  PROVE  Is(w, name, kind)
  BY MadeMember DEF Is

LEMMA MadeNames ==
  /\ \A w \in RoMadeAll : \E n \in RoNames : Is(w, n, "Other")
  /\ \A w \in RxMadeAll : Is(w, ".plt", "Text")
  /\ \A w \in RwMadeAll : \E n \in {".got", ".got.plt", ".dynamic"} : Is(w, n, "Data")
  /\ \A w \in BssMadeAll : Is(w, ".bss", "Bss")
<1>1. \A w \in RxMadeAll : Is(w, ".plt", "Text")
  BY MadeIs DEF RxMadeAll
<1>2. \A w \in BssMadeAll : Is(w, ".bss", "Bss")
  BY MadeIs DEF BssMadeAll
<1>3. \A w \in RwMadeAll : \E n \in {".got", ".got.plt", ".dynamic"} : Is(w, n, "Data")
  <2> SUFFICES ASSUME NEW w \in RwMadeAll PROVE Is(w, ".got", "Data") \/ Is(w, ".got.plt", "Data") \/ Is(w, ".dynamic", "Data")
    BY Zenon
  <2> QED BY MadeIs DEF RwMadeAll
<1>4. \A w \in LoaderMade : \E n \in RoNames : Is(w, n, "Other")
  <2> SUFFICES ASSUME NEW w \in LoaderMade PROVE \E n \in RoNames : Is(w, n, "Other")
    OBVIOUS
  <2> DEFINE made(name, size) == Made(name, "Other", {"A"}, size)
  <2>1. \/ w \in made(".interp", DynBlobs.interp) \/ w \in made(".hash", DynBlobs.hash)
        \/ w \in made(".gnu.hash", DynBlobs.gnuhash) \/ w \in made(".dynsym", DynBlobs.dynsym)
        \/ w \in made(".dynstr", DynBlobs.dynstr) \/ w \in made(".gnu.version", DynBlobs.versym)
        \/ w \in made(".gnu.version_r", DynBlobs.verneed) \/ w \in made(".rela.dyn", DynBlobs.rela)
        \/ w \in made(".rela.plt", RELA_SIZE * prog.plt)
    BY DEF LoaderMade
  <2>2. \/ Is(w, ".interp", "Other") \/ Is(w, ".hash", "Other") \/ Is(w, ".gnu.hash", "Other")
        \/ Is(w, ".dynsym", "Other") \/ Is(w, ".dynstr", "Other") \/ Is(w, ".gnu.version", "Other")
        \/ Is(w, ".gnu.version_r", "Other") \/ Is(w, ".rela.dyn", "Other") \/ Is(w, ".rela.plt", "Other")
    BY <2>1, MadeIs
  <2> QED BY <2>2 DEF RoNames
<1>5. \A w \in RoMadeAll : \E n \in RoNames : Is(w, n, "Other")
  <2> SUFFICES ASSUME NEW w \in RoMadeAll PROVE \E n \in RoNames : Is(w, n, "Other")
    OBVIOUS
  <2>1. \/ Is(w, ".note.gnu.property", "Other") \/ Is(w, ".note.gnu.build-id", "Other")
        \/ Is(w, ".eh_frame_hdr", "Other") \/ w \in LoaderMade
    BY MadeIs DEF RoMadeAll
  <2> QED BY <1>4, <2>1 DEF RoNames
<1> QED BY <1>1, <1>2, <1>3, <1>5

LEMMA MadeOfClass ==
  /\ MadeOf("ro") = RoMadeAll /\ MadeOf("rx") = RxMadeAll /\ MadeOf("rw") = RwMadeAll /\ MadeOf("bss") = BssMadeAll
  BY DEF MadeOf

LEMMA MadeRanked ==
  ASSUME NEW c \in Classes, NEW w \in MadeOf(c)
  PROVE  w.name \in Synthetic \cup {".bss"} /\ w.kind \notin {"Tdata", "Tbss"}
<1>1. RoNames \subseteq Synthetic /\ {".got", ".got.plt", ".dynamic", ".plt"} \subseteq Synthetic
  BY DEF RoNames, Synthetic
<1>2. w \in RoMadeAll \/ w \in RxMadeAll \/ w \in RwMadeAll \/ w \in BssMadeAll
  BY MadeOfClass DEF Classes
<1>3. CASE w \in RoMadeAll
  <2>1. w.name \in RoNames /\ w.kind = "Other"
    BY <1>3, MadeNames DEF Is
  <2> QED BY <1>1, <2>1
<1>4. CASE w \in RxMadeAll
  <2>1. w.name = ".plt" /\ w.kind = "Text"
    BY <1>4, MadeNames DEF Is
  <2> QED BY <1>1, <2>1
<1>5. CASE w \in RwMadeAll
  <2>1. w.name \in {".got", ".got.plt", ".dynamic"} /\ w.kind = "Data"
    BY <1>5, MadeNames DEF Is
  <2> QED BY <1>1, <2>1
<1>6. CASE w \in BssMadeAll
  <2>1. w.name = ".bss" /\ w.kind = "Bss"
    BY <1>6, MadeNames DEF Is
  <2> QED BY <2>1
<1> QED BY <1>2, <1>3, <1>4, <1>5, <1>6

(* A section made of input sections: what PlainSection says of those.      *)
LEMMA GroupedPlain ==
  ASSUME IsProgram(prog), GroupInv, NEW k \in 1 .. Len(builders)
  PROVE  /\ builders[k].name \in DOMAIN NameRank /\ builders[k].name \notin Synthetic
         /\ builders[k].name \in {".init", ".fini"} => ClassOf(builders[k]) = "rx"
         /\ builders[k].name \in {".init_array", ".fini_array", ".data.rel.ro"} => ClassOf(builders[k]) = "rw"
         /\ IsTls(builders[k]) => ClassOf(builders[k]) \in {"rw", "bss"}
         /\ IsBuilder(builders[k]) /\ ClassOf(builders[k]) \in Classes
<1>1. PICK i \in Secs : MadeFrom(builders[k], i)
  BY DEF GroupInv
<1>2. PICK b, s, n : b = builders[k] /\ s = Sec(i) /\ n = NameOf(i)
  OBVIOUS
<1>3. Contributes(s) /\ b.name = n /\ b.kind = Kind(s) /\ b.flags = s.flags
  BY <1>1, <1>2 DEF MadeFrom
<1>4. PlainSection(prog.script, s)
  BY <1>2 DEF IsProgram, Secs, Sec
<1>5. /\ n \in DOMAIN NameRank \ Synthetic
      /\ n \in {".init", ".fini"} => PermOf(s.flags) = "rx"
      /\ n \in {".init_array", ".fini_array", ".data.rel.ro"} => PermOf(s.flags) = "rw" /\ Kind(s) \notin {"Bss", "Tbss"}
      /\ "T" \in s.flags => PermOf(s.flags) = "rw"
  BY <1>2, <1>3, <1>4, Zenon DEF PlainSection, NameOf
<1>6. Kind(s) \in {"Tdata", "Tbss"} => "T" \in s.flags
  BY DEF Kind
<1>7. IsBuilder(b) /\ b.nobits = (b.kind \in {"Bss", "Tbss"})
  BY <1>2 DEF GroupInv, IsBuilders, IsBuilder
<1>8. PermOf(b.flags) \in {"rx", "rw", "ro"}
  BY DEF PermOf
<1>9. ClassOf(b) = IF PermOf(b.flags) = "rw" THEN (IF b.nobits THEN "bss" ELSE "rw") ELSE PermOf(b.flags)
  BY DEF ClassOf
<1>10. ClassOf(b) \in Classes
  BY <1>8, <1>9 DEF Classes
<1>11. b.name \in {".init_array", ".fini_array", ".data.rel.ro"} => ~b.nobits
  BY <1>3, <1>5, <1>7
<1>12. b.name \in {".init", ".fini"} => ClassOf(b) = "rx"
  BY <1>3, <1>5, <1>9
<1>13. b.name \in {".init_array", ".fini_array", ".data.rel.ro"} => ClassOf(b) = "rw"
  BY <1>3, <1>5, <1>9, <1>11
<1>14. IsTls(b) => ClassOf(b) \in {"rw", "bss"}
  BY <1>3, <1>5, <1>6, <1>9 DEF IsTls
<1> QED BY <1>2, <1>3, <1>5, <1>7, <1>10, <1>12, <1>13, <1>14

LEMMA WantRanked ==
  ASSUME IsProgram(prog), GroupInv, NEW c \in Classes, NEW w \in WantCores(c)
  PROVE  w.name \in DOMAIN NameRank
<1>1. CASE w \in MadeOf(c)
  BY <1>1, MadeRanked, ProgramsAssumption
<1>2. CASE \E k \in InClass(c) : w = Core(builders[k])
  <2>1. PICK k \in InClass(c) : w = Core(builders[k])
    BY <1>2
  <2>2. k \in 1 .. Len(builders)
    BY CountNat DEF GroupInv
  <2>3. w.name = builders[k].name
    BY <2>1 DEF Core
  <2> QED BY <2>2, <2>3, GroupedPlain
<1> QED BY <1>1, <1>2 DEF WantCores, CoresAt

(* All of this is settled when the input sections are grouped.             *)
LEMMA SettledProg ==
  ASSUME prog' = prog
  PROVE  /\ IsProgram(prog)' <=> IsProgram(prog)
         /\ NoteSize' = NoteSize /\ NFdes' = NFdes /\ DynBlobs' = DynBlobs
         /\ GotTotal' = GotTotal /\ NFlags' = NFlags /\ Reserved' = Reserved
<1>1. IsProgram(prog)' <=> IsProgram(prog)
  BY Zenon
<1>2. \A t : NotesWith(t)' = NotesWith(t)
  BY DEF NotesWith
<1>3. MergedNote' = MergedNote
  BY <1>2 DEF MergedNote
<1>4. NoteSize' = NoteSize
  BY <1>3 DEF NoteSize
<1>5. \A i : Sec(i)' = Sec(i)
  BY DEF Sec
<1>6. Secs' = Secs
  BY DEF Secs
<1>7. \A I : FdesOf(I)' = FdesOf(I)
  BY <1>5 DEF FdesOf
<1>8. NFdes' = NFdes
  BY <1>5, <1>6, <1>7 DEF NFdes
<1>9. Strings' = Strings
  BY DEF Strings
<1>10. DynBlobs' = DynBlobs
  BY <1>9 DEF DynBlobs
<1>11. TlsBytes' = TlsBytes
  BY DEF TlsBytes
<1>12. GotTotal' = GotTotal
  BY <1>11 DEF GotTotal
<1>13. NFlags' = NFlags
  BY DEF NFlags
<1>14. Reserved' = Reserved
  BY DEF Reserved
<1> QED BY <1>1, <1>4, <1>8, <1>10, <1>12, <1>13, <1>14

LEMMA Settled ==
  ASSUME prog' = prog, builders' = builders
  PROVE  /\ GroupInv' <=> GroupInv
         /\ DynEntries' = DynEntries
         /\ \A c : InClass(c)' = InClass(c)
         /\ \A c \in Classes : MadeOf(c)' = MadeOf(c) /\ WantCores(c)' = WantCores(c)
<1>1. /\ NoteSize' = NoteSize /\ NFdes' = NFdes /\ DynBlobs' = DynBlobs
      /\ GotTotal' = GotTotal /\ NFlags' = NFlags /\ Reserved' = Reserved
  BY SettledProg
<1>2. \A c : InClass(c)' = InClass(c)
  BY DEF InClass
<1>3. \A c, names : Count(c, names)' = Count(c, names)
  BY <1>2 DEF Count
<1>4. DynEntries' = DynEntries
  BY <1>1, <1>3 DEF DynEntries
<1>5. LoaderMade' = LoaderMade
  BY <1>1 DEF LoaderMade
<1>6. RoMadeAll' = RoMadeAll
  BY <1>1, <1>5 DEF RoMadeAll
<1>7. RxMadeAll' = RxMadeAll
  BY DEF RxMadeAll
<1>8. RwMadeAll' = RwMadeAll
  BY <1>1, <1>4 DEF RwMadeAll
<1>9. BssMadeAll' = BssMadeAll
  BY <1>1 DEF BssMadeAll
<1>10. \A c \in Classes : MadeOf(c)' = MadeOf(c)
  BY <1>6, <1>7, <1>8, <1>9 DEF MadeOf
<1>11. \A c \in Classes : WantCores(c)' = WantCores(c)
  BY <1>2, <1>10 DEF WantCores, CoresAt
<1>12. GroupInv' <=> GroupInv
  <2>1. Secs' = Secs /\ \A b, j : MadeFrom(b, j)' <=> MadeFrom(b, j)
    BY DEF Secs, MadeFrom, NameOf, Sec
  <2> QED BY <2>1 DEF GroupInv
<1> QED BY <1>2, <1>4, <1>10, <1>11, <1>12

-----------------------------------------------------------------------------
(* The buckets.                                                            *)

BucketInv ==
  /\ bucket = [c \in Classes |-> bucket[c]]
  /\ \A c \in Classes : IsBuilders(bucket[c]) /\ Cores(bucket[c]) = WantCores(c)

LEMMA CoresRanked ==
  ASSUME IsProgram(prog), GroupInv, NEW c \in Classes, NEW bs, IsBuilders(bs), Cores(bs) \subseteq WantCores(c)
  PROVE  Ranked(bs, 1 .. Len(bs))
<1>1. DOMAIN bs = 1 .. Len(bs)
  BY BuildersSized
<1>2. ASSUME NEW k \in 1 .. Len(bs) PROVE bs[k].name \in DOMAIN NameRank
  <2>1. Core(bs[k]) \in WantCores(c)
    BY <1>1 DEF Cores
  <2>2. Core(bs[k]).name \in DOMAIN NameRank
    BY <2>1, WantRanked
  <2> QED BY <2>2 DEF Core
<1> QED BY <1>2 DEF Ranked

LEMMA BucketSorted ==
  ASSUME IsProgram(prog), GroupInv, NEW c \in Classes
  PROVE  LET t == StableSort(SortAt(builders, InClass(c), ByName) \o SyntheticOf(c), ByScript)
         IN  IsBuilders(t) /\ Cores(t) = WantCores(c)
<1>1. PICK I, n : I = InClass(c) /\ n = Len(builders)
  OBVIOUS
<1>2. n \in Nat /\ I \in SUBSET (1..n)
  BY <1>1, CountNat, BuildersSized DEF GroupInv
<1>3. Ranked(builders, I) /\ \A k \in I : IsBuilder(builders[k])
  BY <1>1, <1>2, GroupedPlain DEF Ranked
<1>4. PICK a, b : a = SortAt(builders, I, ByName) /\ b = SyntheticOf(c)
  OBVIOUS
<1>5. Holds(a, builders, I)
  BY <1>2, <1>3, <1>4, SortByName
<1>6. IsBuilders(a) /\ Cores(a) = CoresAt(builders, I)
  BY <1>3, <1>5, HoldsCores
<1>7. IsBuilders(b) /\ Cores(b) = MadeOf(c)
  BY <1>4, SyntheticMade DEF GroupInv
<1>8. PICK s, m : s = a \o b /\ m = Len(s)
  OBVIOUS
<1>9. IsBuilders(s) /\ Cores(s) = WantCores(c)
  <2>1. IsBuilders(s) /\ Cores(s) = Cores(a) \cup Cores(b)
    BY <1>6, <1>7, <1>8, BuildersConcat
  <2> QED BY <1>1, <1>6, <1>7, <2>1 DEF WantCores
<1>10. m \in Nat /\ DOMAIN s = 1..m
  BY <1>8, <1>9, BuildersSized
<1>11. Ranked(s, 1..m)
  BY <1>8, <1>9, CoresRanked
<1>12. PICK t : t = StableSort(s, ByScript)
  OBVIOUS
<1>13. Holds(t, s, 1..m)
  BY <1>10, <1>11, <1>12, SortByScript
<1>14. \A i \in 1..m : IsBuilder(s[i])
  BY <1>8, <1>9 DEF IsBuilders
<1>15. IsBuilders(t) /\ Cores(t) = CoresAt(s, 1..m)
  BY <1>13, <1>14, HoldsCores
<1>16. Cores(t) = WantCores(c)
  BY <1>9, <1>10, <1>15 DEF Cores, CoresAt
<1> QED BY <1>1, <1>4, <1>8, <1>12, <1>15, <1>16, Zenon

LEMMA AddSyntheticStep ==
  ASSUME IsProgram(prog), GroupInv, AddSynthetic
  PROVE  BucketInv'
<1> DEFINE t(c) == StableSort(SortAt(builders, InClass(c), ByName) \o SyntheticOf(c), ByScript)
<1>1. bucket' = [c \in Classes |-> t(c)] /\ prog' = prog /\ builders' = builders
  BY Zenon DEF AddSynthetic, Classes
<1>2. \A c \in Classes : IsBuilders(t(c)) /\ Cores(t(c)) = WantCores(c)
  BY BucketSorted
<1> HIDE DEF t
<1>3. bucket' = [c \in Classes |-> bucket'[c]] /\ \A c \in Classes : bucket'[c] = t(c)
  BY <1>1
<1>4. \A c \in Classes : WantCores(c)' = WantCores(c)
  BY <1>1, Settled
<1>5. \A c \in Classes : IsBuilders(bucket'[c]) /\ Cores(bucket'[c]) = WantCores(c)'
  BY <1>2, <1>3, <1>4
<1>6. \A c \in Classes : IsBuilders(bucket[c])' /\ Cores(bucket[c])' = WantCores(c)'
  BY <1>5 DEF IsBuilders, Cores
<1> QED BY <1>3, <1>6 DEF BucketInv

(* A larger alignment changes nothing of this.                             *)
LEMMA RaiseAlignKeeps ==
  ASSUME NEW bs, IsBuilders(bs), NEW k \in 1 .. Len(bs), NEW a \in Nat
  PROVE  /\ IsBuilders(RaiseAlign(bs, k, a)) /\ Cores(RaiseAlign(bs, k, a)) = Cores(bs)
         /\ RelroSorted(bs) => RelroSorted(RaiseAlign(bs, k, a))
<1>1. PICK n : n = Len(bs)
  OBVIOUS
<1>2. n \in Nat /\ DOMAIN bs = 1..n /\ bs = [j \in 1..n |-> bs[j]] /\ k \in 1..n
  <2>1. n \in Nat /\ DOMAIN bs = 1..n
    BY <1>1, BuildersSized
  <2> QED BY <1>1, <2>1 DEF IsBuilders, IsSeq
<1>3. \A j \in 1..n : IsBuilder(bs[j])
  BY <1>1 DEF IsBuilders
<1>4. PICK m : m = Max({bs[k].align, a})
  OBVIOUS
<1>5. m \in Nat
  <2>1. bs[k].align \in Nat
    BY <1>2, <1>3 DEF IsBuilder
  <2>2. PICK S, x : S = {bs[k].align, a} /\ x = bs[k].align + a
    OBVIOUS
  <2>3. x \in Nat /\ S \in SUBSET (0..x) /\ S # {}
    BY <2>1, <2>2
  <2>4. Max(S) \in S
    BY <2>3, MaxOf
  <2> QED BY <1>4, <2>2, <2>3, <2>4
<1>6. PICK t, b : t = RaiseAlign(bs, k, a) /\ b = [bs[k] EXCEPT !.align = m]
  OBVIOUS
<1>7. t = [bs EXCEPT ![k] = b]
  BY <1>2, <1>4, <1>6 DEF RaiseAlign
<1>8. IsBuilder(b) /\ Core(b) = Core(bs[k])
  <2>1. IsBuilder(bs[k])
    BY <1>2, <1>3
  <2>2. b = [f \in Fields |-> b[f]] /\ b.align = m
    BY <1>6, <2>1 DEF IsBuilder, Fields
  <2>3. b.name = bs[k].name /\ b.kind = bs[k].kind /\ b.flags = bs[k].flags /\ b.size = bs[k].size /\ b.nobits = bs[k].nobits
    BY <1>6, <2>1 DEF IsBuilder, Fields
  <2> QED BY <1>5, <2>1, <2>2, <2>3 DEF IsBuilder, Core
<1>9. t = [j \in 1..n |-> t[j]] /\ \A j \in 1..n : IsBuilder(t[j]) /\ Core(t[j]) = Core(bs[j])
  BY <1>2, <1>3, <1>7, <1>8
<1>10. IsSeq(t) /\ Len(t) = n /\ DOMAIN t = 1..n
  BY <1>2, <1>9, FunctionIsSeq
<1>11. IsBuilders(t) /\ Cores(t) = Cores(bs)
  BY <1>2, <1>9, <1>10 DEF IsBuilders, Cores
<1>12. \A j \in 1..n : IsRelro(t[j]) <=> IsRelro(bs[j])
  BY <1>9 DEF Core, IsRelro
<1>13. RelroSorted(bs) => RelroSorted(t)
  BY <1>1, <1>10, <1>12 DEF RelroSorted
<1> QED BY <1>6, <1>11, <1>13

LEMMA OrderWritableStep ==
  ASSUME IsProgram(prog), GroupInv, BucketInv, OrderWritable
  PROVE  BucketInv' /\ RelroSorted(bucket'["rw"])
<1>1. PICK rw0, bss0 : rw0 = bucket["rw"] /\ bss0 = bucket["bss"]
  OBVIOUS
<1>2. PICK rw, bss : rw = StableSort(rw0, RelroFirst) /\ bss = StableSort(bss0, TbssFirst)
  OBVIOUS
<1>3. PICK a : a = Max({1} \cup TlsAligns(rw) \cup TlsAligns(bss))
  OBVIOUS
<1> DEFINE tdata == {k \in DOMAIN rw : rw[k].kind = "Tdata"}
           tbss == {k \in DOMAIN bss : bss[k].kind = "Tbss"}
<1>4. PICK x, y : /\ x = IF tdata = {} THEN rw ELSE RaiseAlign(rw, Max(tdata), a)
                  /\ y = IF tdata # {} \/ tbss = {} THEN bss ELSE RaiseAlign(bss, Min(tbss), a)
  OBVIOUS
<1>5. bucket' = [bucket EXCEPT !["rw"] = x, !["bss"] = y] /\ prog' = prog /\ builders' = builders
  BY <1>1, <1>2, <1>3, <1>4, Zenon DEF OrderWritable
<1>6. "rw" \in Classes /\ "bss" \in Classes
  BY DEF Classes
<1>7. IsBuilders(rw0) /\ Cores(rw0) = WantCores("rw") /\ IsBuilders(bss0) /\ Cores(bss0) = WantCores("bss")
  BY <1>1, <1>6 DEF BucketInv
<1>8. IsBuilders(rw) /\ Cores(rw) = Cores(rw0) /\ RelroSorted(rw)
  <2>1. PICK n : n = Len(rw0)
    OBVIOUS
  <2>2. n \in Nat /\ DOMAIN rw0 = 1..n
    BY <1>7, <2>1, BuildersSized
  <2>3. Ranked(rw0, 1..n)
    BY <1>6, <1>7, <2>1, CoresRanked
  <2>4. Holds(rw, rw0, 1..n) /\ RelroSorted(rw)
    BY <1>2, <2>2, <2>3, SortRelro
  <2>5. \A i \in 1..n : IsBuilder(rw0[i])
    BY <1>7, <2>1 DEF IsBuilders
  <2>6. IsBuilders(rw) /\ Cores(rw) = CoresAt(rw0, 1..n)
    BY <2>4, <2>5, HoldsCores
  <2> QED BY <2>2, <2>4, <2>6 DEF Cores, CoresAt
<1>9. IsBuilders(bss) /\ Cores(bss) = Cores(bss0)
  <2>1. PICK n : n = Len(bss0)
    OBVIOUS
  <2>2. n \in Nat /\ DOMAIN bss0 = 1..n
    BY <1>7, <2>1, BuildersSized
  <2>4. Holds(bss, bss0, 1..n)
    BY <1>2, <2>2, SortTbss
  <2>5. \A i \in 1..n : IsBuilder(bss0[i])
    BY <1>7, <2>1 DEF IsBuilders
  <2>6. IsBuilders(bss) /\ Cores(bss) = CoresAt(bss0, 1..n)
    BY <2>4, <2>5, HoldsCores
  <2> QED BY <2>2, <2>6 DEF Cores, CoresAt
<1>10. a \in Nat
  <2>1. PICK m, n : m = MaxAlign(rw) /\ n = MaxAlign(bss)
    OBVIOUS
  <2>2. Sized(rw) /\ Sized(bss) /\ DOMAIN rw = 1 .. Len(rw) /\ DOMAIN bss = 1 .. Len(bss)
    BY <1>8, <1>9, BuildersSized
  <2>3. m \in Nat /\ \A k \in 1 .. Len(rw) : rw[k].align <= m
    BY <2>1, <2>2, MaxAlignFacts
  <2>4. n \in Nat /\ \A k \in 1 .. Len(bss) : bss[k].align <= n
    BY <2>1, <2>2, MaxAlignFacts
  <2>5. TlsAligns(rw) \in SUBSET (0..m)
    BY <2>2, <2>3 DEF TlsAligns, Sized
  <2>6. TlsAligns(bss) \in SUBSET (0..n)
    BY <2>2, <2>4 DEF TlsAligns, Sized
  <2>7. PICK S, b : S = {1} \cup TlsAligns(rw) \cup TlsAligns(bss) /\ b = 1 + m + n
    OBVIOUS
  <2>8. b \in Nat /\ S \in SUBSET (0..b) /\ S # {}
    BY <2>3, <2>4, <2>5, <2>6, <2>7
  <2>9. Max(S) \in S
    BY <2>8, MaxOf
  <2> QED BY <1>3, <2>7, <2>8, <2>9
<1>11. IsBuilders(x) /\ Cores(x) = Cores(rw) /\ RelroSorted(x)
  <2>1. CASE tdata = {}
    BY <1>4, <1>8, <2>1
  <2>2. CASE tdata # {}
    <3>1. PICK k : k = Max(tdata)
      OBVIOUS
    <3>2. Len(rw) \in Nat /\ DOMAIN rw = 1 .. Len(rw)
      BY <1>8, BuildersSized
    <3>3. tdata \in SUBSET (0 .. Len(rw)) /\ tdata \in SUBSET (1 .. Len(rw))
      BY <3>2
    <3>4. x = RaiseAlign(rw, Max(tdata), a)
      BY <1>4, <2>2, Zenon
    <3> HIDE DEF tdata
    <3>5. Max(tdata) \in tdata
      BY <2>2, <3>2, <3>3, MaxOf
    <3>6. k \in 1 .. Len(rw)
      BY <3>1, <3>3, <3>5
    <3> QED BY <1>8, <1>10, <3>1, <3>4, <3>6, RaiseAlignKeeps
  <2> QED BY <2>1, <2>2
<1>12. IsBuilders(y) /\ Cores(y) = Cores(bss)
  <2>1. CASE tdata # {} \/ tbss = {}
    BY <1>4, <1>9, <2>1, Zenon
  <2>2. CASE ~(tdata # {} \/ tbss = {})
    <3>1. PICK k : k = Min(tbss)
      OBVIOUS
    <3>2. Len(bss) \in Nat /\ DOMAIN bss = 1 .. Len(bss)
      BY <1>9, BuildersSized
    <3>3. tbss \in SUBSET Nat /\ tbss \in SUBSET (1 .. Len(bss))
      BY <3>2
    <3>4. y = RaiseAlign(bss, Min(tbss), a) /\ tbss # {}
      BY <1>4, <2>2, Zenon
    <3> HIDE DEF tbss
    <3>5. Min(tbss) \in tbss
      BY <3>3, <3>4, MinOf
    <3>6. k \in 1 .. Len(bss)
      BY <3>1, <3>3, <3>5
    <3> QED BY <1>9, <1>10, <3>1, <3>4, <3>6, RaiseAlignKeeps
  <2> QED BY <2>1, <2>2
<1> HIDE DEF tdata, tbss
<1>13. /\ bucket' = [c \in Classes |-> bucket'[c]]
       /\ \A c \in Classes : bucket'[c] = IF c = "rw" THEN x ELSE IF c = "bss" THEN y ELSE bucket[c]
  <2>1. bucket = [c \in Classes |-> bucket[c]]
    BY DEF BucketInv
  <2> QED BY <1>5, <1>6, <2>1
<1>14. \A c \in Classes : WantCores(c)' = WantCores(c)
  BY <1>5, Settled
<1>15. \A c \in Classes : IsBuilders(bucket'[c]) /\ Cores(bucket'[c]) = WantCores(c)'
  <2> TAKE c \in Classes
  <2>1. CASE c = "rw"
    BY <1>7, <1>8, <1>11, <1>13, <1>14, <2>1
  <2>2. CASE c = "bss"
    BY <1>7, <1>9, <1>12, <1>13, <1>14, <2>2
  <2>3. CASE c # "rw" /\ c # "bss"
    BY <1>13, <1>14, <2>3 DEF BucketInv
  <2> QED BY <2>1, <2>2, <2>3
<1>16. \A c \in Classes : IsBuilders(bucket[c])' /\ Cores(bucket[c])' = WantCores(c)'
  BY <1>15 DEF IsBuilders, Cores
<1>17. RelroSorted(bucket'["rw"])
  BY <1>6, <1>11, <1>13
<1> QED BY <1>13, <1>16, <1>17 DEF BucketInv

-----------------------------------------------------------------------------
(* The sections of the output.                                             *)

(* A section that was placed in memory, or one that is only in the file.   *)
IsPlaced(s) == IsBuilder(s) /\ s.source = Source(s)
MetaNames == {".symtab", ".strtab", ".shstrtab", ".rela", ".rustc", ".comment", ".debug_info"}
MetaSources == {".symtab", ".strtab", ".shstrtab", "RelaEmit", "Input"}
IsMeta(s) ==
  /\ s = [f \in Fields |-> s[f]] /\ s.kind = "Other" /\ s.name \in MetaNames /\ s.source \in MetaSources
  /\ s.flags = {}

(* Exactly these were placed.                                              *)
SectionsAre(ss, W) ==
  /\ IsSeq(ss)
  /\ \A k \in 1 .. Len(ss) : (Core(ss[k]) \in W /\ IsPlaced(ss[k])) \/ IsMeta(ss[k])
  /\ \A w \in W : \E k \in 1 .. Len(ss) : Core(ss[k]) = w /\ IsPlaced(ss[k])

LEMMA SectionsConcat ==
  ASSUME NEW a, NEW b, NEW V, NEW W, SectionsAre(a, V), SectionsAre(b, W)
  PROVE  SectionsAre(a \o b, V \cup W)
<1>1. PICK c, m, n : c = a \o b /\ m = Len(a) /\ n = Len(b)
  OBVIOUS
<1>2. /\ IsSeq(c) /\ m \in Nat /\ n \in Nat /\ Len(c) = m + n
      /\ \A i \in 1..m : c[i] = a[i]
      /\ \A i \in 1..n : c[m + i] = b[i]
  BY <1>1, ConcatIsSeq DEF SectionsAre
<1>3. ASSUME NEW k \in 1..(m + n)
      PROVE  (Core(c[k]) \in V \cup W /\ IsPlaced(c[k])) \/ IsMeta(c[k])
  <2>1. CASE k \in 1..m
    BY <1>1, <1>2, <2>1 DEF SectionsAre
  <2>2. CASE k \notin 1..m
    <3>1. PICK i : i = k - m
      OBVIOUS
    <3>2. i \in 1..n /\ k = m + i
      BY <1>2, <2>2, <3>1
    <3> QED BY <1>1, <1>2, <3>2 DEF SectionsAre
  <2> QED BY <2>1, <2>2
<1>4. ASSUME NEW w \in V PROVE \E k \in 1..(m + n) : Core(c[k]) = w /\ IsPlaced(c[k])
  <2>1. PICK k \in 1..m : Core(a[k]) = w /\ IsPlaced(a[k])
    BY <1>1 DEF SectionsAre
  <2>2. k \in 1..(m + n) /\ c[k] = a[k]
    BY <1>2
  <2> QED BY <2>1, <2>2
<1>5. ASSUME NEW w \in W PROVE \E k \in 1..(m + n) : Core(c[k]) = w /\ IsPlaced(c[k])
  <2>1. PICK i \in 1..n : Core(b[i]) = w /\ IsPlaced(b[i])
    BY <1>1 DEF SectionsAre
  <2>2. m + i \in 1..(m + n) /\ c[m + i] = b[i]
    BY <1>2
  <2> QED BY <2>1, <2>2
<1> QED BY <1>1, <1>2, <1>3, <1>4, <1>5 DEF SectionsAre

LEMMA NoSections == SectionsAre(<< >>, {})
<1>1. Len(<< >>) = 0
  OBVIOUS
<1> QED BY <1>1, EmptyBuilders DEF SectionsAre, IsBuilders

LEMMA MetaOnly ==
  ASSUME NEW bs, IsSeq(bs), \A k \in 1 .. Len(bs) : IsMeta(bs[k])
  PROVE  SectionsAre(bs, {})
  BY DEF SectionsAre

LEMMA PlaceOf ==
  ASSUME NEW bs, IsBuilders(bs), NEW va
  PROVE  SectionsAre(Place(bs, va), Cores(bs))
<1>1. PICK n, t : n = Len(bs) /\ t = Place(bs, va)
  OBVIOUS
<1>2. n \in Nat /\ DOMAIN bs = 1..n /\ \A k \in 1..n : IsBuilder(bs[k])
  BY <1>1, BuildersSized DEF IsBuilders
<1>3. ASSUME NEW k \in 1..n
      PROVE  IsBuilder(t[k]) /\ Core(t[k]) = Core(bs[k]) /\ IsPlaced(t[k])
  <2>1. PICK x, y, z, b, c : /\ x = Begin(bs, va, k) /\ y = Begin(bs, va, k) - prog.base /\ z = Source(bs[k])
                             /\ b = bs[k] /\ c = t[k]
    OBVIOUS
  <2>2. c = [b EXCEPT !.addr = x, !.off = y, !.source = z]
    BY <1>1, <1>2, <2>1 DEF Place
  <2>3. IsBuilder(b)
    BY <1>2, <2>1
  <2>4. c = [f \in Fields |-> c[f]]
    BY <2>2, <2>3 DEF IsBuilder
  <2>5. c.name = b.name /\ c.kind = b.kind /\ c.flags = b.flags /\ c.size = b.size /\ c.nobits = b.nobits
        /\ c.align = b.align /\ c.source = z
    BY <2>2, <2>3 DEF IsBuilder, Fields
  <2>6. IsBuilder(c) /\ Core(c) = Core(b)
    BY <2>3, <2>4, <2>5 DEF IsBuilder, Core
  <2>7. Source(c) = Source(b)
    BY <2>5 DEF Source
  <2> QED BY <2>1, <2>5, <2>6, <2>7 DEF IsPlaced
<1>4. t = [k \in 1..n |-> t[k]]
  BY <1>1, <1>2 DEF Place
<1>5. IsSeq(t) /\ Len(t) = n
  BY <1>2, <1>4, FunctionIsSeq
<1>6. \A w \in Cores(bs) : \E k \in 1..n : w = Core(bs[k])
  BY <1>2 DEF Cores
<1>7. \A k \in 1..n : Core(bs[k]) \in Cores(bs)
  BY <1>2 DEF Cores
<1>8. \A w \in Cores(bs) : \E k \in 1..n : Core(t[k]) = w /\ IsPlaced(t[k])
  BY <1>3, <1>6
<1> QED BY <1>1, <1>3, <1>5, <1>7, <1>8 DEF SectionsAre

LEMMA SplitBuilders ==
  ASSUME NEW bs, IsBuilders(bs), NEW m \in 1 .. Len(bs) + 1
  PROVE  /\ IsBuilders(SubSeq(bs, 1, m - 1)) /\ IsBuilders(SubSeq(bs, m, Len(bs)))
         /\ Cores(SubSeq(bs, 1, m - 1)) \cup Cores(SubSeq(bs, m, Len(bs))) = Cores(bs)
         /\ \A k \in 1 .. Len(SubSeq(bs, 1, m - 1)) : \E i \in 1 .. Len(bs) : i < m /\ SubSeq(bs, 1, m - 1)[k] = bs[i]
         /\ \A k \in 1 .. Len(SubSeq(bs, m, Len(bs))) : \E i \in 1 .. Len(bs) : m <= i /\ SubSeq(bs, m, Len(bs))[k] = bs[i]
<1>1. PICK n, a, b, p : n = Len(bs) /\ p = m - 1 /\ a = SubSeq(bs, 1, p) /\ b = SubSeq(bs, m, n)
  OBVIOUS
<1>2. n \in Nat /\ DOMAIN bs = 1..n /\ \A k \in 1..n : IsBuilder(bs[k])
  BY <1>1, BuildersSized DEF IsBuilders
<1>3. p \in 0..n /\ m \in 1..(n + 1) /\ m = p + 1 /\ n - p \in Nat /\ p \in Nat
  BY <1>1, <1>2
<1>4. bs \in Seq(ToSet(bs))
  BY DEF IsBuilders, IsSeq
<1> HIDE DEF ToSet
<1>5. a = [k \in 1..p |-> bs[k]]
  BY <1>1, <1>2, <1>3, <1>4
<1>6. b = [k \in 1..(n - p) |-> bs[p + k]]
  BY <1>1, <1>2, <1>3, <1>4
<1>7. a = [k \in 1..p |-> a[k]] /\ b = [k \in 1..(n - p) |-> b[k]]
  BY <1>5, <1>6
<1>8. IsSeq(a) /\ Len(a) = p /\ DOMAIN a = 1..p
  BY <1>3, <1>7, FunctionIsSeq
<1>9. IsSeq(b) /\ Len(b) = n - p /\ DOMAIN b = 1..(n - p)
  BY <1>3, <1>7, FunctionIsSeq
<1>10. \A k \in 1..p : k \in 1..n /\ a[k] = bs[k]
  BY <1>2, <1>3, <1>5
<1>11. \A k \in 1..(n - p) : p + k \in 1..n /\ b[k] = bs[p + k]
  BY <1>2, <1>3, <1>6
<1>12. IsBuilders(a) /\ IsBuilders(b)
  BY <1>2, <1>8, <1>9, <1>10, <1>11 DEF IsBuilders
<1>13. Cores(a) \subseteq Cores(bs) /\ Cores(b) \subseteq Cores(bs)
  BY <1>2, <1>8, <1>9, <1>10, <1>11 DEF Cores
<1>14. ASSUME NEW k \in 1..n PROVE Core(bs[k]) \in Cores(a) \cup Cores(b)
  <2>1. CASE k \in 1..p
    BY <1>8, <1>10, <2>1 DEF Cores
  <2>2. CASE k \notin 1..p
    <3>1. PICK i : i = k - p
      OBVIOUS
    <3>2. i \in 1..(n - p) /\ k = p + i
      BY <1>2, <1>3, <2>2, <3>1
    <3> QED BY <1>9, <1>11, <3>2 DEF Cores
  <2> QED BY <2>1, <2>2
<1>15. Cores(bs) \subseteq Cores(a) \cup Cores(b)
  BY <1>2, <1>14 DEF Cores
<1>16. \A k \in 1 .. Len(a) : \E i \in 1..n : i < m /\ a[k] = bs[i]
  BY <1>3, <1>8, <1>10
<1>17. \A k \in 1 .. Len(b) : \E i \in 1..n : m <= i /\ b[k] = bs[i]
  <2> TAKE k \in 1 .. Len(b)
  <2>1. k \in 1..(n - p) /\ p + k \in 1..n /\ b[k] = bs[p + k] /\ m <= p + k
    BY <1>3, <1>9, <1>11
  <2> QED BY <2>1
<1> QED BY <1>1, <1>12, <1>13, <1>15, <1>16, <1>17

LEMMA FileOnlyMeta ==
  ASSUME NEW name \in MetaNames, NEW src \in MetaSources, NEW align, NEW size, NEW parts
  PROVE  IsMeta(FileOnly(name, src, align, size, parts))
<1>1. PICK b, c : b = Builder(name, "Other", {}, align, size) /\ c = FileOnly(name, src, align, size, parts)
  OBVIOUS
<1>2. b = [f \in Fields |-> b[f]] /\ b.name = name /\ b.kind = "Other" /\ b.flags = {}
  <2>1. DOMAIN b = Fields
    BY <1>1 DEF Builder, Fields
  <2>2. b = [f \in DOMAIN b |-> b[f]]
    BY <1>1 DEF Builder
  <2>3. b.name = name /\ b.kind = "Other" /\ b.flags = {}
    BY <1>1 DEF Builder
  <2> QED BY <2>1, <2>2, <2>3
<1>3. c = [b EXCEPT !.source = src, !.parts = parts]
  BY <1>1, Zenon DEF FileOnly
<1>4. c = [f \in Fields |-> c[f]]
  BY <1>2, <1>3
<1>5. c.name = name /\ c.kind = "Other" /\ c.source = src /\ c.flags = {}
  BY <1>2, <1>3 DEF Fields
<1>6. IsMeta(c)
  BY <1>4, <1>5 DEF IsMeta
<1> QED BY <1>1, <1>6

Metas(bs) == IsSeq(bs) /\ \A k \in 1 .. Len(bs) : IsMeta(bs[k])
LEMMA MetasConcat ==
  ASSUME NEW a, NEW b, Metas(a), Metas(b)
  PROVE  Metas(a \o b)
<1>1. PICK c, m, n : c = a \o b /\ m = Len(a) /\ n = Len(b)
  OBVIOUS
<1>2. /\ IsSeq(c) /\ m \in Nat /\ n \in Nat /\ Len(c) = m + n
      /\ \A i \in 1..m : c[i] = a[i]
      /\ \A i \in 1..n : c[m + i] = b[i]
  BY <1>1, ConcatIsSeq DEF Metas
<1>3. ASSUME NEW k \in 1..(m + n) PROVE IsMeta(c[k])
  <2>1. CASE k \in 1..m
    BY <1>1, <1>2, <2>1 DEF Metas
  <2>2. CASE k \notin 1..m
    <3>1. PICK i : i = k - m
      OBVIOUS
    <3>2. i \in 1..n /\ k = m + i
      BY <1>2, <2>2, <3>1
    <3> QED BY <1>1, <1>2, <3>2 DEF Metas
  <2> QED BY <2>1, <2>2
<1> QED BY <1>1, <1>2, <1>3 DEF Metas

LEMMA NoMetas == Metas(<< >>)
<1>1. Len(<< >>) = 0 /\ IsSeq(<< >>)
  BY EmptyBuilders DEF IsBuilders
<1> QED BY <1>1 DEF Metas

LEMMA OneMeta ==
  ASSUME NEW b, IsMeta(b)
  PROVE  Metas(<<b>>)
<1>1. <<b>> \in Seq({b}) /\ Len(<<b>>) = 1 /\ DOMAIN <<b>> = {1} /\ <<b>>[1] = b
  OBVIOUS
<1>2. ToSet(<<b>>) = {b}
  BY <1>1 DEF ToSet
<1> QED BY <1>1, <1>2 DEF Metas, IsSeq

LEMMA MetaFunction ==
  ASSUME NEW n \in Nat, NEW t, t = [k \in 1..n |-> t[k]], \A k \in 1..n : IsMeta(t[k])
  PROVE  Metas(t)
<1>1. IsSeq(t) /\ Len(t) = n
  BY FunctionIsSeq
<1> QED BY <1>1 DEF Metas

LEMMA MetaSectionsAre ==
  ASSUME IsProgram(prog), IsSeq(sections)
  PROVE  Metas(MetaSections)
<1>1. ".symtab" \in MetaNames /\ ".strtab" \in MetaNames /\ ".shstrtab" \in MetaNames /\ ".rela" \in MetaNames
      /\ ".symtab" \in MetaSources /\ ".strtab" \in MetaSources /\ ".shstrtab" \in MetaSources
      /\ "RelaEmit" \in MetaSources /\ "Input" \in MetaSources
  BY DEF MetaNames, MetaSources
<1>2. PICK n : n = Len(SymtabPlan)
  OBVIOUS
<1>3. PICK a, b : /\ a = FileOnly(".symtab", ".symtab", 8, SYM_SIZE * (n + 1), << >>)
                  /\ b = FileOnly(".strtab", ".strtab", 1, 1 + StrSize * n, << >>)
  OBVIOUS
<1>4. IsMeta(a) /\ IsMeta(b)
  BY <1>1, <1>3, FileOnlyMeta, Zenon
<1>5. Metas(<<a, b>>)
  <2>1. PICK t : t = <<a, b>>
    OBVIOUS
  <2>2. t = [k \in 1..2 |-> t[k]] /\ t[1] = a /\ t[2] = b
    BY <2>1
  <2>3. \A k \in 1..2 : IsMeta(t[k])
    BY <1>4, <2>2
  <2>4. 2 \in Nat
    OBVIOUS
  <2> QED BY <2>1, <2>2, <2>3, <2>4, MetaFunction
<1>6. PICK x : x = Only(~prog.strip, <<a, b>>)
  OBVIOUS
<1>7. Metas(x)
  BY <1>5, <1>6, NoMetas DEF Only
<1>8. Metas(RelaEmit)
  <2> DEFINE I == Where(LAMBDA s : s.source = "Input" /\ "A" \in s.flags /\ RelocsOf(SecsIn(s)) > 0)
  <2>1. PICK m \in Nat : DOMAIN sections = 1..m
    BY DEF IsSeq
  <2>2. I \in SUBSET (1..m)
    BY <2>1 DEF Where
  <2>3. PICK of : of = InOrder(sections, I)
    OBVIOUS
  <2>4. RelaEmit = [k \in DOMAIN of |-> FileOnly(".rela", "RelaEmit", 8, RELA_SIZE * RelocsOf(SecsIn(of[k])), << >>)]
    BY <2>3, Zenon DEF RelaEmit
  <2> HIDE DEF I
  <2>5. Holds(of, sections, I)
    BY <2>1, <2>2, <2>3, InOrderHolds
  <2>6. PICK p \in Nat : DOMAIN of = 1..p
    BY <2>5 DEF Holds, IsSeq
  <2>7. \A k \in 1..p : RelaEmit[k] = FileOnly(".rela", "RelaEmit", 8, RELA_SIZE * RelocsOf(SecsIn(of[k])), << >>)
    BY <2>4, <2>6
  <2>8. \A k \in 1..p : IsMeta(RelaEmit[k])
    BY <1>1, <2>7, FileOnlyMeta
  <2>9. RelaEmit = [k \in 1..p |-> RelaEmit[k]]
    BY <2>4, <2>6
  <2> QED BY <2>8, <2>9, MetaFunction
<1>9. PICK y : y = Only(prog.emit_relocs /\ ~prog.strip, RelaEmit)
  OBVIOUS
<1>10. Metas(y)
  BY <1>8, <1>9, NoMetas DEF Only
<1>11. PICK z : z = [k \in DOMAIN Passthrough |-> Joined(Passthrough[k].name)]
  OBVIOUS
<1>12. Metas(z)
  <2> DEFINE first == {i \in Secs : /\ ShouldPassthrough(Sec(i))
                             /\ \A j \in 1 .. i - 1 : ~(ShouldPassthrough(Sec(j)) /\ Sec(j).name = Sec(i).name)}
  <2>1. PICK m \in Nat : Secs = 1..m
    BY DEF IsProgram, IsSeq, Secs
  <2>2. first \in SUBSET (1..m) /\ \A i \in first : ShouldPassthrough(Sec(i))
    BY <2>1
  <2>3. PICK of : of = Passthrough
    OBVIOUS
  <2>4. of = InOrder(prog.secs, first)
    BY <2>3 DEF Passthrough
  <2> HIDE DEF first
  <2>5. Holds(of, prog.secs, first)
    BY <2>2, <2>4, InOrderHolds
  <2>6. PICK p \in Nat : DOMAIN of = 1..p /\ Len(of) = p
    BY <2>5 DEF Holds, IsSeq
  <2>7. ASSUME NEW k \in 1..p PROVE IsMeta(Joined(of[k].name))
    <3>1. PICK i \in first : of[k] = prog.secs[i]
      BY <2>5, <2>6 DEF Holds
    <3>2. of[k] = Sec(i) /\ ShouldPassthrough(Sec(i))
      BY <2>2, <3>1 DEF Sec
    <3>3. PICK s : s = Sec(i)
      OBVIOUS
    <3>4. Kind(s) = "Debug" => s.name[1] = ".debug_info"
      BY DEF Kind
    <3>5. s.name[1] \in MetaNames
      BY <3>2, <3>3, <3>4 DEF ShouldPassthrough, MetaNames
    <3>6. PICK al, si, pa : Joined(s.name) = FileOnly(s.name[1], "Input", al, si, pa)
      BY Zenon DEF Joined
    <3> QED BY <1>1, <3>2, <3>3, <3>5, <3>6, FileOnlyMeta
  <2>8. z = [k \in 1..p |-> z[k]] /\ \A k \in 1..p : z[k] = Joined(of[k].name)
    BY <1>11, <2>3, <2>6
  <2> QED BY <2>7, <2>8, MetaFunction
<1>13. Metas(x \o y \o z)
  <2>1. Metas(x \o y)
    BY <1>7, <1>10, MetasConcat
  <2> QED BY <1>12, <2>1, MetasConcat
<1>14. PICK rest, size : rest = x \o y \o z /\ size = 1 + StrSize * (Len(sections) + Len(rest) + 1)
  OBVIOUS
<1>15. PICK w : w = FileOnly(".shstrtab", ".shstrtab", 1, size, << >>)
  OBVIOUS
<1>16. MetaSections = Append(rest, w)
  BY <1>2, <1>3, <1>6, <1>9, <1>11, <1>14, <1>15, Zenon DEF MetaSections
<1>17. Metas(<<w>>)
  BY <1>1, <1>15, FileOnlyMeta, OneMeta
<1>18. Append(rest, w) = rest \o <<w>>
  <2>1. rest \in Seq(ToSet(rest))
    BY <1>13, <1>14 DEF Metas, IsSeq
  <2> HIDE DEF ToSet
  <2> QED BY <2>1
<1> QED BY <1>13, <1>14, <1>16, <1>17, <1>18, MetasConcat

-----------------------------------------------------------------------------
(* Which of the sections the linker can make it makes.                     *)

IsMade(name) == \E c \in Classes : \E w \in MadeOf(c) : w.name = name

LEMMA MadeUnder ==
  ASSUME NEW name \in RoNames
  PROVE  IsMade(name) <=> \E w \in RoMadeAll : w.name = name
<1>1. "ro" \in Classes /\ MadeOf("ro") = RoMadeAll
  BY MadeOfClass DEF Classes
<1>2. ASSUME NEW c \in Classes, NEW w \in MadeOf(c), w.name = name PROVE w \in RoMadeAll
  <2>1. name # ".plt" /\ name # ".bss" /\ name \notin {".got", ".got.plt", ".dynamic"}
    BY DEF RoNames
  <2>2. \A v \in RxMadeAll : v.name = ".plt"
    BY MadeNames DEF Is
  <2>3. \A v \in RwMadeAll : v.name \in {".got", ".got.plt", ".dynamic"}
    BY MadeNames DEF Is
  <2>4. \A v \in BssMadeAll : v.name = ".bss"
    BY MadeNames DEF Is
  <2>5. w \in RoMadeAll \/ w \in RxMadeAll \/ w \in RwMadeAll \/ w \in BssMadeAll
    BY MadeOfClass DEF Classes
  <2> QED BY <1>2, <2>1, <2>2, <2>3, <2>4, <2>5
<1> QED BY <1>1, <1>2 DEF IsMade

(* Which part of the union a section of a name comes from.                 *)
LEMMA RoMadeNamed ==
  ASSUME NEW w \in RoMadeAll
  PROVE  /\ w.name = ".note.gnu.build-id" =>
              w \in Made(".note.gnu.build-id", "Other", {"A"}, Flag(prog.build_id) * BUILD_ID_NOTE_SIZE)
         /\ w.name = ".eh_frame_hdr" =>
              w \in Made(".eh_frame_hdr", "Other", {"A"}, IF NFdes = 0 THEN 0 ELSE 12 + 8 * NFdes)
         /\ w.name = ".interp" => prog.dynamic /\ w \in Made(".interp", "Other", {"A"}, DynBlobs.interp)
<1> DEFINE made(name, size) == Made(name, "Other", {"A"}, size)
<1>1. \/ w \in made(".note.gnu.property", NoteSize)
      \/ w \in made(".note.gnu.build-id", Flag(prog.build_id) * BUILD_ID_NOTE_SIZE)
      \/ w \in made(".eh_frame_hdr", IF NFdes = 0 THEN 0 ELSE 12 + 8 * NFdes)
      \/ prog.dynamic /\ w \in LoaderMade
  BY DEF RoMadeAll
<1>2. w \in LoaderMade =>
        \/ w \in made(".interp", DynBlobs.interp) \/ w \in made(".hash", DynBlobs.hash)
        \/ w \in made(".gnu.hash", DynBlobs.gnuhash) \/ w \in made(".dynsym", DynBlobs.dynsym)
        \/ w \in made(".dynstr", DynBlobs.dynstr) \/ w \in made(".gnu.version", DynBlobs.versym)
        \/ w \in made(".gnu.version_r", DynBlobs.verneed) \/ w \in made(".rela.dyn", DynBlobs.rela)
        \/ w \in made(".rela.plt", RELA_SIZE * prog.plt)
  BY DEF LoaderMade
<1>3. \A name, size : w \in made(name, size) => w.name = name
  BY MadeIs DEF Is
<1> HIDE DEF made
<1>4. w.name = ".note.gnu.build-id" => w \in made(".note.gnu.build-id", Flag(prog.build_id) * BUILD_ID_NOTE_SIZE)
  BY <1>1, <1>2, <1>3
<1>5. w.name = ".eh_frame_hdr" => w \in made(".eh_frame_hdr", IF NFdes = 0 THEN 0 ELSE 12 + 8 * NFdes)
  BY <1>1, <1>2, <1>3
<1>6. w.name = ".interp" => prog.dynamic /\ w \in made(".interp", DynBlobs.interp)
  BY <1>1, <1>2, <1>3
<1> QED BY <1>4, <1>5, <1>6 DEF made

LEMMA MadeSome ==
  ASSUME NEW name, NEW kind, NEW flags, NEW size, size > 0
  PROVE  \E w \in Made(name, kind, flags, size) : w.name = name
<1>1. PICK w : w = [name |-> name, kind |-> kind, flags |-> flags, size |-> size]
  OBVIOUS
<1>2. w \in Made(name, kind, flags, size) /\ w.name = name
  BY <1>1, MadeMember
<1> QED BY <1>2

LEMMA MadeWhen ==
  ASSUME IsProgram(prog)
  PROVE  /\ IsMade(".note.gnu.build-id") <=> prog.build_id
         /\ IsMade(".eh_frame_hdr") <=> NFdes > 0
         /\ IsMade(".interp") <=> prog.dynamic /\ ~prog.shared
<1>1. ".note.gnu.build-id" \in RoNames /\ ".eh_frame_hdr" \in RoNames /\ ".interp" \in RoNames
  BY DEF RoNames
<1>2. IsMade(".note.gnu.build-id") <=> prog.build_id
  <2>1. PICK n : n = Flag(prog.build_id) * BUILD_ID_NOTE_SIZE
    OBVIOUS
  <2>2. n > 0 <=> prog.build_id
    BY <2>1 DEF Flag, BUILD_ID_NOTE_SIZE
  <2>3. Made(".note.gnu.build-id", "Other", {"A"}, n) \subseteq RoMadeAll
    BY <2>1 DEF RoMadeAll
  <2>4. n > 0 => \E w \in RoMadeAll : w.name = ".note.gnu.build-id"
    <3>1. n > 0 => \E w \in Made(".note.gnu.build-id", "Other", {"A"}, n) : w.name = ".note.gnu.build-id"
      BY MadeSome
    <3> QED BY <2>3, <3>1
  <2>5. ASSUME NEW w \in RoMadeAll, w.name = ".note.gnu.build-id" PROVE n > 0
    <3>1. w \in Made(".note.gnu.build-id", "Other", {"A"}, n)
      BY <2>1, <2>5, RoMadeNamed
    <3> QED BY <3>1, MadeMember
  <2> QED BY <1>1, <2>2, <2>4, <2>5, MadeUnder
<1>3. IsMade(".eh_frame_hdr") <=> NFdes > 0
  <2>1. PICK n : n = IF NFdes = 0 THEN 0 ELSE 12 + 8 * NFdes
    OBVIOUS
  <2>2. n > 0 <=> NFdes > 0
    <3>1. NFdes \in Nat
      BY CountsOfSections DEF NFdes
    <3> QED BY <2>1, <3>1
  <2>3. Made(".eh_frame_hdr", "Other", {"A"}, n) \subseteq RoMadeAll
    BY <2>1 DEF RoMadeAll
  <2>4. n > 0 => \E w \in RoMadeAll : w.name = ".eh_frame_hdr"
    <3>1. n > 0 => \E w \in Made(".eh_frame_hdr", "Other", {"A"}, n) : w.name = ".eh_frame_hdr"
      BY MadeSome
    <3> QED BY <2>3, <3>1
  <2>5. ASSUME NEW w \in RoMadeAll, w.name = ".eh_frame_hdr" PROVE n > 0
    <3>1. w \in Made(".eh_frame_hdr", "Other", {"A"}, n)
      BY <2>1, <2>5, RoMadeNamed
    <3> QED BY <3>1, MadeMember
  <2> QED BY <1>1, <2>2, <2>4, <2>5, MadeUnder
<1>4. IsMade(".interp") <=> prog.dynamic /\ ~prog.shared
  <2>1. PICK n : n = DynBlobs.interp
    OBVIOUS
  <2>2. prog.dynamic => (n > 0 <=> ~prog.shared)
    <3>1. prog.dynamic => n = IF prog.shared THEN 0 ELSE StrSize
      BY <2>1, BlobSizes
    <3> QED BY <3>1, LayoutSizesAssumption
  <2>3. prog.dynamic => Made(".interp", "Other", {"A"}, n) \subseteq RoMadeAll
    BY <2>1 DEF RoMadeAll, LoaderMade
  <2>4. prog.dynamic /\ n > 0 => \E w \in RoMadeAll : w.name = ".interp"
    <3>1. n > 0 => \E w \in Made(".interp", "Other", {"A"}, n) : w.name = ".interp"
      BY MadeSome
    <3> QED BY <2>3, <3>1
  <2>5. ASSUME NEW w \in RoMadeAll, w.name = ".interp" PROVE prog.dynamic /\ n > 0
    <3>1. prog.dynamic /\ w \in Made(".interp", "Other", {"A"}, n)
      BY <2>1, <2>5, RoMadeNamed
    <3> QED BY <3>1, MadeMember
  <2> QED BY <1>1, <2>2, <2>4, <2>5, MadeUnder
<1> QED BY <1>2, <1>3, <1>4

LEMMA MadeDynamic ==
  ASSUME IsProgram(prog), IsBuilders(builders)
  PROVE  /\ IsMade(".dynamic") <=> prog.dynamic
         /\ \A c \in Classes : \A w \in MadeOf(c) : w.name = ".dynamic" => w.size = 16 * DynEntries
<1>1. PICK n : n = 16 * DynEntries
  OBVIOUS
<1>2. prog.dynamic => n > 0
  BY <1>1, DynEntriesNat
<1>3. ASSUME NEW c \in Classes, NEW w \in MadeOf(c), w.name = ".dynamic"
      PROVE  prog.dynamic /\ w.size = n
  <2>1. ".dynamic" \notin RoNames
    BY DEF RoNames
  <2>2. \A v \in RoMadeAll : v.name \in RoNames
    BY MadeNames DEF Is
  <2>3. \A v \in RxMadeAll : v.name = ".plt"
    BY MadeNames DEF Is
  <2>4. \A v \in BssMadeAll : v.name = ".bss"
    BY MadeNames DEF Is
  <2>5. w \in RoMadeAll \/ w \in RxMadeAll \/ w \in RwMadeAll \/ w \in BssMadeAll
    BY MadeOfClass DEF Classes
  <2>6. w \in RwMadeAll
    BY <1>3, <2>1, <2>2, <2>3, <2>4, <2>5
  <2>7. \/ w \in Made(".got", "Data", {"A", "W"}, GotTotal)
        \/ w \in Made(".got.plt", "Data", {"A", "W"}, 8 * (prog.plt + 3))
        \/ prog.dynamic /\ w \in Made(".dynamic", "Data", {"A", "W"}, n)
    BY <1>1, <2>6 DEF RwMadeAll
  <2>8. w \notin Made(".got", "Data", {"A", "W"}, GotTotal) /\ w \notin Made(".got.plt", "Data", {"A", "W"}, 8 * (prog.plt + 3))
    BY <1>3, MadeIs DEF Is
  <2>9. prog.dynamic /\ w \in Made(".dynamic", "Data", {"A", "W"}, n)
    BY <2>7, <2>8
  <2> QED BY <2>9, MadeMember
<1>4. prog.dynamic => IsMade(".dynamic")
  <2>1. "rw" \in Classes /\ MadeOf("rw") = RwMadeAll
    BY MadeOfClass DEF Classes
  <2>2. prog.dynamic => Made(".dynamic", "Data", {"A", "W"}, n) \subseteq RwMadeAll
    BY <1>1 DEF RwMadeAll
  <2>3. prog.dynamic => \E w \in Made(".dynamic", "Data", {"A", "W"}, n) : w.name = ".dynamic"
    BY <1>2, MadeSome
  <2> QED BY <2>1, <2>2, <2>3 DEF IsMade
<1> QED BY <1>1, <1>3, <1>4 DEF IsMade

-----------------------------------------------------------------------------
(* Finding sections by their names.                                        *)

AllWanted == UNION {WantCores(c) : c \in Classes}
AllPlaced == SectionsAre(sections, AllWanted)

LEMMA SourceOfName ==
  ASSUME NEW s, NEW n \in Synthetic
  PROVE  Source(s) = n <=> s.name = n
<1>1. "Bss" \notin Synthetic /\ "Input" \notin Synthetic
  BY DEF Synthetic
<1> QED BY <1>1 DEF Source

LEMMA MetaNamesApart ==
  /\ MetaNames \cap Synthetic = {} /\ MetaSources \cap Synthetic = {}
  /\ MetaNames \cap {".init", ".fini", ".init_array", ".fini_array"} = {}
  BY DEF MetaNames, MetaSources, Synthetic

(* A wanted section of a name comes from the linker or from the inputs.    *)
LEMMA WantedFrom ==
  ASSUME IsProgram(prog), GroupInv, NEW w \in AllWanted
  PROVE  \/ \E c \in Classes : w \in MadeOf(c)
         \/ \E k \in 1 .. Len(builders) : w = Core(builders[k]) /\ k \in InClass(ClassOf(builders[k]))
<1>1. PICK c \in Classes : w \in WantCores(c)
  BY DEF AllWanted
<1>2. CASE w \in MadeOf(c)
  BY <1>2
<1>3. CASE w \in CoresAt(builders, InClass(c))
  <2>1. PICK k \in InClass(c) : w = Core(builders[k])
    BY <1>3 DEF CoresAt
  <2>2. k \in 1 .. Len(builders)
    BY CountNat DEF GroupInv
  <2>3. ClassOf(builders[k]) = c
    BY DEF InClass
  <2> QED BY <2>1, <2>2, <2>3
<1> QED BY <1>1, <1>2, <1>3 DEF WantCores

LEMMA FoundMade ==
  ASSUME IsProgram(prog), GroupInv, AllPlaced, NEW n \in Synthetic
  PROVE  /\ FindSource(n) # {} <=> IsMade(n)
         /\ Named(n) # {} <=> IsMade(n)
         /\ FindSource(n) \in SUBSET (1 .. Len(sections))
         /\ \A k \in FindSource(n) : \E c \in Classes : Core(sections[k]) \in MadeOf(c) /\ sections[k].name = n
<1>1. Len(sections) \in Nat /\ DOMAIN sections = 1 .. Len(sections)
  BY DEF AllPlaced, SectionsAre, IsSeq
<1>2. FindSource(n) = {k \in 1 .. Len(sections) : sections[k].source = n}
  BY <1>1 DEF FindSource, Where
<1>3. Named(n) = {k \in 1 .. Len(sections) : sections[k].name = n}
  BY <1>1 DEF Named, Where
<1>4. ASSUME NEW k \in 1 .. Len(sections), sections[k].source = n \/ sections[k].name = n
      PROVE  /\ sections[k].name = n /\ sections[k].source = n
             /\ \E c \in Classes : Core(sections[k]) \in MadeOf(c)
  <2>1. PICK s : s = sections[k]
    OBVIOUS
  <2>2. (Core(s) \in AllWanted /\ IsPlaced(s)) \/ IsMeta(s)
    BY <2>1 DEF AllPlaced, SectionsAre
  <2>3. ~IsMeta(s)
    BY <1>4, <2>1, MetaNamesApart DEF IsMeta
  <2>4. Core(s) \in AllWanted /\ s.source = Source(s)
    BY <2>2, <2>3 DEF IsPlaced
  <2>5. s.name = n /\ s.source = n
    BY <1>4, <2>1, <2>4, SourceOfName
  <2>6. Core(s).name = n
    BY <2>5 DEF Core
  <2>7. ASSUME NEW j \in 1 .. Len(builders), Core(s) = Core(builders[j]) PROVE FALSE
    <3>1. Core(builders[j]).name = builders[j].name
      BY DEF Core
    <3>2. builders[j].name \notin Synthetic
      BY GroupedPlain
    <3> QED BY <2>6, <2>7, <3>1, <3>2
  <2>8. \E c \in Classes : Core(s) \in MadeOf(c)
    BY <2>4, <2>7, WantedFrom
  <2> QED BY <2>1, <2>5, <2>8
<1>5. ASSUME IsMade(n) PROVE \E k \in 1 .. Len(sections) : sections[k].name = n /\ sections[k].source = n
  <2>0. PICK c \in Classes : \E v \in MadeOf(c) : v.name = n
    BY <1>5 DEF IsMade
  <2>1. PICK w \in MadeOf(c) : w.name = n
    BY <2>0
  <2>2. w \in AllWanted
    BY DEF AllWanted, WantCores
  <2>3. PICK k \in 1 .. Len(sections) : Core(sections[k]) = w /\ IsPlaced(sections[k])
    BY <2>2 DEF AllPlaced, SectionsAre
  <2>4. sections[k].name = n
    BY <2>1, <2>3 DEF Core
  <2>5. sections[k].source = n
    BY <2>3, <2>4, SourceOfName DEF IsPlaced
  <2> QED BY <2>4, <2>5
<1>6. ASSUME NEW k \in 1 .. Len(sections), sections[k].source = n \/ sections[k].name = n
      PROVE  IsMade(n)
  <2>1. PICK c \in Classes : Core(sections[k]) \in MadeOf(c) /\ sections[k].name = n
    BY <1>4, <1>6
  <2>2. Core(sections[k]).name = n
    BY <2>1 DEF Core
  <2> QED BY <2>1, <2>2 DEF IsMade
<1>7. FindSource(n) # {} <=> IsMade(n)
  BY <1>2, <1>5, <1>6
<1>8. Named(n) # {} <=> IsMade(n)
  BY <1>3, <1>5, <1>6
<1> QED BY <1>2, <1>4, <1>7, <1>8

(* The sections of initialisers are where they were counted.               *)
GroupedNamed(c, n) == \E k \in InClass(c) : builders[k].name = n
LEMMA FoundGrouped ==
  ASSUME IsProgram(prog), GroupInv, AllPlaced, NEW c \in Classes,
         NEW n, n \notin Synthetic, n # ".bss", n \notin MetaNames,
         \A k \in 1 .. Len(builders) : builders[k].name = n => ClassOf(builders[k]) = c
  PROVE  Named(n) # {} <=> GroupedNamed(c, n)
<1>1. Len(sections) \in Nat /\ DOMAIN sections = 1 .. Len(sections)
  BY DEF AllPlaced, SectionsAre, IsSeq
<1>2. Named(n) = {k \in 1 .. Len(sections) : sections[k].name = n}
  BY <1>1 DEF Named, Where
<1>3. ASSUME NEW k \in 1 .. Len(sections), sections[k].name = n PROVE GroupedNamed(c, n)
  <2>1. PICK s : s = sections[k]
    OBVIOUS
  <2>2. (Core(s) \in AllWanted /\ IsPlaced(s)) \/ IsMeta(s)
    BY <2>1 DEF AllPlaced, SectionsAre
  <2>3. Core(s) \in AllWanted /\ Core(s).name = n
    BY <1>3, <2>1, <2>2 DEF IsMeta, Core
  <2>4. \A d \in Classes : Core(s) \notin MadeOf(d)
    BY <2>3, MadeRanked
  <2>5. PICK j \in 1 .. Len(builders) : Core(s) = Core(builders[j]) /\ j \in InClass(ClassOf(builders[j]))
    BY <2>3, <2>4, WantedFrom
  <2>6. builders[j].name = n
    BY <2>3, <2>5 DEF Core
  <2> QED BY <2>5, <2>6 DEF GroupedNamed
<1>4. ASSUME GroupedNamed(c, n) PROVE \E k \in 1 .. Len(sections) : sections[k].name = n
  <2>1. PICK j \in InClass(c) : builders[j].name = n
    BY <1>4 DEF GroupedNamed
  <2>2. Core(builders[j]) \in AllWanted
    BY DEF AllWanted, WantCores, CoresAt
  <2>3. PICK k \in 1 .. Len(sections) : Core(sections[k]) = Core(builders[j])
    BY <2>2 DEF AllPlaced, SectionsAre
  <2> QED BY <2>1, <2>3 DEF Core
<1> QED BY <1>2, <1>3, <1>4

LEMMA CountTwo ==
  ASSUME GroupInv, NEW c, NEW m, NEW n, m # n
  PROVE  Count(c, {m, n}) = Flag(GroupedNamed(c, m)) + Flag(GroupedNamed(c, n))
<1> DEFINE K(x) == {k \in InClass(c) : builders[k].name = x}
<1>1. InClass(c) \in SUBSET (1 .. Len(builders)) /\ IsFiniteSet(InClass(c))
  BY CountNat DEF GroupInv
<1>2. \A x : IsFiniteSet(K(x)) /\ Cardinality(K(x)) = Flag(GroupedNamed(c, x))
  <2> TAKE x
  <2>1. CASE GroupedNamed(c, x)
    <3>1. PICK k \in InClass(c) : builders[k].name = x
      BY <2>1 DEF GroupedNamed
    <3>2. K(x) = {k}
      BY <1>1, <3>1 DEF GroupInv
    <3>3. IsFiniteSet({k}) /\ Cardinality({k}) = 1
      BY FS_Singleton
    <3> HIDE DEF K
    <3> QED BY <2>1, <3>2, <3>3 DEF Flag
  <2>2. CASE ~GroupedNamed(c, x)
    <3>1. K(x) = {}
      BY <2>2 DEF GroupedNamed
    <3>2. IsFiniteSet({}) /\ Cardinality({}) = 0
      BY FS_EmptySet
    <3> HIDE DEF K
    <3> QED BY <2>2, <3>1, <3>2 DEF Flag
  <2> QED BY <2>1, <2>2
<1>3. {k \in InClass(c) : builders[k].name \in {m, n}} = K(m) \cup K(n) /\ K(m) \cap K(n) = {}
  OBVIOUS
<1> HIDE DEF K
<1>4. Cardinality(K(m) \cup K(n)) = Cardinality(K(m)) + Cardinality(K(n))
  <2>1. PICK A, B : A = K(m) /\ B = K(n)
    OBVIOUS
  <2>2. IsFiniteSet(A) /\ IsFiniteSet(B) /\ A \cap B = {} /\ Cardinality({}) = 0
    BY <1>2, <1>3, <2>1, FS_EmptySet
  <2>3. Cardinality(A \cup B) = Cardinality(A) + Cardinality(B) - 0
    BY <2>2, FS_Union
  <2>4. Cardinality(A) \in Nat /\ Cardinality(B) \in Nat
    BY <2>2, FS_CardinalityType
  <2> QED BY <2>1, <2>3, <2>4
<1> QED BY <1>2, <1>3, <1>4 DEF Count

-----------------------------------------------------------------------------
(* How long .dynamic is.                                                   *)

Piece(s, n) == IsSeq(s) /\ n \in Nat /\ Len(s) = n
LEMMA PieceConcat ==
  ASSUME NEW a, NEW b, NEW m, NEW n, Piece(a, m), Piece(b, n)
  PROVE  Piece(a \o b, m + n)
<1>1. IsSeq(a \o b) /\ Len(a \o b) = m + n
  BY ConcatIsSeq DEF Piece
<1> QED BY <1>1 DEF Piece

LEMMA OnePiece ==
  ASSUME NEW b
  PROVE  Piece(<<b>>, 1)
<1>1. <<b>> \in Seq({b}) /\ Len(<<b>>) = 1 /\ DOMAIN <<b>> = {1} /\ <<b>>[1] = b
  OBVIOUS
<1>2. ToSet(<<b>>) = {b}
  BY <1>1 DEF ToSet
<1> QED BY <1>1, <1>2 DEF Piece, IsSeq

LEMMA OnlyPiece ==
  ASSUME NEW c, NEW s, NEW n, Piece(s, n)
  PROVE  Piece(Only(c, s), IF c THEN n ELSE 0)
<1>1. Piece(<< >>, 0)
  BY EmptyBuilders DEF Piece, IsBuilders
<1> QED BY <1>1 DEF Only

LEMMA TagPiece ==
  ASSUME NEW t, NEW v
  PROVE  Piece(Tag(t, v), 1)
  BY OnePiece DEF Tag

LEMMA PointPiece ==
  ASSUME NEW t, NEW sz, NEW n
  PROVE  /\ Piece(Point(t, n), Flag(Named(n) # {}))
         /\ Piece(Array(t, sz, n), 2 * Flag(Named(n) # {}))
<1>1. PICK v : v = IF Named(n) = {} THEN 0 ELSE sections[Min(Named(n))].addr
  OBVIOUS
<1>2. Point(t, n) = Only(Named(n) # {}, Tag(t, v))
  BY <1>1, Zenon DEF Point
<1>3. PICK f : f = Flag(Named(n) # {})
  OBVIOUS
<1>4. f = IF Named(n) # {} THEN 1 ELSE 0
  BY <1>3 DEF Flag
<1>5. Piece(Point(t, n), f)
  <2>1. Piece(Tag(t, v), 1)
    BY TagPiece
  <2>2. Piece(Only(Named(n) # {}, Tag(t, v)), IF Named(n) # {} THEN 1 ELSE 0)
    BY <2>1, OnlyPiece
  <2> QED BY <1>2, <1>4, <2>2
<1>6. Piece(Only(Named(n) # {}, Tag(sz, 0)), f)
  <2>1. Piece(Tag(sz, 0), 1)
    BY TagPiece
  <2>2. Piece(Only(Named(n) # {}, Tag(sz, 0)), IF Named(n) # {} THEN 1 ELSE 0)
    BY <2>1, OnlyPiece
  <2> QED BY <1>4, <2>2
<1>7. Piece(Array(t, sz, n), f + f)
  BY <1>5, <1>6, PieceConcat DEF Array
<1>8. f + f = 2 * f
  BY <1>4
<1> QED BY <1>3, <1>5, <1>7, <1>8

(* The tags that are built are as many as were counted.                    *)
LEMMA TagsCounted ==
  ASSUME IsProgram(prog), prog.dynamic, GroupInv, AllPlaced
  PROVE  Len(DynamicTags) = DynEntries
<1>1. PICK d, q : d = prog.dyn /\ q = Len(prog.dyn.needed)
  OBVIOUS
<1>2. PICK p1 : p1 = [k \in DOMAIN d.needed |-> [tag |-> "NEEDED", val |-> k]]
  OBVIOUS
<1>3. Piece(p1, q)
  <2>1. q \in Nat /\ DOMAIN d.needed = 1..q
    BY <1>1 DEF IsProgram, DynWellFormed, IsSeq
  <2>2. p1 = [k \in 1..q |-> p1[k]]
    BY <1>2, <2>1
  <2>3. IsSeq(p1) /\ Len(p1) = q
    BY <2>1, <2>2, FunctionIsSeq
  <2> QED BY <2>1, <2>3 DEF Piece
<1>4. PICK p2 : p2 = Only(d.soname, Tag("SONAME", 0))
  OBVIOUS
<1>5. Piece(p2, Flag(d.soname))
  <2>1. PICK s : s = Tag("SONAME", 0)
    OBVIOUS
  <2>2. Piece(s, 1)
    BY <2>1, TagPiece
  <2>3. p2 = Only(d.soname, s)
    BY <1>4, <2>1, Zenon
  <2>4. Piece(Only(d.soname, s), IF d.soname THEN 1 ELSE 0)
    BY <2>2, OnlyPiece
  <2> QED BY <2>3, <2>4 DEF Flag
<1>6. PICK p3 : p3 = Only(d.rpath, Tag("RPATH", 0))
  OBVIOUS
<1>7. Piece(p3, Flag(d.rpath))
  <2>1. PICK s : s = Tag("RPATH", 0)
    OBVIOUS
  <2>2. Piece(s, 1)
    BY <2>1, TagPiece
  <2>3. p3 = Only(d.rpath, s)
    BY <1>6, <2>1, Zenon
  <2>4. Piece(Only(d.rpath, s), IF d.rpath THEN 1 ELSE 0)
    BY <2>2, OnlyPiece
  <2> QED BY <2>3, <2>4 DEF Flag
<1>8. PICK p4 : p4 = Only(HasHash(d), Tag("HASH", VaOf(".hash")))
  OBVIOUS
<1>9. Piece(p4, Flag(HasHash(d)))
  <2>1. PICK s : s = Tag("HASH", VaOf(".hash"))
    OBVIOUS
  <2>2. Piece(s, 1)
    BY <2>1, TagPiece
  <2>3. p4 = Only(HasHash(d), s)
    BY <1>8, <2>1, Zenon
  <2>4. Piece(Only(HasHash(d), s), IF HasHash(d) THEN 1 ELSE 0)
    BY <2>2, OnlyPiece
  <2> QED BY <2>3, <2>4 DEF Flag
<1>10. PICK p5 : p5 = Only(HasGnuHash(d), Tag("GNU_HASH", VaOf(".gnu.hash")))
  OBVIOUS
<1>11. Piece(p5, Flag(HasGnuHash(d)))
  <2>1. PICK s : s = Tag("GNU_HASH", VaOf(".gnu.hash"))
    OBVIOUS
  <2>2. Piece(s, 1)
    BY <2>1, TagPiece
  <2>3. p5 = Only(HasGnuHash(d), s)
    BY <1>10, <2>1, Zenon
  <2>4. Piece(Only(HasGnuHash(d), s), IF HasGnuHash(d) THEN 1 ELSE 0)
    BY <2>2, OnlyPiece
  <2> QED BY <2>3, <2>4 DEF Flag
<1>12. PICK p6 : p6 = Tag("STRTAB", VaOf(".dynstr"))
  OBVIOUS
<1>13. Piece(p6, 1)
  BY <1>12, TagPiece
<1>14. PICK p7 : p7 = Tag("SYMTAB", VaOf(".dynsym"))
  OBVIOUS
<1>15. Piece(p7, 1)
  BY <1>14, TagPiece
<1>16. PICK p8 : p8 = Tag("STRSZ", DynBlobs.dynstr)
  OBVIOUS
<1>17. Piece(p8, 1)
  BY <1>16, TagPiece
<1>18. PICK p9 : p9 = Tag("SYMENT", SYM_SIZE)
  OBVIOUS
<1>19. Piece(p9, 1)
  BY <1>18, TagPiece
<1>20. PICK p10 : p10 = Only(d.rela > 0, Tag("RELA", VaOf(".rela.dyn")) \o Tag("RELASZ", RELA_SIZE * d.rela)
                 \o Tag("RELAENT", RELA_SIZE))
  OBVIOUS
<1>21. Piece(p10, 3 * Flag(d.rela > 0))
  <2>1. PICK s : s = Tag("RELA", VaOf(".rela.dyn")) \o Tag("RELASZ", RELA_SIZE * d.rela) \o Tag("RELAENT", RELA_SIZE)
    OBVIOUS
  <2>2. Piece(s, 3)
    <3>1. PICK t1, t2, t3 : t1 = Tag("RELA", VaOf(".rela.dyn")) /\ t2 = Tag("RELASZ", RELA_SIZE * d.rela) /\ t3 = Tag("RELAENT", RELA_SIZE)
      OBVIOUS
    <3>2. Piece(t1, 1) /\ Piece(t2, 1) /\ Piece(t3, 1)
      BY <3>1, TagPiece
    <3>3. Piece(t1 \o t2, 1 + 1)
      BY <3>2, <3>2, PieceConcat
    <3>4. Piece(t1 \o t2 \o t3, 2 + 1)
      BY <3>3, <3>2, PieceConcat
    <3>5. s = t1 \o t2 \o t3
      BY <2>1, <3>1, Zenon
    <3> QED BY <3>4, <3>5
  <2>3. p10 = Only(d.rela > 0, s)
    BY <1>20, <2>1, Zenon
  <2>4. Piece(Only(d.rela > 0, s), IF d.rela > 0 THEN 3 ELSE 0)
    BY <2>2, OnlyPiece
  <2> QED BY <2>3, <2>4 DEF Flag
<1>22. PICK p11 : p11 = Only(d.relcount, Tag("RELACOUNT", 0))
  OBVIOUS
<1>23. Piece(p11, Flag(d.relcount))
  <2>1. PICK s : s = Tag("RELACOUNT", 0)
    OBVIOUS
  <2>2. Piece(s, 1)
    BY <2>1, TagPiece
  <2>3. p11 = Only(d.relcount, s)
    BY <1>22, <2>1, Zenon
  <2>4. Piece(Only(d.relcount, s), IF d.relcount THEN 1 ELSE 0)
    BY <2>2, OnlyPiece
  <2> QED BY <2>3, <2>4 DEF Flag
<1>24. PICK p12 : p12 = Only(prog.plt > 0, Tag("PLTGOT", VaOf(".got.plt")) \o Tag("PLTRELSZ", RELA_SIZE * prog.plt)
                 \o Tag("PLTREL", 0) \o Tag("JMPREL", VaOf(".rela.plt")))
  OBVIOUS
<1>25. Piece(p12, 4 * Flag(prog.plt > 0))
  <2>1. PICK s : s = Tag("PLTGOT", VaOf(".got.plt")) \o Tag("PLTRELSZ", RELA_SIZE * prog.plt) \o Tag("PLTREL", 0) \o Tag("JMPREL", VaOf(".rela.plt"))
    OBVIOUS
  <2>2. Piece(s, 4)
    <3>1. PICK t1, t2, t3, t4 : t1 = Tag("PLTGOT", VaOf(".got.plt")) /\ t2 = Tag("PLTRELSZ", RELA_SIZE * prog.plt) /\ t3 = Tag("PLTREL", 0) /\ t4 = Tag("JMPREL", VaOf(".rela.plt"))
      OBVIOUS
    <3>2. Piece(t1, 1) /\ Piece(t2, 1) /\ Piece(t3, 1) /\ Piece(t4, 1)
      BY <3>1, TagPiece
    <3>3. Piece(t1 \o t2, 1 + 1)
      BY <3>2, <3>2, PieceConcat
    <3>4. Piece(t1 \o t2 \o t3, 2 + 1)
      BY <3>3, <3>2, PieceConcat
    <3>5. Piece(t1 \o t2 \o t3 \o t4, 3 + 1)
      BY <3>4, <3>2, PieceConcat
    <3>6. s = t1 \o t2 \o t3 \o t4
      BY <2>1, <3>1, Zenon
    <3> QED BY <3>5, <3>6
  <2>3. p12 = Only(prog.plt > 0, s)
    BY <1>24, <2>1, Zenon
  <2>4. Piece(Only(prog.plt > 0, s), IF prog.plt > 0 THEN 4 ELSE 0)
    BY <2>2, OnlyPiece
  <2> QED BY <2>3, <2>4 DEF Flag
<1>26. PICK p13 : p13 = Only(Verneed(d) # {}, Tag("VERSYM", VaOf(".gnu.version")) \o Tag("VERNEED", VaOf(".gnu.version_r"))
                 \o Tag("VERNEEDNUM", VerneedNum(d)))
  OBVIOUS
<1>27. Piece(p13, 3 * Flag(Verneed(d) # {}))
  <2>1. PICK s : s = Tag("VERSYM", VaOf(".gnu.version")) \o Tag("VERNEED", VaOf(".gnu.version_r")) \o Tag("VERNEEDNUM", VerneedNum(d))
    OBVIOUS
  <2>2. Piece(s, 3)
    <3>1. PICK t1, t2, t3 : t1 = Tag("VERSYM", VaOf(".gnu.version")) /\ t2 = Tag("VERNEED", VaOf(".gnu.version_r")) /\ t3 = Tag("VERNEEDNUM", VerneedNum(d))
      OBVIOUS
    <3>2. Piece(t1, 1) /\ Piece(t2, 1) /\ Piece(t3, 1)
      BY <3>1, TagPiece
    <3>3. Piece(t1 \o t2, 1 + 1)
      BY <3>2, <3>2, PieceConcat
    <3>4. Piece(t1 \o t2 \o t3, 2 + 1)
      BY <3>3, <3>2, PieceConcat
    <3>5. s = t1 \o t2 \o t3
      BY <2>1, <3>1, Zenon
    <3> QED BY <3>4, <3>5
  <2>3. p13 = Only(Verneed(d) # {}, s)
    BY <1>26, <2>1, Zenon
  <2>4. Piece(Only(Verneed(d) # {}, s), IF Verneed(d) # {} THEN 3 ELSE 0)
    BY <2>2, OnlyPiece
  <2> QED BY <2>3, <2>4 DEF Flag
<1>28. PICK p14 : p14 = Only(prog.pie \/ prog.shared \/ prog.plt > 0, Tag("FLAGS", 0))
  OBVIOUS
<1>29. Piece(p14, Flag(prog.pie \/ prog.shared \/ prog.plt > 0))
  <2>1. PICK s : s = Tag("FLAGS", 0)
    OBVIOUS
  <2>2. Piece(s, 1)
    BY <2>1, TagPiece
  <2>3. p14 = Only(prog.pie \/ prog.shared \/ prog.plt > 0, s)
    BY <1>28, <2>1, Zenon
  <2>4. Piece(Only(prog.pie \/ prog.shared \/ prog.plt > 0, s), IF prog.pie \/ prog.shared \/ prog.plt > 0 THEN 1 ELSE 0)
    BY <2>2, OnlyPiece
  <2> QED BY <2>3, <2>4 DEF Flag
<1>30. PICK p15 : p15 = Only(prog.pie \/ prog.shared, Tag("FLAGS_1", 0))
  OBVIOUS
<1>31. Piece(p15, Flag(prog.pie \/ prog.shared))
  <2>1. PICK s : s = Tag("FLAGS_1", 0)
    OBVIOUS
  <2>2. Piece(s, 1)
    BY <2>1, TagPiece
  <2>3. p15 = Only(prog.pie \/ prog.shared, s)
    BY <1>30, <2>1, Zenon
  <2>4. Piece(Only(prog.pie \/ prog.shared, s), IF prog.pie \/ prog.shared THEN 1 ELSE 0)
    BY <2>2, OnlyPiece
  <2> QED BY <2>3, <2>4 DEF Flag
<1>32. PICK p16 : p16 = Point("INIT", ".init")
  OBVIOUS
<1>33. Piece(p16, Flag(Named(".init") # {}))
  BY <1>32, PointPiece
<1>34. PICK p17 : p17 = Point("FINI", ".fini")
  OBVIOUS
<1>35. Piece(p17, Flag(Named(".fini") # {}))
  BY <1>34, PointPiece
<1>36. PICK p18 : p18 = Array("INIT_ARRAY", "INIT_ARRAYSZ", ".init_array")
  OBVIOUS
<1>37. Piece(p18, 2 * Flag(Named(".init_array") # {}))
  BY <1>36, PointPiece
<1>38. PICK p19 : p19 = Array("FINI_ARRAY", "FINI_ARRAYSZ", ".fini_array")
  OBVIOUS
<1>39. Piece(p19, 2 * Flag(Named(".fini_array") # {}))
  BY <1>38, PointPiece
<1>40. PICK p20 : p20 = Tag("NULL", 0)
  OBVIOUS
<1>41. Piece(p20, 1)
  BY <1>40, TagPiece
<1>42. DynamicTags = p1 \o p2 \o p3 \o p4 \o p5 \o p6 \o p7 \o p8 \o p9 \o p10 \o p11 \o p12 \o p13 \o p14 \o p15 \o p16 \o p17 \o p18 \o p19 \o p20
  BY <1>1, <1>2, <1>4, <1>6, <1>8, <1>10, <1>12, <1>14, <1>16, <1>18, <1>20, <1>22, <1>24, <1>26, <1>28, <1>30, <1>32, <1>34, <1>36, <1>38, <1>40, Zenon DEF DynamicTags
<1>43. PICK s2, m2 : s2 = p1 \o p2 /\ m2 = q + Flag(d.soname)
  OBVIOUS
<1>44. Piece(s2, m2)
  BY <1>3, <1>5, <1>43, PieceConcat
<1>45. PICK s3, m3 : s3 = s2 \o p3 /\ m3 = m2 + Flag(d.rpath)
  OBVIOUS
<1>46. Piece(s3, m3)
  BY <1>44, <1>7, <1>45, PieceConcat
<1>47. PICK s4, m4 : s4 = s3 \o p4 /\ m4 = m3 + Flag(HasHash(d))
  OBVIOUS
<1>48. Piece(s4, m4)
  BY <1>46, <1>9, <1>47, PieceConcat
<1>49. PICK s5, m5 : s5 = s4 \o p5 /\ m5 = m4 + Flag(HasGnuHash(d))
  OBVIOUS
<1>50. Piece(s5, m5)
  BY <1>48, <1>11, <1>49, PieceConcat
<1>51. PICK s6, m6 : s6 = s5 \o p6 /\ m6 = m5 + 1
  OBVIOUS
<1>52. Piece(s6, m6)
  BY <1>50, <1>13, <1>51, PieceConcat
<1>53. PICK s7, m7 : s7 = s6 \o p7 /\ m7 = m6 + 1
  OBVIOUS
<1>54. Piece(s7, m7)
  BY <1>52, <1>15, <1>53, PieceConcat
<1>55. PICK s8, m8 : s8 = s7 \o p8 /\ m8 = m7 + 1
  OBVIOUS
<1>56. Piece(s8, m8)
  BY <1>54, <1>17, <1>55, PieceConcat
<1>57. PICK s9, m9 : s9 = s8 \o p9 /\ m9 = m8 + 1
  OBVIOUS
<1>58. Piece(s9, m9)
  BY <1>56, <1>19, <1>57, PieceConcat
<1>59. PICK s10, m10 : s10 = s9 \o p10 /\ m10 = m9 + 3 * Flag(d.rela > 0)
  OBVIOUS
<1>60. Piece(s10, m10)
  BY <1>58, <1>21, <1>59, PieceConcat
<1>61. PICK s11, m11 : s11 = s10 \o p11 /\ m11 = m10 + Flag(d.relcount)
  OBVIOUS
<1>62. Piece(s11, m11)
  BY <1>60, <1>23, <1>61, PieceConcat
<1>63. PICK s12, m12 : s12 = s11 \o p12 /\ m12 = m11 + 4 * Flag(prog.plt > 0)
  OBVIOUS
<1>64. Piece(s12, m12)
  BY <1>62, <1>25, <1>63, PieceConcat
<1>65. PICK s13, m13 : s13 = s12 \o p13 /\ m13 = m12 + 3 * Flag(Verneed(d) # {})
  OBVIOUS
<1>66. Piece(s13, m13)
  BY <1>64, <1>27, <1>65, PieceConcat
<1>67. PICK s14, m14 : s14 = s13 \o p14 /\ m14 = m13 + Flag(prog.pie \/ prog.shared \/ prog.plt > 0)
  OBVIOUS
<1>68. Piece(s14, m14)
  BY <1>66, <1>29, <1>67, PieceConcat
<1>69. PICK s15, m15 : s15 = s14 \o p15 /\ m15 = m14 + Flag(prog.pie \/ prog.shared)
  OBVIOUS
<1>70. Piece(s15, m15)
  BY <1>68, <1>31, <1>69, PieceConcat
<1>71. PICK s16, m16 : s16 = s15 \o p16 /\ m16 = m15 + Flag(Named(".init") # {})
  OBVIOUS
<1>72. Piece(s16, m16)
  BY <1>70, <1>33, <1>71, PieceConcat
<1>73. PICK s17, m17 : s17 = s16 \o p17 /\ m17 = m16 + Flag(Named(".fini") # {})
  OBVIOUS
<1>74. Piece(s17, m17)
  BY <1>72, <1>35, <1>73, PieceConcat
<1>75. PICK s18, m18 : s18 = s17 \o p18 /\ m18 = m17 + 2 * Flag(Named(".init_array") # {})
  OBVIOUS
<1>76. Piece(s18, m18)
  BY <1>74, <1>37, <1>75, PieceConcat
<1>77. PICK s19, m19 : s19 = s18 \o p19 /\ m19 = m18 + 2 * Flag(Named(".fini_array") # {})
  OBVIOUS
<1>78. Piece(s19, m19)
  BY <1>76, <1>39, <1>77, PieceConcat
<1>79. PICK s20, m20 : s20 = s19 \o p20 /\ m20 = m19 + 1
  OBVIOUS
<1>80. Piece(s20, m20)
  BY <1>78, <1>41, <1>79, PieceConcat
<1>81. DynamicTags = s20
  BY <1>42, <1>43, <1>45, <1>47, <1>49, <1>51, <1>53, <1>55, <1>57, <1>59, <1>61, <1>63, <1>65, <1>67, <1>69, <1>71, <1>73, <1>75, <1>77, <1>79, Zenon
<1>82. Len(DynamicTags) = m20
  BY <1>80, <1>81 DEF Piece
<1>83. PICK x1, x2, x3, x4, x5, x6, x7, x8, x9, x10, y1, y2, y3, y4 :
        /\ x1 = Flag(d.soname) /\ x2 = Flag(d.rpath) /\ x3 = Flag(HasHash(d)) /\ x4 = Flag(HasGnuHash(d))
        /\ x5 = Flag(d.rela > 0) /\ x6 = Flag(d.relcount) /\ x7 = Flag(prog.plt > 0) /\ x8 = Flag(Verneed(d) # {})
        /\ x9 = Flag(prog.pie \/ prog.shared \/ prog.plt > 0) /\ x10 = Flag(prog.pie \/ prog.shared)
        /\ y1 = Flag(Named(".init") # {}) /\ y2 = Flag(Named(".fini") # {})
        /\ y3 = Flag(Named(".init_array") # {}) /\ y4 = Flag(Named(".fini_array") # {})
  OBVIOUS
<1>84. \A c : Flag(c) \in Nat
  BY DEF Flag
<1>85. /\ q \in Nat /\ x1 \in Nat /\ x2 \in Nat /\ x3 \in Nat /\ x4 \in Nat /\ x5 \in Nat /\ x6 \in Nat /\ x7 \in Nat
      /\ x8 \in Nat /\ x9 \in Nat /\ x10 \in Nat /\ y1 \in Nat /\ y2 \in Nat /\ y3 \in Nat /\ y4 \in Nat
  BY <1>3, <1>83, <1>84 DEF Piece
<1>86. m9 = q + x1 + x2 + x3 + x4 + 4 /\ m9 \in Nat
  <2>1. m2 = q + x1 /\ m3 = m2 + x2 /\ m4 = m3 + x3 /\ m5 = m4 + x4
    BY <1>43, <1>45, <1>47, <1>49, <1>83
  <2>2. m6 = m5 + 1 /\ m7 = m6 + 1 /\ m8 = m7 + 1 /\ m9 = m8 + 1
    BY <1>51, <1>53, <1>55, <1>57
  <2> QED BY <1>85, <2>1, <2>2
<1>87. m13 = m9 + 3 * x5 + x6 + 4 * x7 + 3 * x8 /\ m13 \in Nat
  <2>1. m10 = m9 + 3 * x5 /\ m11 = m10 + x6 /\ m12 = m11 + 4 * x7 /\ m13 = m12 + 3 * x8
    BY <1>59, <1>61, <1>63, <1>65, <1>83
  <2> QED BY <1>85, <1>86, <2>1
<1>88. m20 = m13 + (y1 + y2) + (x9 + x10) + 2 * (y3 + y4) + 1
  <2>1. m14 = m13 + x9 /\ m15 = m14 + x10 /\ m16 = m15 + y1 /\ m17 = m16 + y2
    BY <1>67, <1>69, <1>71, <1>73, <1>83
  <2>2. m18 = m17 + 2 * y3 /\ m19 = m18 + 2 * y4 /\ m20 = m19 + 1
    BY <1>75, <1>77, <1>79, <1>83
  <2> QED BY <1>85, <1>87, <2>1, <2>2
<1>89. x9 + x10 = NFlags
  <2>1. prog.plt \in Nat /\ prog.pie \in BOOLEAN /\ prog.shared \in BOOLEAN
    BY DEF IsProgram
  <2> QED BY <1>83, <2>1 DEF Flag, NFlags
<1>90. y1 + y2 = Count("rx", {".init", ".fini"})
  <2>1. "rx" \in Classes /\ \A m \in {".init", ".fini"} : m \notin Synthetic /\ m # ".bss" /\ m \notin MetaNames
    BY MetaNamesApart DEF Classes, Synthetic
  <2>2. \A m \in {".init", ".fini"} : \A k \in 1 .. Len(builders) : builders[k].name = m => ClassOf(builders[k]) = "rx"
    BY GroupedPlain
  <2>3. \A m \in {".init", ".fini"} : Named(m) # {} <=> GroupedNamed("rx", m)
    BY <2>1, <2>2, FoundGrouped
  <2>4. y1 = Flag(GroupedNamed("rx", ".init")) /\ y2 = Flag(GroupedNamed("rx", ".fini"))
    BY <1>83, <2>3 DEF Flag
  <2>5. ".init" # ".fini"
    OBVIOUS
  <2> QED BY <2>4, <2>5, CountTwo
<1>91. y3 + y4 = Count("rw", {".init_array", ".fini_array"})
  <2>1. "rw" \in Classes /\ \A m \in {".init_array", ".fini_array"} : m \notin Synthetic /\ m # ".bss" /\ m \notin MetaNames
    BY MetaNamesApart DEF Classes, Synthetic
  <2>2. \A m \in {".init_array", ".fini_array"} :
          \A k \in 1 .. Len(builders) : builders[k].name = m => ClassOf(builders[k]) = "rw"
    BY GroupedPlain
  <2>3. \A m \in {".init_array", ".fini_array"} : Named(m) # {} <=> GroupedNamed("rw", m)
    BY <2>1, <2>2, FoundGrouped
  <2>4. y3 = Flag(GroupedNamed("rw", ".init_array")) /\ y4 = Flag(GroupedNamed("rw", ".fini_array"))
    BY <1>83, <2>3 DEF Flag
  <2>5. ".init_array" # ".fini_array"
    OBVIOUS
  <2> QED BY <2>4, <2>5, CountTwo
<1>92. DynEntries = q + 4 + x3 + x4 + x1 + x2 + 3 * x5 + x6 + 4 * x7 + 3 * x8 + (y1 + y2) + (x9 + x10) + 2 * (y3 + y4) + 1
  BY <1>1, <1>83, <1>89, <1>90, <1>91, Zenon DEF DynEntries
<1>93. q + 4 + x3 + x4 + x1 + x2 = m9
  BY <1>85, <1>86
<1>94. DynEntries = m9 + 3 * x5 + x6 + 4 * x7 + 3 * x8 + (y1 + y2) + (x9 + x10) + 2 * (y3 + y4) + 1
  BY <1>92, <1>93
<1>95. DynEntries = m20
  BY <1>87, <1>88, <1>94
<1> QED BY <1>82, <1>95

-----------------------------------------------------------------------------
(* How many program headers there are.                                     *)

TlsWanted == \E w \in WantCores("rw") \cup WantCores("bss") : IsTls(w)
HeadersWanted ==
  3 + Flag(prog.build_id) + (IF prog.dynamic THEN 2 - Flag(prog.shared) ELSE 0)
  + Flag(TlsWanted) + Flag(NFdes > 0) + Flag(IsMade(".note.gnu.property"))
  + Flag(prog.dynamic) + Flag(WantCores("rx") # {}) + Flag(WantCores("rw") \cup WantCores("bss") # {})

LEMMA HeaderPiece ==
  ASSUME NEW type, NEW off, NEW va, NEW filesz, NEW memsz, NEW flags
  PROVE  Piece(Header(type, off, va, filesz, memsz, flags), 1)
  BY OnePiece DEF Header

LEMMA LoadPiece ==
  ASSUME NEW c, NEW flags
  PROVE  Piece(Load(c, flags), Flag(c \in DOMAIN seg))
<1>1. PICK s : s = Header("LOAD", seg[c].start - prog.base, seg[c].start, seg[c].file_end - seg[c].start,
                          seg[c].mem_end - seg[c].start, flags)
  OBVIOUS
<1>2. Piece(s, 1)
  BY <1>1, HeaderPiece
<1>3. Load(c, flags) = Only(c \in DOMAIN seg, s)
  BY <1>1, Zenon DEF Load
<1>4. Piece(Only(c \in DOMAIN seg, s), IF c \in DOMAIN seg THEN 1 ELSE 0)
  BY <1>2, OnlyPiece
<1> QED BY <1>3, <1>4 DEF Flag

LEMMA OfSectionPiece ==
  ASSUME NEW type, NEW K, NEW flags
  PROVE  Piece(OfSection(type, K, flags), Flag(K # {}))
<1>1. PICK s : s = Header(type, sections[Min(K)].off, sections[Min(K)].addr, sections[Min(K)].size,
                          sections[Min(K)].size, flags)
  OBVIOUS
<1>2. Piece(s, 1)
  BY <1>1, HeaderPiece
<1>3. OfSection(type, K, flags) = Only(K # {}, s)
  BY <1>1, Zenon DEF OfSection, Only
<1>4. Piece(Only(K # {}, s), IF K # {} THEN 1 ELSE 0)
  BY <1>2, OnlyPiece
<1> QED BY <1>3, <1>4 DEF Flag

LEMMA RelroPiece == Piece(RelroRun, 1)
<1>1. \E a, b, c, e : RelroRun = Header("RELRO", a, b, c, e, {"R"})
  BY Zenon DEF RelroRun
<1> QED BY <1>1, HeaderPiece

(* As many program headers are built as were counted.                      *)
LEMMA HeadersCounted ==
  ASSUME IsProgram(prog), GroupInv, AllPlaced, "ro" \in DOMAIN seg,
         "rx" \in DOMAIN seg <=> WantCores("rx") # {},
         "rw" \in DOMAIN seg <=> WantCores("rw") \cup WantCores("bss") # {},
         lay.tls_size > 0 <=> TlsWanted
  PROVE  Len(Headers) = HeadersWanted
<1>1. PICK p1 : p1 = Header("PHDR", EHDR_SIZE, prog.base + EHDR_SIZE, lay.phnum * PHDR_SIZE, lay.phnum * PHDR_SIZE, {"R"})
  OBVIOUS
<1>2. PICK z1 : z1 = 1
  OBVIOUS
<1>3. Piece(p1, z1)
  BY <1>1, <1>2, HeaderPiece
<1>4. PICK p2 : p2 = Only(prog.dynamic, OfSection("INTERP", FindSource(".interp"), {"R"}))
  OBVIOUS
<1>5. PICK z2 : z2 = IF prog.dynamic THEN Flag(FindSource(".interp") # {}) ELSE 0
  OBVIOUS
<1>6. Piece(p2, z2)
  <2>1. PICK s, f : s = OfSection("INTERP", FindSource(".interp"), {"R"}) /\ f = Flag(FindSource(".interp") # {})
    OBVIOUS
  <2>2. Piece(s, f)
    BY <2>1, OfSectionPiece
  <2>3. p2 = Only(prog.dynamic, s)
    BY <1>4, <2>1, Zenon
  <2>4. Piece(Only(prog.dynamic, s), IF prog.dynamic THEN f ELSE 0)
    BY <2>2, OnlyPiece
  <2>5. z2 = IF prog.dynamic THEN f ELSE 0
    BY <1>5, <2>1, Zenon
  <2> QED BY <2>3, <2>4, <2>5
<1>7. PICK p3 : p3 = Only(prog.build_id, OfSection("NOTE", FindSource(".note.gnu.build-id"), {"R"}))
  OBVIOUS
<1>8. PICK z3 : z3 = IF prog.build_id THEN Flag(FindSource(".note.gnu.build-id") # {}) ELSE 0
  OBVIOUS
<1>9. Piece(p3, z3)
  <2>1. PICK s, f : s = OfSection("NOTE", FindSource(".note.gnu.build-id"), {"R"}) /\ f = Flag(FindSource(".note.gnu.build-id") # {})
    OBVIOUS
  <2>2. Piece(s, f)
    BY <2>1, OfSectionPiece
  <2>3. p3 = Only(prog.build_id, s)
    BY <1>7, <2>1, Zenon
  <2>4. Piece(Only(prog.build_id, s), IF prog.build_id THEN f ELSE 0)
    BY <2>2, OnlyPiece
  <2>5. z3 = IF prog.build_id THEN f ELSE 0
    BY <1>8, <2>1, Zenon
  <2> QED BY <2>3, <2>4, <2>5
<1>10. PICK p4 : p4 = Load("ro", {"R"})
  OBVIOUS
<1>11. PICK z4 : z4 = Flag("ro" \in DOMAIN seg)
  OBVIOUS
<1>12. Piece(p4, z4)
  BY <1>10, <1>11, LoadPiece
<1>13. PICK p5 : p5 = Load("rx", {"R", "X"})
  OBVIOUS
<1>14. PICK z5 : z5 = Flag("rx" \in DOMAIN seg)
  OBVIOUS
<1>15. Piece(p5, z5)
  BY <1>13, <1>14, LoadPiece
<1>16. PICK p6 : p6 = Load("rw", {"R", "W"})
  OBVIOUS
<1>17. PICK z6 : z6 = Flag("rw" \in DOMAIN seg)
  OBVIOUS
<1>18. Piece(p6, z6)
  BY <1>16, <1>17, LoadPiece
<1>19. PICK p7 : p7 = OfSection("GNU_PROPERTY", Named(".note.gnu.property"), {"R"})
  OBVIOUS
<1>20. PICK z7 : z7 = Flag(Named(".note.gnu.property") # {})
  OBVIOUS
<1>21. Piece(p7, z7)
  BY <1>19, <1>20, OfSectionPiece
<1>22. PICK p8 : p8 = Only(prog.dynamic, OfSection("DYNAMIC", FindSource(".dynamic"), {"R", "W"}))
  OBVIOUS
<1>23. PICK z8 : z8 = IF prog.dynamic THEN Flag(FindSource(".dynamic") # {}) ELSE 0
  OBVIOUS
<1>24. Piece(p8, z8)
  <2>1. PICK s, f : s = OfSection("DYNAMIC", FindSource(".dynamic"), {"R", "W"}) /\ f = Flag(FindSource(".dynamic") # {})
    OBVIOUS
  <2>2. Piece(s, f)
    BY <2>1, OfSectionPiece
  <2>3. p8 = Only(prog.dynamic, s)
    BY <1>22, <2>1, Zenon
  <2>4. Piece(Only(prog.dynamic, s), IF prog.dynamic THEN f ELSE 0)
    BY <2>2, OnlyPiece
  <2>5. z8 = IF prog.dynamic THEN f ELSE 0
    BY <1>23, <2>1, Zenon
  <2> QED BY <2>3, <2>4, <2>5
<1>25. PICK p9 : p9 = Only(lay.tls_size > 0, Header("TLS", lay.tls.block[1].off, lay.tls.block[1].addr, lay.tls.filesz, lay.tls_size, {"R"}))
  OBVIOUS
<1>26. PICK z9 : z9 = Flag(lay.tls_size > 0)
  OBVIOUS
<1>27. Piece(p9, z9)
  <2>1. PICK s : s = Header("TLS", lay.tls.block[1].off, lay.tls.block[1].addr, lay.tls.filesz, lay.tls_size, {"R"})
    OBVIOUS
  <2>2. Piece(s, 1)
    BY <2>1, HeaderPiece
  <2>3. p9 = Only(lay.tls_size > 0, s)
    BY <1>25, <2>1, Zenon
  <2>4. Piece(Only(lay.tls_size > 0, s), IF lay.tls_size > 0 THEN 1 ELSE 0)
    BY <2>2, OnlyPiece
  <2> QED BY <1>26, <2>3, <2>4 DEF Flag
<1>28. PICK p10 : p10 = OfSection("GNU_EH_FRAME", FindSource(".eh_frame_hdr"), {"R"})
  OBVIOUS
<1>29. PICK z10 : z10 = Flag(FindSource(".eh_frame_hdr") # {})
  OBVIOUS
<1>30. Piece(p10, z10)
  BY <1>28, <1>29, OfSectionPiece
<1>31. PICK p11 : p11 = Only(prog.dynamic, RelroRun)
  OBVIOUS
<1>32. PICK z11 : z11 = Flag(prog.dynamic)
  OBVIOUS
<1>33. Piece(p11, z11)
  <2>1. Piece(RelroRun, 1)
    BY RelroPiece
  <2>2. Piece(Only(prog.dynamic, RelroRun), IF prog.dynamic THEN 1 ELSE 0)
    BY <2>1, OnlyPiece
  <2> QED BY <1>31, <1>32, <2>2 DEF Flag
<1>34. PICK p12 : p12 = Header("GNU_STACK", 0, 0, 0, 0, {"R", "W"})
  OBVIOUS
<1>35. PICK z12 : z12 = 1
  OBVIOUS
<1>36. Piece(p12, z12)
  BY <1>34, <1>35, HeaderPiece
<1>37. PICK t2, m2 : t2 = p1 \o p2 /\ m2 = z1 + z2
  OBVIOUS
<1>38. Piece(t2, m2)
  BY <1>37, <1>3, <1>6, PieceConcat
<1>39. PICK t3, m3 : t3 = t2 \o p3 /\ m3 = m2 + z3
  OBVIOUS
<1>40. Piece(t3, m3)
  BY <1>39, <1>38, <1>9, PieceConcat
<1>41. PICK t4, m4 : t4 = t3 \o p4 /\ m4 = m3 + z4
  OBVIOUS
<1>42. Piece(t4, m4)
  BY <1>41, <1>40, <1>12, PieceConcat
<1>43. PICK t5, m5 : t5 = t4 \o p5 /\ m5 = m4 + z5
  OBVIOUS
<1>44. Piece(t5, m5)
  BY <1>43, <1>42, <1>15, PieceConcat
<1>45. PICK t6, m6 : t6 = t5 \o p6 /\ m6 = m5 + z6
  OBVIOUS
<1>46. Piece(t6, m6)
  BY <1>45, <1>44, <1>18, PieceConcat
<1>47. PICK t7, m7 : t7 = t6 \o p7 /\ m7 = m6 + z7
  OBVIOUS
<1>48. Piece(t7, m7)
  BY <1>47, <1>46, <1>21, PieceConcat
<1>49. PICK t8, m8 : t8 = t7 \o p8 /\ m8 = m7 + z8
  OBVIOUS
<1>50. Piece(t8, m8)
  BY <1>49, <1>48, <1>24, PieceConcat
<1>51. PICK t9, m9 : t9 = t8 \o p9 /\ m9 = m8 + z9
  OBVIOUS
<1>52. Piece(t9, m9)
  BY <1>51, <1>50, <1>27, PieceConcat
<1>53. PICK t10, m10 : t10 = t9 \o p10 /\ m10 = m9 + z10
  OBVIOUS
<1>54. Piece(t10, m10)
  BY <1>53, <1>52, <1>30, PieceConcat
<1>55. PICK t11, m11 : t11 = t10 \o p11 /\ m11 = m10 + z11
  OBVIOUS
<1>56. Piece(t11, m11)
  BY <1>55, <1>54, <1>33, PieceConcat
<1>57. PICK t12, m12 : t12 = t11 \o p12 /\ m12 = m11 + z12
  OBVIOUS
<1>58. Piece(t12, m12)
  BY <1>57, <1>56, <1>36, PieceConcat
<1>59. Headers = t12
  BY <1>1, <1>4, <1>7, <1>10, <1>13, <1>16, <1>19, <1>22, <1>25, <1>28, <1>31, <1>34, <1>37, <1>39, <1>41, <1>43, <1>45, <1>47, <1>49, <1>51, <1>53, <1>55, <1>57, Zenon DEF Headers
<1>60. Len(Headers) = m12
  BY <1>59, <1>58 DEF Piece
<1>61. /\ z1 \in Nat /\ z2 \in Nat /\ z3 \in Nat /\ z4 \in Nat /\ z5 \in Nat /\ z6 \in Nat
       /\ z7 \in Nat /\ z8 \in Nat /\ z9 \in Nat /\ z10 \in Nat /\ z11 \in Nat /\ z12 \in Nat
  BY <1>3, <1>6, <1>9, <1>12, <1>15, <1>18, <1>21, <1>24, <1>27, <1>30, <1>33, <1>36 DEF Piece
<1>62. m12 = z1 + z2 + z3 + z4 + z5 + z6 + z7 + z8 + z9 + z10 + z11 + z12
  <2>1. m7 = z1 + z2 + z3 + z4 + z5 + z6 + z7 /\ m7 \in Nat
    BY <1>61, <1>37, <1>39, <1>41, <1>43, <1>45, <1>47
  <2> QED BY <1>61, <2>1, <1>49, <1>51, <1>53, <1>55, <1>57
<1>63. /\ ".interp" \in Synthetic /\ ".note.gnu.build-id" \in Synthetic /\ ".note.gnu.property" \in Synthetic
       /\ ".dynamic" \in Synthetic /\ ".eh_frame_hdr" \in Synthetic
  BY DEF Synthetic
<1>64. /\ FindSource(".interp") # {} <=> prog.dynamic /\ ~prog.shared
       /\ FindSource(".note.gnu.build-id") # {} <=> prog.build_id
       /\ Named(".note.gnu.property") # {} <=> IsMade(".note.gnu.property")
       /\ FindSource(".dynamic") # {} <=> prog.dynamic
       /\ FindSource(".eh_frame_hdr") # {} <=> NFdes > 0
  <2>1. \A n \in Synthetic : (FindSource(n) # {} <=> IsMade(n)) /\ (Named(n) # {} <=> IsMade(n))
    BY FoundMade
  <2>2. IsBuilders(builders)
    BY DEF GroupInv
  <2> QED BY <1>63, <2>1, <2>2, MadeWhen, MadeDynamic
<1>65. /\ z1 = 1 /\ z2 = (IF prog.dynamic THEN 1 - Flag(prog.shared) ELSE 0) /\ z3 = Flag(prog.build_id) /\ z4 = 1
       /\ z5 = Flag(WantCores("rx") # {}) /\ z6 = Flag(WantCores("rw") \cup WantCores("bss") # {})
  <2>1. prog.dynamic \in BOOLEAN /\ prog.shared \in BOOLEAN /\ prog.build_id \in BOOLEAN
    BY DEF IsProgram
  <2> QED BY <1>64, <1>2, <1>5, <1>8, <1>11, <1>14, <1>17, <2>1 DEF Flag
<1>66. /\ z7 = Flag(IsMade(".note.gnu.property")) /\ z8 = Flag(prog.dynamic) /\ z9 = Flag(TlsWanted)
       /\ z10 = Flag(NFdes > 0) /\ z11 = Flag(prog.dynamic) /\ z12 = 1
  <2>1. prog.dynamic \in BOOLEAN
    BY DEF IsProgram
  <2> QED BY <1>64, <1>20, <1>23, <1>26, <1>29, <1>32, <1>35, <2>1 DEF Flag
<1>67. HeadersWanted = 3 + z3 + (IF prog.dynamic THEN 2 - Flag(prog.shared) ELSE 0) + z9 + z10 + z7 + z11 + z5 + z6
  BY <1>65, <1>66, Zenon DEF HeadersWanted
<1>68. (IF prog.dynamic THEN 2 - Flag(prog.shared) ELSE 0) = z2 + z8
  BY <1>65, <1>66 DEF Flag
<1>69. HeadersWanted = 3 + z3 + (z2 + z8) + z9 + z10 + z7 + z11 + z5 + z6
  BY <1>67, <1>68
<1>70. z1 = 1 /\ z4 = 1 /\ z12 = 1
  BY <1>65, <1>66
<1>71. HeadersWanted = m12
  BY <1>61, <1>62, <1>69, <1>70
<1> QED BY <1>60, <1>71

-----------------------------------------------------------------------------
(* The thread-local block.                                                 *)

LEMMA TlsSection ==
  ASSUME IsProgram(prog), GroupInv, AllPlaced, NEW k \in 1 .. Len(sections), IsTls(sections[k])
  PROVE  TlsWanted /\ IsBuilder(sections[k])
<1>1. Core(sections[k]) \in AllWanted /\ IsPlaced(sections[k])
  BY DEF AllPlaced, SectionsAre, IsMeta, IsTls
<1>2. PICK w : w = Core(sections[k])
  OBVIOUS
<1>3. IsTls(w)
  BY <1>2 DEF Core, IsTls
<1>4. PICK c \in Classes : w \in WantCores(c)
  BY <1>1, <1>2 DEF AllWanted
<1>5. w \notin MadeOf(c)
  BY <1>3, MadeRanked DEF IsTls
<1>6. PICK j \in InClass(c) : w = Core(builders[j])
  BY <1>4, <1>5 DEF WantCores, CoresAt
<1>7. j \in 1 .. Len(builders) /\ ClassOf(builders[j]) = c
  <2>1. DOMAIN builders = 1 .. Len(builders)
    BY BuildersSized DEF GroupInv
  <2> QED BY <2>1 DEF InClass
<1>8. IsTls(builders[j])
  BY <1>3, <1>6 DEF Core, IsTls
<1>9. c \in {"rw", "bss"}
  BY <1>7, <1>8, GroupedPlain
<1> QED BY <1>1, <1>3, <1>4, <1>9, Zenon DEF TlsWanted, IsPlaced

LEMMA TlsSized ==
  ASSUME IsProgram(prog), GroupInv, AllPlaced, NEW k \in 1 .. Len(sections), IsTls(sections[k]),
         sections[k].size # 0
  PROVE  AlignUp(End(TlsBlock, 0), MaxAlign(TlsBlock)) > 0
<1>1. PICK n, I, J : /\ n = Len(sections)
                     /\ I = {i \in DOMAIN sections : sections[i].kind = "Tdata"}
                     /\ J = {i \in DOMAIN sections : sections[i].kind = "Tbss"}
  OBVIOUS
<1>2. n \in Nat /\ DOMAIN sections = 1..n
  BY <1>1 DEF AllPlaced, SectionsAre, IsSeq
<1>3. I \in SUBSET (1..n) /\ J \in SUBSET (1..n)
  BY <1>1, <1>2
<1>4. PICK a, b, block : a = InOrder(sections, I) /\ b = InOrder(sections, J) /\ block = a \o b
  OBVIOUS
<1>5. TlsBlock = block
  <2>1. Where(LAMBDA s : s.kind = "Tdata") = I /\ Where(LAMBDA s : s.kind = "Tbss") = J
    BY <1>1 DEF Where
  <2> QED BY <1>4, <2>1, Zenon DEF TlsBlock
<1>6. Holds(a, sections, I) /\ Holds(b, sections, J)
  BY <1>2, <1>3, <1>4, InOrderHolds
<1>7. \A i \in I \cup J : sections[i].size \in Nat /\ sections[i].align \in Nat
  BY <1>1, <1>2, TlsSection DEF IsTls, IsBuilder
<1>8. Sized(a) /\ Sized(b)
  <2>1. \A p \in 1 .. Len(a) : a[p].size \in Nat /\ a[p].align \in Nat
    <3> TAKE p \in 1 .. Len(a)
    <3>1. PICK i \in I : a[p] = sections[i]
      BY <1>6, Zenon DEF Holds
    <3> QED BY <1>7, <3>1
  <2>2. \A p \in 1 .. Len(b) : b[p].size \in Nat /\ b[p].align \in Nat
    <3> TAKE p \in 1 .. Len(b)
    <3>1. PICK i \in J : b[p] = sections[i]
      BY <1>6, Zenon DEF Holds
    <3> QED BY <1>7, <3>1
  <2> QED BY <1>6, <2>1, <2>2, Zenon DEF Holds, Sized
<1>9. Sized(block)
  BY <1>4, <1>8, SizedConcat
<1>10. k \in I \cup J
  BY <1>1, <1>2 DEF IsTls
<1>11. \E j \in 1 .. Len(block) : block[j] = sections[k]
  <2>1. /\ Len(a) \in Nat /\ Len(b) \in Nat /\ Len(block) = Len(a) + Len(b)
        /\ \A i \in 1 .. Len(a) : block[i] = a[i]
        /\ \A i \in 1 .. Len(b) : block[Len(a) + i] = b[i]
    BY <1>4, <1>8, ConcatIsSeq DEF Sized
  <2>2. CASE k \in I
    <3>1. PICK p \in 1 .. Len(a) : a[p] = sections[k]
      BY <1>6, <2>2 DEF Holds
    <3>2. p \in 1 .. Len(block) /\ block[p] = sections[k]
      BY <2>1, <3>1
    <3> QED BY <3>2
  <2>3. CASE k \in J
    <3>1. PICK p \in 1 .. Len(b) : b[p] = sections[k]
      BY <1>6, <2>3 DEF Holds
    <3>2. Len(a) + p \in 1 .. Len(block) /\ block[Len(a) + p] = sections[k]
      BY <2>1, <3>1
    <3> QED BY <3>2
  <2> QED BY <1>10, <2>2, <2>3
<1>12. PICK j \in 1 .. Len(block) : block[j] = sections[k]
  BY <1>11
<1>13. sections[k].size \in Nat
  BY <1>7, <1>10
<1>14. End(block, 0) \in Nat /\ End(block, 0) > 0
  <2>1. Begin(block, 0, j) \in Nat /\ End(block, 0) \in Nat /\ Begin(block, 0, j) + block[j].size <= End(block, 0)
    BY <1>9, BeginFacts
  <2> QED BY <1>12, <1>13, <2>1
<1>15. MaxAlign(block) \in Nat
  BY <1>9, MaxAlignFacts
<1>16. AlignUp(End(block, 0), MaxAlign(block)) \in Nat /\ End(block, 0) <= AlignUp(End(block, 0), MaxAlign(block))
  BY <1>14, <1>15, AlignUpFacts
<1> QED BY <1>5, <1>14, <1>16

-----------------------------------------------------------------------------
(* What each pass finds.                                                   *)

NothingPlaced == sections = << >> /\ DOMAIN seg = {}
RoPlaced == SectionsAre(sections, WantCores("ro")) /\ DOMAIN seg = {"ro"}
RxPlaced ==
  /\ SectionsAre(sections, WantCores("ro") \cup WantCores("rx"))
  /\ "ro" \in DOMAIN seg /\ "rw" \notin DOMAIN seg
  /\ "rx" \in DOMAIN seg <=> WantCores("rx") # {}
RwPlaced ==
  /\ AllPlaced
  /\ "ro" \in DOMAIN seg
  /\ "rx" \in DOMAIN seg <=> WantCores("rx") # {}
  /\ "rw" \in DOMAIN seg <=> WantCores("rw") \cup WantCores("bss") # {}
HeadersKnown == "phnum" \in DOMAIN lay /\ lay.phnum = HeadersWanted
SomeTls == \E k \in DOMAIN sections : IsTls(sections[k]) /\ sections[k].size # 0
TlsKnown == "tls_size" \in DOMAIN lay /\ (SomeTls => lay.tls_size > 0)
TagsKnown == "tags" \in DOMAIN lay /\ (prog.dynamic => Len(lay.tags) = DynEntries)

(* Nothing of it depends on variables the later passes write.              *)
LEMMA Kept ==
  ASSUME prog' = prog, builders' = builders
  PROVE  /\ HeadersWanted' = HeadersWanted /\ AllWanted' = AllWanted
         /\ bucket' = bucket => (BucketInv' <=> BucketInv)
         /\ sections' = sections => (SomeTls' <=> SomeTls)
         /\ sections' = sections /\ seg' = seg =>
              /\ NothingPlaced' <=> NothingPlaced
              /\ (RoPlaced' <=> RoPlaced) /\ (RxPlaced' <=> RxPlaced) /\ (RwPlaced' <=> RwPlaced)
<1>1. /\ WantCores("ro")' = WantCores("ro") /\ WantCores("rx")' = WantCores("rx")
      /\ WantCores("rw")' = WantCores("rw") /\ WantCores("bss")' = WantCores("bss")
      /\ \A c \in Classes : MadeOf(c)' = MadeOf(c) /\ WantCores(c)' = WantCores(c)
  BY Settled DEF Classes
<1>2. AllWanted' = AllWanted
  BY <1>1 DEF AllWanted
<1>3. TlsWanted' <=> TlsWanted
  BY <1>1 DEF TlsWanted
<1>4. IsMade(".note.gnu.property")' <=> IsMade(".note.gnu.property")
  BY <1>1 DEF IsMade
<1>5. NFdes' = NFdes
  BY SettledProg
<1>6. HeadersWanted' = HeadersWanted
  <2>1. Flag(TlsWanted)' = Flag(TlsWanted) /\ Flag(IsMade(".note.gnu.property"))' = Flag(IsMade(".note.gnu.property"))
    BY <1>3, <1>4 DEF Flag
  <2>2. Flag(NFdes > 0)' = Flag(NFdes > 0)
    BY <1>5 DEF Flag
  <2> QED BY <1>1, <2>1, <2>2 DEF HeadersWanted
<1>7. ASSUME bucket' = bucket PROVE BucketInv' <=> BucketInv
  BY <1>1, <1>7 DEF BucketInv
<1>8. ASSUME sections' = sections PROVE SomeTls' <=> SomeTls
  BY <1>8 DEF SomeTls
<1>9. ASSUME sections' = sections, seg' = seg
      PROVE  /\ NothingPlaced' <=> NothingPlaced
             /\ (RoPlaced' <=> RoPlaced) /\ (RxPlaced' <=> RxPlaced) /\ (RwPlaced' <=> RwPlaced)
  <2>1. AllPlaced' <=> AllPlaced
    BY <1>2, <1>9 DEF AllPlaced
  <2>2. NothingPlaced' <=> NothingPlaced
    BY <1>9 DEF NothingPlaced
  <2>3. (RoPlaced' <=> RoPlaced) /\ (RxPlaced' <=> RxPlaced)
    BY <1>1, <1>9 DEF RoPlaced, RxPlaced
  <2>4. RwPlaced' <=> RwPlaced
    BY <1>1, <1>9, <2>1 DEF RwPlaced
  <2> QED BY <2>2, <2>3, <2>4
<1> QED BY <1>2, <1>6, <1>7, <1>8, <1>9

(* A field of lay stays what it is when others are set.                    *)
LEMMA WithFacts ==
  ASSUME NEW r, lay' = With(r)
  PROVE  /\ DOMAIN lay' = DOMAIN lay \cup DOMAIN r
         /\ \A f \in DOMAIN r : lay'[f] = r[f]
         /\ \A f \in DOMAIN lay \ DOMAIN r : lay'[f] = lay[f]
  BY DEF With

-----------------------------------------------------------------------------
(* What each pass does.                                                    *)

LEMMA EmptyCores ==
  ASSUME NEW bs, IsBuilders(bs)
  PROVE  /\ bs = << >> <=> Cores(bs) = {}
         /\ Has(bs, IsTls) <=> \E w \in Cores(bs) : IsTls(w)
         /\ Has(bs, LAMBDA b : b.name = ".note.gnu.property") <=>
              \E w \in Cores(bs) : w.name = ".note.gnu.property"
<1>1. IsSeq(bs) /\ Len(bs) \in Nat /\ DOMAIN bs = 1 .. Len(bs)
  BY BuildersSized DEF IsBuilders
<1>2. bs = << >> <=> Cores(bs) = {}
  <2>1. ASSUME Cores(bs) = {} PROVE bs = << >>
    <3>1. DOMAIN bs = {}
      BY <2>1 DEF Cores
    <3>2. Len(bs) = 0
      BY <1>1, <3>1
    <3> QED BY <1>1, <3>2 DEF IsSeq
  <2> QED BY <2>1, EmptyBuilders
<1>3. \A k \in DOMAIN bs : Core(bs[k]).kind = bs[k].kind /\ Core(bs[k]).name = bs[k].name
  BY DEF Core
<1>4. Has(bs, IsTls) <=> \E w \in Cores(bs) : IsTls(w)
  BY <1>3 DEF Has, Cores, IsTls
<1>5. Has(bs, LAMBDA b : b.name = ".note.gnu.property") <=>
        \E w \in Cores(bs) : w.name = ".note.gnu.property"
  BY <1>3 DEF Has, Cores
<1> QED BY <1>2, <1>4, <1>5

LEMMA PropertyMade ==
  ASSUME IsProgram(prog), GroupInv
  PROVE  (\E w \in WantCores("ro") : w.name = ".note.gnu.property") <=> IsMade(".note.gnu.property")
<1>1. ".note.gnu.property" \in RoNames /\ ".note.gnu.property" \in Synthetic
  BY DEF RoNames, Synthetic
<1>2. IsMade(".note.gnu.property") <=> \E w \in RoMadeAll : w.name = ".note.gnu.property"
  BY <1>1, MadeUnder
<1>3. WantCores("ro") = CoresAt(builders, InClass("ro")) \cup RoMadeAll
  BY MadeOfClass DEF WantCores
<1>4. \A w \in CoresAt(builders, InClass("ro")) : w.name # ".note.gnu.property"
  <2>1. DOMAIN builders = 1 .. Len(builders)
    BY BuildersSized DEF GroupInv
  <2>2. \A k \in InClass("ro") : Core(builders[k]).name = builders[k].name /\ builders[k].name \notin Synthetic
    BY <2>1, GroupedPlain DEF InClass, Core
  <2> QED BY <1>1, <2>2 DEF CoresAt
<1> QED BY <1>2, <1>3, <1>4

LEMMA PredictedExact ==
  ASSUME IsProgram(prog), GroupInv, BucketInv
  PROVE  PredictedPhnum = HeadersWanted
<1>1. /\ IsBuilders(bucket["ro"]) /\ Cores(bucket["ro"]) = WantCores("ro")
      /\ IsBuilders(bucket["rx"]) /\ Cores(bucket["rx"]) = WantCores("rx")
      /\ IsBuilders(bucket["rw"]) /\ Cores(bucket["rw"]) = WantCores("rw")
      /\ IsBuilders(bucket["bss"]) /\ Cores(bucket["bss"]) = WantCores("bss")
  BY DEF BucketInv, Classes
<1>2. PICK both : both = bucket["rw"] \o bucket["bss"]
  OBVIOUS
<1>3. IsBuilders(both) /\ Cores(both) = WantCores("rw") \cup WantCores("bss")
  BY <1>1, <1>2, BuildersConcat
<1>4. Has(both, IsTls) <=> TlsWanted
  BY <1>3, EmptyCores DEF TlsWanted
<1>5. both # << >> <=> WantCores("rw") \cup WantCores("bss") # {}
  BY <1>3, EmptyCores
<1>6. bucket["rx"] # << >> <=> WantCores("rx") # {}
  BY <1>1, EmptyCores
<1>7. Has(bucket["ro"], LAMBDA b : b.name = ".note.gnu.property") <=> IsMade(".note.gnu.property")
  BY <1>1, EmptyCores, PropertyMade
<1>8. PICK f1, f2, f3, f4 : /\ f1 = Flag(Has(both, IsTls)) /\ f2 = Flag(both # << >>)
                            /\ f3 = Flag(bucket["rx"] # << >>)
                            /\ f4 = Flag(Has(bucket["ro"], LAMBDA b : b.name = ".note.gnu.property"))
  OBVIOUS
<1>9. PredictedPhnum = 3 + Flag(prog.build_id) + (IF prog.dynamic THEN 2 - Flag(prog.shared) ELSE 0)
                       + f1 + Flag(NFdes > 0) + f4 + Flag(prog.dynamic) + f3 + f2
  BY <1>2, <1>8, Zenon DEF PredictedPhnum
<1>10. f1 = Flag(TlsWanted) /\ f2 = Flag(WantCores("rw") \cup WantCores("bss") # {})
  BY <1>4, <1>5, <1>8 DEF Flag
<1>11. f3 = Flag(WantCores("rx") # {}) /\ f4 = Flag(IsMade(".note.gnu.property"))
  BY <1>6, <1>7, <1>8 DEF Flag
<1> QED BY <1>9, <1>10, <1>11, Zenon DEF HeadersWanted

LEMMA SegmentDomain ==
  ASSUME NEW c, NEW start, NEW file_end, NEW mem_end
  PROVE  DOMAIN Segment(c, start, file_end, mem_end) = DOMAIN seg \cup {c}
  BY DEF Segment

LEMMA PlaceReadOnlyStep ==
  ASSUME IsProgram(prog), GroupInv, BucketInv, NothingPlaced, PlaceReadOnly
  PROVE  RoPlaced'
<1>1. PICK start, end : /\ start = prog.base + EHDR_SIZE + lay.phnum * PHDR_SIZE
                        /\ end = End(bucket["ro"], start)
  OBVIOUS
<1>2. /\ seg' = Segment("ro", prog.base, end, end)
      /\ sections' = sections \o Place(bucket["ro"], start) /\ prog' = prog /\ builders' = builders
  BY <1>1, Zenon DEF PlaceReadOnly, Placed
<1>3. IsBuilders(bucket["ro"]) /\ Cores(bucket["ro"]) = WantCores("ro")
  BY DEF BucketInv, Classes
<1>4. SectionsAre(Place(bucket["ro"], start), WantCores("ro"))
  BY <1>3, PlaceOf
<1>5. SectionsAre(sections, {})
  BY NoSections DEF NothingPlaced
<1>6. SectionsAre(sections', {} \cup WantCores("ro"))
  BY <1>2, <1>4, <1>5, SectionsConcat
<1>7. WantCores("ro")' = WantCores("ro")
  BY <1>2, Settled DEF Classes
<1>8. {} \cup WantCores("ro") = WantCores("ro")
  OBVIOUS
<1>9. DOMAIN seg' = {"ro"}
  <2>1. DOMAIN seg' = DOMAIN seg \cup {"ro"}
    BY <1>2, SegmentDomain, Zenon
  <2> QED BY <2>1 DEF NothingPlaced
<1> QED BY <1>6, <1>7, <1>8, <1>9 DEF RoPlaced

LEMMA PlaceExecutableStep ==
  ASSUME IsProgram(prog), GroupInv, BucketInv, RoPlaced, PlaceExecutable
  PROVE  RxPlaced'
<1>1. PICK start, end : /\ start = AlignUp(seg["ro"].mem_end, PageSize)
                        /\ end = End(bucket["rx"], start)
  OBVIOUS
<1>2. /\ seg' = IF bucket["rx"] = << >> THEN seg ELSE Segment("rx", start, end, end)
      /\ sections' = sections \o Place(bucket["rx"], start) /\ prog' = prog /\ builders' = builders
  BY <1>1, Zenon DEF PlaceExecutable, Placed
<1>3. IsBuilders(bucket["rx"]) /\ Cores(bucket["rx"]) = WantCores("rx")
  BY DEF BucketInv, Classes
<1>4. SectionsAre(Place(bucket["rx"], start), WantCores("rx"))
  BY <1>3, PlaceOf
<1>5. SectionsAre(sections', WantCores("ro") \cup WantCores("rx"))
  BY <1>2, <1>4, SectionsConcat DEF RoPlaced
<1>6. WantCores("ro")' = WantCores("ro") /\ WantCores("rx")' = WantCores("rx")
  BY <1>2, Settled DEF Classes
<1>7. bucket["rx"] = << >> <=> WantCores("rx") = {}
  BY <1>3, EmptyCores
<1>8. DOMAIN seg' = IF WantCores("rx") = {} THEN {"ro"} ELSE {"ro", "rx"}
  <2>1. DOMAIN Segment("rx", start, end, end) = DOMAIN seg \cup {"rx"}
    BY SegmentDomain, Zenon
  <2>2. DOMAIN seg' = IF WantCores("rx") = {} THEN DOMAIN seg ELSE DOMAIN seg \cup {"rx"}
    BY <1>2, <1>7, <2>1
  <2> QED BY <2>2 DEF RoPlaced
<1> QED BY <1>5, <1>6, <1>8 DEF RxPlaced

LEMMA PlaceWritableStep ==
  ASSUME IsProgram(prog), GroupInv, BucketInv, RxPlaced, PlaceWritable
  PROVE  RwPlaced'
<1>1. PICK rw, zero, split : /\ rw = bucket["rw"] /\ zero = bucket["bss"]
                             /\ split = Min({k \in DOMAIN rw : ~IsRelro(rw[k])} \cup {Len(rw) + 1})
  OBVIOUS
<1>2. PICK relro, rest : relro = SubSeq(rw, 1, split - 1) /\ rest = SubSeq(rw, split, Len(rw))
  OBVIOUS
<1>3. PICK a, b, c, e : /\ seg' = (IF rw \o zero = << >> THEN seg ELSE Segment("rw", a, c, e))
                        /\ sections' = sections \o (Place(relro, a) \o Place(rest, b) \o Place(zero, c))
                        /\ prog' = prog /\ builders' = builders
  <2> DEFINE a == AlignUp(SegmentEnd, PageSize)
             b == IF rest = << >> /\ zero = << >> THEN End(relro, a) ELSE AlignUp(End(relro, a), PageSize)
             c == End(rest, b)
             e == End(zero, c)
  <2>1. /\ seg' = (IF rw \o zero = << >> THEN seg ELSE Segment("rw", a, c, e))
        /\ Placed(Place(relro, a) \o Place(rest, b) \o Place(zero, c), "alias")
    BY <1>1, <1>2, ZenonT(40) DEF PlaceWritable
  <2> HIDE DEF a, b, c, e
  <2> QED BY <2>1, Zenon DEF Placed
<1>4. /\ IsBuilders(rw) /\ Cores(rw) = WantCores("rw") /\ IsBuilders(zero) /\ Cores(zero) = WantCores("bss")
  BY <1>1 DEF BucketInv, Classes
<1>5. split \in 1 .. Len(rw) + 1
  <2>1. Len(rw) \in Nat /\ DOMAIN rw = 1 .. Len(rw)
    BY <1>4, BuildersSized
  <2>2. PICK S : S = {k \in DOMAIN rw : ~IsRelro(rw[k])} \cup {Len(rw) + 1}
    OBVIOUS
  <2>3. S \in SUBSET (1 .. Len(rw) + 1) /\ S \in SUBSET Nat /\ S # {}
    BY <2>1, <2>2
  <2>4. Min(S) \in S
    BY <2>3, MinOf
  <2> QED BY <1>1, <2>2, <2>3, <2>4
<1>6. /\ IsBuilders(relro) /\ IsBuilders(rest) /\ Cores(relro) \cup Cores(rest) = WantCores("rw")
  BY <1>2, <1>4, <1>5, SplitBuilders
<1>7. PICK x, y, z, u : x = Place(relro, a) /\ y = Place(rest, b) /\ z = Place(zero, c) /\ u = x \o y
  OBVIOUS
<1>8. SectionsAre(x, Cores(relro)) /\ SectionsAre(y, Cores(rest)) /\ SectionsAre(z, WantCores("bss"))
  BY <1>4, <1>6, <1>7, PlaceOf
<1>9. SectionsAre(u, WantCores("rw"))
  BY <1>6, <1>7, <1>8, SectionsConcat
<1>10. SectionsAre(u \o z, WantCores("rw") \cup WantCores("bss"))
  BY <1>8, <1>9, SectionsConcat
<1>11. sections' = sections \o (u \o z)
  BY <1>3, <1>7, Zenon
<1>12. SectionsAre(sections', (WantCores("ro") \cup WantCores("rx")) \cup (WantCores("rw") \cup WantCores("bss")))
  BY <1>10, <1>11, SectionsConcat DEF RxPlaced
<1>13. (WantCores("ro") \cup WantCores("rx")) \cup (WantCores("rw") \cup WantCores("bss")) = AllWanted
  BY DEF AllWanted, Classes
<1>14. AllPlaced'
  <2>1. AllWanted' = AllWanted
    BY <1>3, Kept
  <2> QED BY <1>12, <1>13, <2>1 DEF AllPlaced
<1>15. /\ WantCores("rx")' = WantCores("rx") /\ WantCores("rw")' = WantCores("rw")
       /\ WantCores("bss")' = WantCores("bss")
  BY <1>3, Settled DEF Classes
<1>16. rw \o zero = << >> <=> WantCores("rw") \cup WantCores("bss") = {}
  <2>1. IsBuilders(rw \o zero) /\ Cores(rw \o zero) = WantCores("rw") \cup WantCores("bss")
    BY <1>4, BuildersConcat
  <2> QED BY <2>1, EmptyCores
<1>17. DOMAIN seg' = IF WantCores("rw") \cup WantCores("bss") = {} THEN DOMAIN seg ELSE DOMAIN seg \cup {"rw"}
  BY <1>3, <1>16, SegmentDomain
<1>18. /\ "ro" \in DOMAIN seg' /\ ("rx" \in DOMAIN seg' <=> WantCores("rx") # {})
       /\ "rw" \in DOMAIN seg' <=> WantCores("rw") \cup WantCores("bss") # {}
  BY <1>17 DEF RxPlaced
<1> QED BY <1>14, <1>15, <1>18 DEF RwPlaced

LEMMA PlaceMetaStep ==
  ASSUME IsProgram(prog), RwPlaced, PlaceMeta
  PROVE  RwPlaced' /\ \E t : Metas(t) /\ sections' = sections \o t
<1>1. PICK bs, start, metas : /\ bs = MetaSections /\ start = AlignUp(FileContentEnd, 8)
                              /\ metas = [k \in DOMAIN bs |-> [bs[k] EXCEPT !.off = Begin(bs, start, k)]]
  OBVIOUS
<1>2. sections' = sections \o metas /\ prog' = prog /\ builders' = builders /\ seg' = seg
  BY <1>1, Zenon DEF PlaceMeta
<1>3. IsSeq(sections) /\ SectionsAre(sections, AllWanted)
  BY DEF RwPlaced, AllPlaced, SectionsAre
<1>4. Metas(bs)
  BY <1>1, <1>3, MetaSectionsAre
<1>5. Len(bs) \in Nat /\ DOMAIN bs = 1 .. Len(bs)
  BY <1>4 DEF Metas, IsSeq
<1>6. \A k \in 1 .. Len(bs) : IsMeta(metas[k])
  <2> SUFFICES ASSUME NEW k \in 1 .. Len(bs) PROVE IsMeta(metas[k])
    OBVIOUS
  <2>1. PICK m, o : m = bs[k] /\ o = Begin(bs, start, k)
    OBVIOUS
  <2>2. metas[k] = [m EXCEPT !.off = o]
    BY <1>1, <1>5, <2>1
  <2>3. IsMeta(m)
    BY <1>4, <2>1 DEF Metas
  <2> QED BY <2>2, <2>3 DEF IsMeta, Fields
<1>7. metas = [k \in 1 .. Len(bs) |-> metas[k]]
  BY <1>1, <1>5
<1>8. Metas(metas)
  BY <1>5, <1>6, <1>7, MetaFunction
<1>9. SectionsAre(metas, {})
  BY <1>8, MetaOnly DEF Metas
<1>10. SectionsAre(sections', AllWanted \cup {})
  BY <1>2, <1>3, <1>9, SectionsConcat
<1>11. AllWanted \cup {} = AllWanted /\ AllWanted' = AllWanted
  BY <1>2, Kept
<1>12. AllPlaced'
  BY <1>10, <1>11 DEF AllPlaced
<1>13. /\ WantCores("rx")' = WantCores("rx") /\ WantCores("rw")' = WantCores("rw")
       /\ WantCores("bss")' = WantCores("bss")
  BY <1>2, Settled DEF Classes
<1>14. RwPlaced'
  BY <1>2, <1>12, <1>13 DEF RwPlaced
<1> QED BY <1>2, <1>8, <1>14

LEMMA TlsLayoutStep ==
  ASSUME IsProgram(prog), GroupInv, RwPlaced, TlsLayout
  PROVE  TlsKnown'
<1>1. PICK v : lay' = With([tls |-> v, tls_size |-> AlignUp(End(TlsBlock, 0), MaxAlign(TlsBlock))])
  BY Zenon DEF TlsLayout
<1>2. PICK r, n : r = [tls |-> v, tls_size |-> n] /\ n = AlignUp(End(TlsBlock, 0), MaxAlign(TlsBlock))
  OBVIOUS
<1>3. lay' = With(r) /\ "tls_size" \in DOMAIN r /\ r["tls_size"] = n
  BY <1>1, <1>2
<1>4. "tls_size" \in DOMAIN lay' /\ lay'["tls_size"] = n
  BY <1>3, WithFacts
<1>5. sections' = sections
  BY DEF TlsLayout
<1>6. SomeTls' <=> SomeTls
  BY <1>5 DEF SomeTls
<1>7. AllPlaced /\ DOMAIN sections = 1 .. Len(sections)
  BY DEF RwPlaced, AllPlaced, SectionsAre, IsSeq
<1>8. SomeTls => n > 0
  BY <1>2, <1>7, TlsSized DEF SomeTls
<1> QED BY <1>4, <1>6, <1>8 DEF TlsKnown

LEMMA BuildDynamicStep ==
  ASSUME IsProgram(prog), GroupInv, RwPlaced, BuildDynamic
  PROVE  TagsKnown'
<1>1. PICK t : t = IF prog.dynamic THEN DynamicTags ELSE << >>
  OBVIOUS
<1>2. lay' = With([tags |-> t]) /\ prog' = prog /\ builders' = builders
  BY <1>1, Zenon DEF BuildDynamic
<1>3. PICK r : r = [tags |-> t]
  OBVIOUS
<1>4. "tags" \in DOMAIN r /\ r["tags"] = t
  BY <1>3
<1>5. "tags" \in DOMAIN lay' /\ lay'["tags"] = t
  BY <1>2, <1>3, <1>4, WithFacts
<1>6. DynEntries' = DynEntries
  BY <1>2, Settled
<1>7. prog.dynamic => Len(t) = DynEntries
  BY <1>1, TagsCounted DEF RwPlaced
<1> QED BY <1>2, <1>5, <1>6, <1>7 DEF TagsKnown

LEMMA MismatchMeans ==
  ASSUME IsProgram(prog), GroupInv, RwPlaced, HeadersKnown, TlsKnown, Len(Headers) # lay.phnum
  PROVE  ~SomeTls
<1> SUFFICES ASSUME SomeTls PROVE FALSE
  OBVIOUS
<1>1. AllPlaced /\ DOMAIN sections = 1 .. Len(sections)
  BY DEF RwPlaced, AllPlaced, SectionsAre, IsSeq
<1>2. TlsWanted
  BY <1>1, TlsSection DEF SomeTls
<1>3. lay.tls_size > 0
  BY DEF TlsKnown
<1>4. Len(Headers) = HeadersWanted
  BY <1>2, <1>3, HeadersCounted DEF RwPlaced
<1> QED BY <1>4 DEF HeadersKnown

-----------------------------------------------------------------------------
(* The invariant behind the counts: what is known before each pass.        *)
Emitting == {"emit", "write_headers", "write_sections", "copy_inputs", "tls_got", "eh_frame_hdr",
             "section_headers", "build_id", "done"}
Assigned == {"alias", "meta", "slots", "tls", "entry", "dynamic", "headers", "symbols"} \cup Emitting
Known(p) ==
  /\ p # "error" => lay.error = "none"
  /\ p = "output" => builders = << >> /\ NothingPlaced
  /\ p \notin NoLayout => GroupInv
  /\ p \in {"group", "count", "ro"} => NothingPlaced
  /\ p \in {"count", "ro", "rx", "order", "rw"} => BucketInv
  /\ p = "rx" => RoPlaced
  /\ p \in {"order", "rw"} => RxPlaced
  /\ p \in Assigned => RwPlaced
  /\ p \in {"ro", "rx", "order", "rw", "alias", "meta", "slots", "tls", "entry", "dynamic", "headers"} =>
       HeadersKnown
  /\ p \in {"entry", "dynamic", "headers"} => TlsKnown
  /\ p \in {"headers", "symbols"} \cup Emitting => TagsKnown
CountsInv ==
  /\ Accepted /\ "error" \in DOMAIN lay
  /\ Known(pc)
  /\ lay.error = "phdr_count" => ~SomeTls

LEMMA CountsInit == LinkInit => CountsInv
<1> SUFFICES ASSUME LinkInit PROVE CountsInv
  OBVIOUS
<1>1. pc = "output" /\ builders = << >> /\ sections = << >> /\ seg = << >> /\ lay = [error |-> "none"]
      /\ prog \in Programs
  BY DEF LinkInit, EmitInit, Init
<1>2. Accepted
  BY <1>1 DEF Accepted, NoLayout
<1>3. NothingPlaced
  BY <1>1 DEF NothingPlaced
<1>4. "error" \in DOMAIN lay /\ lay.error = "none"
  BY <1>1
<1>5. Known(pc)
  BY <1>1, <1>3, <1>4 DEF Known, NoLayout, Assigned, Emitting
<1> QED BY <1>2, <1>4, <1>5 DEF CountsInv

LEMMA CountsMean ==
  ASSUME CountsInv
  PROVE  CountsExact
<1>1. ASSUME LaidOut, prog.dynamic PROVE 16 * Len(lay.tags) = sections[Min(FindSource(".dynamic"))].size
  <2>1. pc \notin NoLayout /\ pc \in Assigned /\ pc \in {"headers", "symbols"} \cup Emitting
    BY <1>1 DEF LaidOut, NoLayout, Assigned, Emitting
  <2>2. GroupInv /\ RwPlaced /\ TagsKnown
    BY <2>1 DEF CountsInv, Known
  <2>3. IsProgram(prog)
    BY <2>1, ProgramsAssumption DEF CountsInv, Accepted
  <2>4. ".dynamic" \in Synthetic /\ IsBuilders(builders) /\ AllPlaced
    BY <2>2 DEF Synthetic, GroupInv, RwPlaced
  <2>5. IsMade(".dynamic")
    BY <1>1, <2>3, <2>4, MadeDynamic
  <2>6. PICK K : K = FindSource(".dynamic")
    OBVIOUS
  <2>7. /\ K # {} /\ K \in SUBSET (1 .. Len(sections))
        /\ \A k \in K : \E c \in Classes : Core(sections[k]) \in MadeOf(c) /\ sections[k].name = ".dynamic"
    BY <2>2, <2>3, <2>4, <2>5, <2>6, FoundMade
  <2>8. PICK k : k = Min(K)
    OBVIOUS
  <2>9. k \in K
    <3>1. K \in SUBSET Nat
      BY <2>7
    <3> QED BY <2>7, <2>8, <3>1, MinOf
  <2>10. PICK c \in Classes : Core(sections[k]) \in MadeOf(c) /\ sections[k].name = ".dynamic"
    BY <2>7, <2>9
  <2>11. Core(sections[k]).name = ".dynamic" /\ Core(sections[k]).size = sections[k].size
    BY <2>10 DEF Core
  <2>12. Core(sections[k]).size = 16 * DynEntries
    BY <2>3, <2>4, <2>10, <2>11, MadeDynamic
  <2> QED BY <1>1, <2>2, <2>6, <2>8, <2>11, <2>12 DEF TagsKnown
<1>2. ASSUME lay.error = "phdr_count" PROVE \A s \in ToSet(sections) : IsTls(s) => s.size = 0
  BY <1>2 DEF CountsInv, SomeTls, ToSet
<1> QED BY <1>1, <1>2 DEF CountsExact

LEMMA InLayout ==
  ASSUME CountsInv, pc \notin NoLayout
  PROVE  IsProgram(prog) /\ GroupInv
  BY ProgramsAssumption DEF CountsInv, Accepted, Known

(* A link that gives up keeps what it had.                                 *)
LEMMA FailStep ==
  ASSUME CountsInv, Accepted', NEW e, Fail(e), e = "phdr_count" => ~SomeTls
  PROVE  CountsInv'
<1>1. pc' = "error" /\ lay' = [lay EXCEPT !.error = e] /\ sections' = sections
  BY DEF Fail
<1>2. "error" \in DOMAIN lay' /\ lay'.error = e
  BY <1>1 DEF CountsInv
<1>3. SomeTls' <=> SomeTls
  BY <1>1 DEF SomeTls
<1>4. Known(pc)'
  BY <1>1 DEF Known, NoLayout, Assigned, Emitting
<1> QED BY <1>2, <1>3, <1>4 DEF CountsInv

(* Setting fields of lay leaves the others alone.                          *)
LEMMA LaySet ==
  ASSUME CountsInv, pc # "error", NEW r, lay' = With(r), "error" \notin DOMAIN r
  PROVE  /\ "error" \in DOMAIN lay' /\ lay'.error = "none"
         /\ prog' = prog /\ builders' = builders =>
              /\ HeadersKnown /\ "phnum" \notin DOMAIN r => HeadersKnown'
              /\ sections' = sections /\ TlsKnown /\ "tls_size" \notin DOMAIN r => TlsKnown'
              /\ TagsKnown /\ "tags" \notin DOMAIN r => TagsKnown'
<1>1. /\ DOMAIN lay' = DOMAIN lay \cup DOMAIN r
      /\ \A f \in DOMAIN lay \ DOMAIN r : lay'[f] = lay[f]
  BY WithFacts
<1>2. "error" \in DOMAIN lay' /\ lay'.error = "none"
  BY <1>1 DEF CountsInv, Known
<1>3. ASSUME prog' = prog, builders' = builders
      PROVE  /\ HeadersKnown /\ "phnum" \notin DOMAIN r => HeadersKnown'
             /\ sections' = sections /\ TlsKnown /\ "tls_size" \notin DOMAIN r => TlsKnown'
             /\ TagsKnown /\ "tags" \notin DOMAIN r => TagsKnown'
  <2>1. HeadersWanted' = HeadersWanted /\ DynEntries' = DynEntries
    BY <1>3, Kept, Settled
  <2>2. HeadersKnown /\ "phnum" \notin DOMAIN r => HeadersKnown'
    BY <1>1, <2>1 DEF HeadersKnown
  <2>3. TagsKnown /\ "tags" \notin DOMAIN r => TagsKnown'
    BY <1>1, <1>3, <2>1 DEF TagsKnown
  <2>4. sections' = sections /\ TlsKnown /\ "tls_size" \notin DOMAIN r => TlsKnown'
    BY <1>1 DEF TlsKnown, SomeTls
  <2> QED BY <2>2, <2>3, <2>4
<1> QED BY <1>2, <1>3

(* Passes that only set fields of lay, after all addresses are known.      *)
LEMMA LaterStep ==
  ASSUME CountsInv, Accepted', pc \in Assigned, pc' \in Assigned,
         prog' = prog, builders' = builders, RwPlaced',
         "error" \in DOMAIN lay', lay'.error = "none",
         pc' \in {"alias", "meta", "slots", "tls", "entry", "dynamic", "headers"} => HeadersKnown',
         pc' \in {"entry", "dynamic", "headers"} => TlsKnown',
         pc' \in {"headers", "symbols"} \cup Emitting => TagsKnown'
  PROVE  CountsInv'
<1>1. pc \notin NoLayout
  BY DEF Assigned, Emitting, NoLayout
<1>2. GroupInv'
  BY <1>1, InLayout, Settled
<1>3. pc' \notin {"error", "output", "group", "count", "ro", "rx", "order", "rw"}
  BY DEF Assigned, Emitting
<1>4. Known(pc)'
  BY <1>2, <1>3 DEF Known
<1> QED BY <1>4 DEF CountsInv

LEMMA CountsGroup ==
  ASSUME CountsInv, Accepted', PrebuildDynamic \/ GroupSection \/ AddSynthetic \/ CountHeaders
  PROVE  CountsInv'
<1>1. CASE PrebuildDynamic
  <2>1. /\ pc = "output" /\ pc' = "group" /\ builders = << >> /\ builders' = builders /\ sections' = sections
        /\ seg' = seg /\ lay' = lay /\ prog' = prog
    BY <1>1 DEF PrebuildDynamic, CountsInv, Known
  <2>2. NothingPlaced /\ lay.error = "none" /\ "error" \in DOMAIN lay
    BY <2>1 DEF CountsInv, Known
  <2>3. GroupInv
    <3>1. IsBuilders(builders) /\ Len(builders) = 0
      BY <2>1, EmptyBuilders
    <3> QED BY <3>1 DEF GroupInv
  <2>4. GroupInv' /\ NothingPlaced'
    BY <2>1, <2>2, <2>3, Settled, Kept
  <2>5. Known(pc)'
    BY <2>1, <2>2, <2>4 DEF Known, Assigned, Emitting
  <2> QED BY <2>1, <2>2, <2>5 DEF CountsInv
<1>2. CASE GroupSection
  <2>1. /\ pc = "group" /\ pc' = "group" /\ at \in Secs /\ sections' = sections
        /\ builders' = (IF Contributes(Sec(at)) THEN GroupedInto(at) ELSE builders)
        /\ seg' = seg /\ lay' = lay /\ prog' = prog
    BY <1>2 DEF GroupSection
  <2>2. NothingPlaced /\ lay.error = "none" /\ "error" \in DOMAIN lay
    BY <2>1 DEF CountsInv, Known
  <2>3. IsProgram(prog) /\ GroupInv
    BY <2>1, InLayout DEF NoLayout
  <2>4. GroupInv'
    BY <2>1, <2>3, GroupedIntoKeeps, Settled
  <2>5. NothingPlaced'
    BY <2>1, <2>2 DEF NothingPlaced
  <2>6. Known(pc)'
    BY <2>1, <2>2, <2>4, <2>5 DEF Known, Assigned, Emitting
  <2> QED BY <2>1, <2>2, <2>6 DEF CountsInv
<1>3. CASE AddSynthetic
  <2>1. /\ pc = "group" /\ pc' = "count" /\ sections' = sections /\ builders' = builders
        /\ seg' = seg /\ lay' = lay /\ prog' = prog
    BY <1>3 DEF AddSynthetic
  <2>2. NothingPlaced /\ lay.error = "none" /\ "error" \in DOMAIN lay
    BY <2>1 DEF CountsInv, Known
  <2>3. IsProgram(prog) /\ GroupInv
    BY <2>1, InLayout DEF NoLayout
  <2>4. BucketInv'
    BY <1>3, <2>3, AddSyntheticStep
  <2>5. GroupInv' /\ NothingPlaced'
    BY <2>1, <2>2, <2>3, Settled, Kept
  <2>6. Known(pc)'
    BY <2>1, <2>2, <2>4, <2>5 DEF Known, Assigned, Emitting
  <2> QED BY <2>1, <2>2, <2>6 DEF CountsInv
<1>4. CASE CountHeaders
  <2>1. PICK r : r = [phnum |-> PredictedPhnum]
    OBVIOUS
  <2>2. /\ pc = "count" /\ pc' = "ro" /\ sections' = sections /\ builders' = builders
        /\ seg' = seg /\ lay' = With(r) /\ prog' = prog /\ bucket' = bucket
    BY <1>4, <2>1 DEF CountHeaders
  <2>3. NothingPlaced /\ BucketInv
    BY <2>2 DEF CountsInv, Known
  <2>4. IsProgram(prog) /\ GroupInv
    BY <2>2, InLayout DEF NoLayout
  <2>5. DOMAIN r = {"phnum"} /\ r["phnum"] = HeadersWanted
    BY <2>1, <2>3, <2>4, PredictedExact
  <2>6. "error" \in DOMAIN lay' /\ lay'.error = "none"
    BY <2>2, <2>5, LaySet
  <2>7. HeadersKnown'
    <3>1. "phnum" \in DOMAIN lay' /\ lay'["phnum"] = HeadersWanted
      BY <2>2, <2>5, WithFacts
    <3>2. HeadersWanted' = HeadersWanted
      BY <2>2, Kept
    <3> QED BY <3>1, <3>2 DEF HeadersKnown
  <2>8. GroupInv' /\ NothingPlaced' /\ BucketInv'
    BY <2>2, <2>3, <2>4, Settled, Kept
  <2>9. Known(pc)'
    BY <2>2, <2>6, <2>7, <2>8 DEF Known, Assigned, Emitting
  <2> QED BY <2>6, <2>9 DEF CountsInv
<1> QED BY <1>1, <1>2, <1>3, <1>4

LEMMA CountsPlace ==
  ASSUME CountsInv, Accepted', PlaceReadOnly \/ PlaceExecutable \/ OrderWritable \/ PlaceWritable
  PROVE  CountsInv'
<1>1. /\ pc \in {"ro", "rx", "order", "rw"}
      /\ prog' = prog /\ builders' = builders /\ lay' = lay
  BY DEF PlaceReadOnly, PlaceExecutable, OrderWritable, PlaceWritable, Placed
<1>2. IsProgram(prog) /\ GroupInv
  BY <1>1, InLayout DEF NoLayout
<1>3. BucketInv /\ HeadersKnown /\ lay.error = "none" /\ "error" \in DOMAIN lay
  BY <1>1 DEF CountsInv, Known
<1>4. GroupInv' /\ HeadersKnown'
  <2>1. HeadersWanted' = HeadersWanted
    BY <1>1, Kept
  <2> QED BY <1>1, <1>2, <1>3, <2>1, Settled DEF HeadersKnown
<1>5. CASE PlaceReadOnly
  <2>1. pc = "ro" /\ pc' = "rx" /\ bucket' = bucket
    BY <1>5 DEF PlaceReadOnly, Placed
  <2>2. NothingPlaced
    BY <2>1 DEF CountsInv, Known
  <2>3. RoPlaced'
    BY <1>2, <1>3, <1>5, <2>2, PlaceReadOnlyStep
  <2>4. BucketInv'
    BY <1>1, <1>3, <2>1, Kept
  <2>5. Known(pc)'
    BY <1>1, <1>3, <1>4, <2>1, <2>3, <2>4 DEF Known, Assigned, Emitting
  <2> QED BY <1>1, <1>3, <2>5 DEF CountsInv
<1>6. CASE PlaceExecutable
  <2>1. pc = "rx" /\ pc' = "order" /\ bucket' = bucket
    BY <1>6 DEF PlaceExecutable, Placed
  <2>2. RoPlaced
    BY <2>1 DEF CountsInv, Known
  <2>3. RxPlaced'
    BY <1>2, <1>3, <1>6, <2>2, PlaceExecutableStep
  <2>4. BucketInv'
    BY <1>1, <1>3, <2>1, Kept
  <2>5. Known(pc)'
    BY <1>1, <1>3, <1>4, <2>1, <2>3, <2>4 DEF Known, Assigned, Emitting
  <2> QED BY <1>1, <1>3, <2>5 DEF CountsInv
<1>7. CASE OrderWritable
  <2>1. pc = "order" /\ pc' = "rw" /\ sections' = sections /\ seg' = seg
    BY <1>7 DEF OrderWritable
  <2>2. RxPlaced
    BY <2>1 DEF CountsInv, Known
  <2>3. RxPlaced'
    BY <1>1, <2>1, <2>2, Kept
  <2>4. BucketInv'
    BY <1>2, <1>3, <1>7, OrderWritableStep
  <2>5. Known(pc)'
    BY <1>1, <1>3, <1>4, <2>1, <2>3, <2>4 DEF Known, Assigned, Emitting
  <2> QED BY <1>1, <1>3, <2>5 DEF CountsInv
<1>8. CASE PlaceWritable
  <2>1. pc = "rw" /\ pc' = "alias"
    BY <1>8 DEF PlaceWritable, Placed
  <2>2. RxPlaced
    BY <2>1 DEF CountsInv, Known
  <2>3. RwPlaced'
    BY <1>2, <1>3, <1>8, <2>2, PlaceWritableStep
  <2>4. Known(pc)'
    BY <1>1, <1>3, <1>4, <2>1, <2>3 DEF Known, Assigned, Emitting
  <2> QED BY <1>1, <1>3, <2>4 DEF CountsInv
<1> QED BY <1>5, <1>6, <1>7, <1>8

LEMMA CountsTables ==
  ASSUME CountsInv, Accepted',
         AliasFolded \/ PlaceMeta \/ AssignSlots \/ TlsLayout \/ ResolveEntry \/ BuildDynamic
         \/ ProgramHeaders \/ LinkerSymbols
  PROVE  CountsInv'
<1>1. /\ pc \in {"alias", "meta", "slots", "tls", "entry", "dynamic", "headers", "symbols"}
      /\ prog' = prog /\ builders' = builders /\ seg' = seg
  BY DEF AliasFolded, PlaceMeta, AssignSlots, TlsLayout, ResolveEntry, BuildDynamic, ProgramHeaders, LinkerSymbols
<1>2. pc \in Assigned /\ pc # "error" /\ pc \notin NoLayout
  BY <1>1 DEF Assigned, NoLayout
<1>3. IsProgram(prog) /\ GroupInv /\ RwPlaced
  BY <1>2, InLayout DEF CountsInv, Known
<1>4. sections' = sections => RwPlaced'
  BY <1>1, <1>3, Kept
<1>5. CASE AliasFolded
  <2>1. pc = "alias" /\ pc' = "meta" /\ sections' = sections /\ lay' = lay
    BY <1>5 DEF AliasFolded
  <2>2. HeadersKnown /\ "error" \in DOMAIN lay /\ lay.error = "none"
    BY <2>1 DEF CountsInv, Known
  <2>3. HeadersKnown'
    <3>1. HeadersWanted' = HeadersWanted
      BY <1>1, Kept
    <3> QED BY <2>1, <2>2, <3>1 DEF HeadersKnown
  <2>4. pc' \in Assigned
    BY <2>1 DEF Assigned
  <2>5. pc' \notin {"entry", "dynamic", "headers"} /\ pc' \notin {"headers", "symbols"} \cup Emitting
    BY <2>1 DEF Emitting
  <2> QED BY <1>1, <1>2, <1>4, <2>1, <2>2, <2>3, <2>4, <2>5, LaterStep
<1>6. CASE PlaceMeta \/ AssignSlots \/ TlsLayout \/ ResolveEntry \/ BuildDynamic
  <2>1. PICK r : lay' = With(r) /\ DOMAIN r \cap {"error", "phnum"} = {}
                 /\ (pc = "entry" => "tls_size" \notin DOMAIN r) /\ (pc = "dynamic" => "tls_size" \notin DOMAIN r)
    <3>1. CASE PlaceMeta
      <4>1. PICK x, y, z : lay' = With([symtab |-> x, shoff |-> y, file_size |-> z])
        BY <3>1, Zenon DEF PlaceMeta
      <4>2. pc = "meta"
        BY <3>1 DEF PlaceMeta
      <4>3. DOMAIN [symtab |-> x, shoff |-> y, file_size |-> z] = {"symtab", "shoff", "file_size"}
        OBVIOUS
      <4> QED BY <4>1, <4>2, <4>3
    <3>2. CASE AssignSlots
      <4>1. PICK x : lay' = With([slots |-> x])
        BY <3>2, Zenon DEF AssignSlots
      <4>2. pc = "slots"
        BY <3>2 DEF AssignSlots
      <4>3. DOMAIN [slots |-> x] = {"slots"}
        OBVIOUS
      <4> QED BY <4>1, <4>2, <4>3
    <3>3. CASE TlsLayout
      <4>1. PICK x, y : lay' = With([tls |-> x, tls_size |-> y])
        BY <3>3, Zenon DEF TlsLayout
      <4>2. pc = "tls"
        BY <3>3 DEF TlsLayout
      <4>3. DOMAIN [tls |-> x, tls_size |-> y] = {"tls", "tls_size"}
        OBVIOUS
      <4> QED BY <4>1, <4>2, <4>3
    <3>4. CASE ResolveEntry
      <4>1. PICK x : lay' = With([entry |-> x])
        BY <3>4, Zenon DEF ResolveEntry
      <4>2. DOMAIN [entry |-> x] = {"entry"}
        OBVIOUS
      <4> QED BY <4>1, <4>2
    <3>5. CASE BuildDynamic
      <4>1. PICK x : lay' = With([tags |-> x])
        BY <3>5, Zenon DEF BuildDynamic
      <4>2. DOMAIN [tags |-> x] = {"tags"}
        OBVIOUS
      <4> QED BY <4>1, <4>2
    <3> QED BY <1>6, <3>1, <3>2, <3>3, <3>4, <3>5
  <2>2. "error" \notin DOMAIN r /\ "phnum" \notin DOMAIN r
    BY <2>1
  <2>3. pc \in {"meta", "slots", "tls", "entry", "dynamic"} /\ pc' \in {"slots", "tls", "entry", "dynamic", "headers"}
    BY <1>6 DEF PlaceMeta, AssignSlots, TlsLayout, ResolveEntry, BuildDynamic
  <2>4. HeadersKnown
    BY <2>3 DEF CountsInv, Known
  <2>5. "error" \in DOMAIN lay' /\ lay'.error = "none" /\ HeadersKnown'
    BY <1>1, <1>2, <2>1, <2>2, <2>4, LaySet
  <2>6. RwPlaced'
    <3>1. CASE PlaceMeta
      BY <1>3, <3>1, PlaceMetaStep
    <3>2. CASE ~PlaceMeta
      <4>1. sections' = sections
        BY <1>6, <3>2 DEF AssignSlots, TlsLayout, ResolveEntry, BuildDynamic
      <4> QED BY <1>4, <4>1
    <3> QED BY <3>1, <3>2
  <2>7. pc' \in {"entry", "dynamic", "headers"} => TlsKnown'
    <3>1. CASE PlaceMeta \/ AssignSlots
      BY <3>1 DEF PlaceMeta, AssignSlots
    <3>2. CASE TlsLayout
      BY <1>3, <3>2, TlsLayoutStep
    <3>3. CASE ResolveEntry \/ BuildDynamic
      <4>1. sections' = sections /\ pc \in {"entry", "dynamic"}
        BY <3>3 DEF ResolveEntry, BuildDynamic
      <4>2. TlsKnown /\ "tls_size" \notin DOMAIN r
        BY <2>1, <4>1 DEF CountsInv, Known
      <4> QED BY <1>1, <1>2, <2>1, <2>2, <4>1, <4>2, LaySet
    <3> QED BY <1>6, <3>1, <3>2, <3>3
  <2>8. pc' \in {"headers", "symbols"} \cup Emitting => TagsKnown'
    <3>1. CASE BuildDynamic
      BY <1>3, <3>1, BuildDynamicStep
    <3>2. CASE ~BuildDynamic
      <4>1. pc' \in {"slots", "tls", "entry", "dynamic"}
        BY <1>6, <3>2 DEF PlaceMeta, AssignSlots, TlsLayout, ResolveEntry
      <4> QED BY <4>1 DEF Emitting
    <3> QED BY <3>1, <3>2
  <2>9. pc' \in Assigned
    BY <2>3 DEF Assigned
  <2> QED BY <1>1, <1>2, <2>5, <2>6, <2>7, <2>8, <2>9, LaterStep
<1>7. CASE ProgramHeaders \/ LinkerSymbols
  <2>1. PICK r : lay' = With(r) /\ DOMAIN r \cap {"error", "tags"} = {}
    <3>1. CASE ProgramHeaders
      <4>1. PICK x : lay' = With([segments |-> x])
        BY <3>1, Zenon DEF ProgramHeaders
      <4>2. DOMAIN [segments |-> x] = {"segments"}
        OBVIOUS
      <4> QED BY <4>1, <4>2
    <3>2. CASE LinkerSymbols
      <4>1. PICK x, y, z : lay' = With([edata |-> x, end |-> y, bss_start |-> z])
        BY <3>2, Zenon DEF LinkerSymbols
      <4>2. DOMAIN [edata |-> x, end |-> y, bss_start |-> z] = {"edata", "end", "bss_start"}
        OBVIOUS
      <4> QED BY <4>1, <4>2
    <3> QED BY <1>7, <3>1, <3>2
  <2>2. "error" \notin DOMAIN r /\ "tags" \notin DOMAIN r
    BY <2>1
  <2>3. pc \in {"headers", "symbols"} /\ pc' \in {"symbols", "emit"} /\ sections' = sections
    BY <1>7 DEF ProgramHeaders, LinkerSymbols
  <2>4. TagsKnown
    BY <2>3 DEF CountsInv, Known
  <2>5. "error" \in DOMAIN lay' /\ lay'.error = "none" /\ TagsKnown'
    BY <1>1, <1>2, <2>1, <2>2, <2>4, LaySet
  <2>6. pc' \in Assigned /\ pc' \notin {"alias", "meta", "slots", "tls", "entry", "dynamic", "headers"}
    BY <2>3 DEF Assigned, Emitting
  <2> QED BY <1>1, <1>2, <1>4, <2>3, <2>5, <2>6, LaterStep
<1> QED BY <1>5, <1>6, <1>7

(* Writing the file changes nothing of the layout.                         *)
LEMMA CountsEmit ==
  ASSUME CountsInv, Accepted',
         OpenOutput \/ WriteHeaders \/ WriteSynthetic \/ CopyInputs \/ WriteTlsGot
         \/ WriteEhFrameHdr \/ WriteSectionHeaders \/ FinalizeBuildId
  PROVE  CountsInv'
<1>1. /\ pc \in Emitting /\ pc' \in Emitting /\ prog' = prog /\ builders' = builders
      /\ sections' = sections /\ seg' = seg /\ lay' = lay
  BY DEF OpenOutput, WriteHeaders, WriteSynthetic, CopyInputs, WriteTlsGot, WriteEhFrameHdr, WriteSectionHeaders,
     FinalizeBuildId, Step, Emitting
<1>2. /\ pc \in Assigned /\ pc' \in Assigned /\ pc # "error"
      /\ pc' \notin {"alias", "meta", "slots", "tls", "entry", "dynamic", "headers"}
  BY <1>1 DEF Assigned, Emitting
<1>3. RwPlaced /\ TagsKnown /\ "error" \in DOMAIN lay /\ lay.error = "none"
  BY <1>1, <1>2 DEF CountsInv, Known
<1>4. RwPlaced'
  BY <1>1, <1>3, Kept
<1>5. TagsKnown'
  BY <1>1, <1>3, Settled DEF TagsKnown
<1> QED BY <1>1, <1>2, <1>3, <1>4, <1>5, LaterStep

LEMMA CountsStep ==
  ASSUME CountsInv, [LinkNext]_<<allvars, rel>>
  PROVE  CountsInv'
<1>1. Accepted'
  BY AcceptedStep DEF CountsInv
<1>2. CASE PrebuildDynamic \/ GroupSection \/ AddSynthetic \/ CountHeaders
  BY <1>1, <1>2, CountsGroup
<1>3. CASE PlaceReadOnly \/ PlaceExecutable \/ OrderWritable \/ PlaceWritable
  BY <1>1, <1>3, CountsPlace
<1>4. CASE AliasFolded \/ PlaceMeta \/ AssignSlots \/ TlsLayout \/ ResolveEntry \/ BuildDynamic
           \/ ProgramHeaders \/ LinkerSymbols
  BY <1>1, <1>4, CountsTables
<1>5. CASE RejectHashStyle \/ RejectAlignment \/ RejectEntry
  <2>1. PICK e : Fail(e) /\ e # "phdr_count"
    BY <1>5 DEF RejectHashStyle, RejectAlignment, RejectEntry
  <2> QED BY <1>1, <2>1, FailStep
<1>6. CASE PhdrCountMismatch
  <2>1. pc = "headers" /\ Len(Headers) # lay.phnum /\ Fail("phdr_count")
    BY <1>6 DEF PhdrCountMismatch
  <2>2. IsProgram(prog) /\ GroupInv /\ RwPlaced /\ HeadersKnown /\ TlsKnown
    BY <2>1, InLayout DEF NoLayout, CountsInv, Known, Assigned
  <2>3. ~SomeTls
    BY <2>1, <2>2, MismatchMeans
  <2> QED BY <1>1, <2>1, <2>3, FailStep
<1>7. CASE OpenOutput \/ WriteHeaders \/ WriteSynthetic \/ CopyInputs \/ WriteTlsGot
           \/ WriteEhFrameHdr \/ WriteSectionHeaders \/ FinalizeBuildId
  BY <1>1, <1>7, CountsEmit
<1>8. CASE LinkRelocatable
  <2>1. pc' \in NoLayout \ {"output"} /\ sections' = sections /\ lay' = lay /\ (pc = "error" => pc' = "error")
    BY <1>8 DEF LinkRelocatable, NoLayout, R!EmitRelocatable, R!HandOff, R!ApplyDefsym,
       R!MergeSections, R!MergeLocals, R!MergeGlobals, R!BuildRela, R!AssignOffsets
  <2>2. SomeTls' <=> SomeTls
    BY <2>1 DEF SomeTls
  <2>3. pc' # "error" => pc # "error"
    BY <2>1
  <2>4. Known(pc)'
    BY <2>1, <2>3 DEF Known, NoLayout, CountsInv, Assigned, Emitting
  <2> QED BY <1>1, <2>1, <2>2, <2>4 DEF CountsInv
<1>9. CASE UNCHANGED <<allvars, rel>>
  <2>1. /\ pc' = pc /\ prog' = prog /\ builders' = builders /\ sections' = sections /\ seg' = seg /\ lay' = lay
        /\ bucket' = bucket
    BY <1>9 DEF allvars, vars
  <2>2. /\ HeadersWanted' = HeadersWanted /\ DynEntries' = DynEntries /\ (BucketInv' <=> BucketInv)
        /\ (SomeTls' <=> SomeTls) /\ (NothingPlaced' <=> NothingPlaced) /\ (GroupInv' <=> GroupInv)
        /\ (RoPlaced' <=> RoPlaced) /\ (RxPlaced' <=> RxPlaced) /\ (RwPlaced' <=> RwPlaced)
    BY <2>1, Kept, Settled
  <2>3. (HeadersKnown' <=> HeadersKnown) /\ (TlsKnown' <=> TlsKnown) /\ (TagsKnown' <=> TagsKnown)
    BY <2>1, <2>2 DEF HeadersKnown, TlsKnown, TagsKnown
  <2>4. Known(pc)' <=> Known(pc)
    BY <2>1, <2>2, <2>3 DEF Known
  <2> QED BY <1>1, <2>1, <2>2, <2>4 DEF CountsInv
<1> QED
  BY <1>2, <1>3, <1>4, <1>5, <1>6, <1>7, <1>8, <1>9
  DEF LinkNext, LinkImage, EmitImageNext, Laying, ComputeLayout, Ended

(* What is counted before there are addresses is what is built: in every   *)
(* finished layout of a dynamic program .dynamic is exactly filled by its  *)
(* tags, and the link fails over the number of program headers only when   *)
(* every thread-local section is empty.                                    *)
THEOREM CountsExactAlways == LinkSpec => []CountsExact
<1>1. CountsInv /\ [LinkNext]_<<allvars, rel>> => CountsInv'
  BY CountsStep
<1>2. CountsInv => CountsExact
  BY CountsMean
<1> QED BY <1>1, <1>2, CountsInit, PTL DEF LinkSpec

-----------------------------------------------------------------------------
(* Multiples and pages.                                                    *)

(* A product is a multiple of its factors.                                 *)
LEMMA MultipleOf ==
  ASSUME NEW a \in Nat \ {0}, NEW q \in Nat
  PROVE  (q * a) % a = 0
<1>1. PICK x, k, r : x = q * a /\ k = x \div a /\ r = x % a
  OBVIOUS
<1>2. x \in Nat
  BY <1>1
<1>3. k \in Int /\ r \in 0 .. (a - 1) /\ x = a * k + r
  BY <1>1, <1>2
<1>4. PICK d \in Int : d = q - k
  BY <1>3
<1>5. a * d = r
  BY <1>1, <1>3, <1>4
<1>6. ~(d >= 1)
  BY <1>3, <1>5
<1>7. ~(d <= -1)
  BY <1>3, <1>5
<1>8. d = 0
  BY <1>6, <1>7
<1>9. r = 0
  BY <1>5, <1>8
<1> QED BY <1>1, <1>9

LEMMA AlignUpMultiple ==
  ASSUME NEW v \in Nat, NEW a \in Nat
  PROVE  a = 0 \/ AlignUp(v, a) % a = 0
<1>1. CASE a <= 1
  BY <1>1 DEF AlignUp
<1>2. CASE a > 1
  <2>1. PICK q : q = (v + a - 1) \div a
    OBVIOUS
  <2>2. q \in Nat
    BY <1>2, <2>1
  <2>3. AlignUp(v, a) = q * a
    BY <1>2, <2>1 DEF AlignUp
  <2>4. (q * a) % a = 0
    BY <1>2, <2>2, MultipleOf
  <2> QED BY <2>3, <2>4
<1> QED BY <1>1, <1>2

(* A higher address is on the same page or a later one.                    *)
LEMMA PageGrows ==
  ASSUME NEW a \in Nat, NEW b \in Nat, a <= b
  PROVE  Page(a) <= Page(b)
<1>1. PICK p \in Nat \ {0} : p = PageSize
  BY LayoutSizesAssumption
<1>2. PICK i, r, j, s : i = a \div p /\ r = a % p /\ j = b \div p /\ s = b % p
  OBVIOUS
<1>3. i \in Nat /\ j \in Nat /\ r \in 0 .. (p - 1) /\ s \in 0 .. (p - 1) /\ a = p * i + r /\ b = p * j + s
  BY <1>2
<1>4. PICK d \in Int : d = i - j
  BY <1>3
<1>5. p * d = p * i - p * j
  BY <1>3, <1>4
<1>6. ~(d >= 1)
  BY <1>3, <1>5
<1> QED BY <1>1, <1>2, <1>3, <1>4, <1>6 DEF Page

(* What ends before a page begins has no byte on it.                       *)
LEMMA PageBefore ==
  ASSUME NEW a \in Nat \ {0}, NEW b \in Nat, a <= b, b % PageSize = 0
  PROVE  Page(a - 1) < Page(b)
<1>1. PICK p \in Nat \ {0} : p = PageSize
  BY LayoutSizesAssumption
<1>2. PICK c \in Nat : c = a - 1
  OBVIOUS
<1>3. PICK i, r, j : i = c \div p /\ r = c % p /\ j = b \div p
  OBVIOUS
<1>4. i \in Nat /\ j \in Nat /\ r \in 0 .. (p - 1) /\ c = p * i + r /\ b = p * j
  BY <1>1, <1>3
<1>5. PICK d \in Int : d = i - j
  BY <1>4
<1>6. p * d = p * i - p * j
  BY <1>4, <1>5
<1>7. ~(d >= 0)
  BY <1>2, <1>4, <1>6
<1> QED BY <1>1, <1>2, <1>3, <1>4, <1>5, <1>7 DEF Page

LEMMA PageOfMultiples ==
  ASSUME NEW a \in Nat, NEW b \in Nat, a % PageSize = 0, b % PageSize = 0, a <= b
  PROVE  (b - a) % PageSize = 0 /\ b - a \in Nat
<1>1. PICK p \in Nat \ {0} : p = PageSize
  BY LayoutSizesAssumption
<1>2. PICK i, j : i = a \div p /\ j = b \div p
  OBVIOUS
<1>3. i \in Nat /\ j \in Nat /\ a = p * i /\ b = p * j
  BY <1>1, <1>2
<1>4. PICK d \in Int : d = j - i
  BY <1>3
<1>5. p * d = b - a /\ d * p = b - a
  BY <1>3, <1>4
<1>6. ~(d <= -1)
  BY <1>5
<1>7. d \in Nat
  BY <1>6
<1>8. (d * p) % p = 0
  BY <1>7, MultipleOf
<1> QED BY <1>1, <1>5, <1>8

-----------------------------------------------------------------------------
(* Sections one after the other.                                           *)
IsLoaded(s) == "A" \in s.flags
InPlace(s, bv, lo, hi) ==
  /\ s.addr \in Nat /\ s.size \in Nat /\ lo <= s.addr /\ s.addr + s.size <= hi
  /\ s.off = s.addr - bv
  /\ s.align = 0 \/ s.addr % s.align = 0
Packed(ss, bv, lo, hi) ==
  /\ IsSeq(ss) /\ lo \in Nat /\ hi \in Nat /\ lo <= hi
  /\ \A k \in 1 .. Len(ss) : IsLoaded(ss[k]) => InPlace(ss[k], bv, lo, hi)
  /\ \A j, k \in 1 .. Len(ss) : j < k /\ IsLoaded(ss[j]) /\ IsLoaded(ss[k]) =>
       ss[j].addr + ss[j].size <= ss[k].addr

LEMMA PackedConcat ==
  ASSUME NEW a, NEW b, NEW bv, NEW lo, NEW mid, NEW from, NEW hi, Packed(a, bv, lo, mid), Packed(b, bv, from, hi), mid <= from
  PROVE  Packed(a \o b, bv, lo, hi)
<1>1. PICK c, m, n : c = a \o b /\ m = Len(a) /\ n = Len(b)
  OBVIOUS
<1>2. /\ IsSeq(c) /\ m \in Nat /\ n \in Nat /\ Len(c) = m + n
      /\ \A i \in 1..m : c[i] = a[i]
      /\ \A i \in 1..n : c[m + i] = b[i]
  BY <1>1, ConcatIsSeq DEF Packed
<1>3. lo \in Nat /\ mid \in Nat /\ from \in Nat /\ hi \in Nat /\ lo <= mid /\ from <= hi
  BY DEF Packed
<1>4. \A k \in 1..(m + n) : (k \in 1..m /\ c[k] = a[k]) \/ (k > m /\ k - m \in 1..n /\ c[k] = b[k - m])
  <2> TAKE k \in 1..(m + n)
  <2>1. CASE k \in 1..m
    BY <1>2, <2>1
  <2>2. CASE k \notin 1..m
    <3>1. PICK i : i = k - m
      OBVIOUS
    <3>2. i \in 1..n /\ k = m + i /\ k > m
      BY <1>2, <2>2, <3>1
    <3> QED BY <1>2, <3>1, <3>2
  <2> QED BY <2>1, <2>2
<1>5. \A i \in 1..m : IsLoaded(a[i]) => InPlace(a[i], bv, lo, mid)
  BY <1>1 DEF Packed
<1>6. \A i \in 1..n : IsLoaded(b[i]) => InPlace(b[i], bv, from, hi)
  BY <1>1 DEF Packed
<1>7. ASSUME NEW k \in 1..(m + n), IsLoaded(c[k]) PROVE InPlace(c[k], bv, lo, hi)
  <2>1. CASE k \in 1..m /\ c[k] = a[k]
    BY <1>3, <1>5, <1>7, <2>1 DEF InPlace
  <2>2. CASE k - m \in 1..n /\ c[k] = b[k - m]
    BY <1>3, <1>6, <1>7, <2>2 DEF InPlace
  <2> QED BY <1>4, <2>1, <2>2
<1>8. ASSUME NEW j \in 1..(m + n), NEW k \in 1..(m + n), j < k, IsLoaded(c[j]), IsLoaded(c[k])
      PROVE  c[j].addr + c[j].size <= c[k].addr
  <2>1. CASE k \in 1..m /\ c[k] = a[k]
    <3>1. j \in 1..m /\ c[j] = a[j]
      BY <1>2, <1>4, <1>8, <2>1
    <3> QED BY <1>1, <1>8, <2>1, <3>1 DEF Packed
  <2>2. CASE k > m /\ k - m \in 1..n /\ c[k] = b[k - m]
    <3>1. CASE j \in 1..m /\ c[j] = a[j]
      <4>1. InPlace(a[j], bv, lo, mid) /\ InPlace(b[k - m], bv, from, hi)
        BY <1>5, <1>6, <1>8, <2>2, <3>1
      <4> QED BY <1>3, <2>2, <3>1, <4>1 DEF InPlace
    <3>2. CASE j > m /\ j - m \in 1..n /\ c[j] = b[j - m]
      <4>1. PICK x \in 1..n, y \in 1..n : x = j - m /\ y = k - m
        BY <2>2, <3>2
      <4>2. x < y
        BY <1>2, <1>8, <4>1
      <4>3. c[j] = b[x] /\ c[k] = b[y]
        BY <2>2, <3>2, <4>1
      <4> QED BY <1>1, <1>8, <4>2, <4>3 DEF Packed
    <3> QED BY <1>4, <3>1, <3>2
  <2> QED BY <1>4, <2>1, <2>2
<1>9. lo <= hi
  BY <1>3
<1>10. \A k \in 1 .. Len(c) : k \in 1..(m + n)
  BY <1>2
<1>11. Packed(c, bv, lo, hi)
  BY <1>2, <1>3, <1>7, <1>8, <1>9, <1>10 DEF Packed
<1> QED BY <1>1, <1>11

LEMMA NonePacked ==
  ASSUME NEW v \in Nat, NEW bv
  PROVE  Packed(<< >>, bv, v, v)
<1>1. IsSeq(<< >>) /\ Len(<< >>) = 0
  BY EmptyBuilders DEF IsBuilders
<1> QED BY <1>1 DEF Packed

LEMMA PlaceFields ==
  ASSUME NEW bs, IsBuilders(bs), NEW va, NEW k \in 1 .. Len(bs)
  PROVE  /\ Place(bs, va)[k].addr = Begin(bs, va, k) /\ Place(bs, va)[k].off = Begin(bs, va, k) - prog.base
         /\ \A f \in Fields \ {"addr", "off", "source"} : Place(bs, va)[k][f] = bs[k][f]
         /\ Core(Place(bs, va)[k]) = Core(bs[k])
<1>1. PICK x, y, z, b, c : /\ x = Begin(bs, va, k) /\ y = Begin(bs, va, k) - prog.base /\ z = Source(bs[k])
                           /\ b = bs[k] /\ c = Place(bs, va)[k]
  OBVIOUS
<1>2. DOMAIN bs = 1 .. Len(bs) /\ IsBuilder(b)
  BY <1>1, BuildersSized DEF IsBuilders
<1>3. c = [b EXCEPT !.addr = x, !.off = y, !.source = z]
  BY <1>1, <1>2 DEF Place
<1>4. c.addr = x /\ c.off = y /\ \A f \in Fields \ {"addr", "off", "source"} : c[f] = b[f]
  BY <1>2, <1>3 DEF IsBuilder, Fields
<1>5. c.name = b.name /\ c.kind = b.kind /\ c.flags = b.flags /\ c.size = b.size
  BY <1>2, <1>3 DEF IsBuilder, Fields
<1> QED BY <1>1, <1>4, <1>5 DEF Core

(* Placing gives every section its place behind the one before it.         *)
LEMMA PlacePacked ==
  ASSUME NEW bs, IsBuilders(bs), NEW v \in Nat
  PROVE  Packed(Place(bs, v), prog.base, v, End(bs, v)) /\ Len(Place(bs, v)) = Len(bs)
<1>1. PICK t, n, e : t = Place(bs, v) /\ n = Len(bs) /\ e = Ends(bs, v)
  OBVIOUS
<1>2. Sized(bs) /\ n \in Nat /\ DOMAIN bs = 1..n
  BY <1>1, BuildersSized
<1>3. IsSeq(t) /\ Len(t) = n
  <2>1. t = [k \in 1..n |-> t[k]]
    BY <1>1, <1>2 DEF Place
  <2> QED BY <1>2, <2>1, FunctionIsSeq
<1>4. End(bs, v) = e[n] /\ e \in [0..n -> Nat] /\ e[0] = v
  BY <1>1, <1>2, EndsFacts DEF End
<1>5. v <= e[n] /\ e[n] \in Nat
  <2>1. \A j \in 0 .. Len(bs) : Ends(bs, v)[0] <= Ends(bs, v)[j]
    <3>1. 0 \in 0 .. Len(bs)
      BY <1>1, <1>2
    <3> QED BY <1>2, <3>1, EndsGrow
  <2>2. n \in 0 .. Len(bs)
    BY <1>1, <1>2
  <2> QED BY <1>1, <1>2, <1>4, <2>1, <2>2
<1>6. ASSUME NEW k \in 1..n
      PROVE  /\ t[k].addr \in Nat /\ t[k].size \in Nat /\ v <= t[k].addr /\ t[k].addr + t[k].size <= e[n]
             /\ t[k].off = t[k].addr - prog.base /\ t[k].addr + t[k].size = e[k] /\ e[k - 1] <= t[k].addr
             /\ t[k].align = 0 \/ t[k].addr % t[k].align = 0
  <2>1. PICK x : x = Begin(bs, v, k)
    OBVIOUS
  <2>2. x \in Nat /\ v <= x /\ e[k - 1] <= x /\ x + bs[k].size = e[k] /\ x + bs[k].size <= e[n]
    BY <1>1, <1>2, <1>4, <2>1, BeginFacts
  <2>3. t[k].addr = x /\ t[k].off = x - prog.base /\ t[k].size = bs[k].size /\ t[k].align = bs[k].align
    <3>1. \A f \in Fields \ {"addr", "off", "source"} : t[k][f] = bs[k][f]
      BY <1>1, PlaceFields
    <3>2. t[k].size = bs[k].size /\ t[k].align = bs[k].align
      BY <3>1 DEF Fields
    <3> QED BY <1>1, <2>1, <3>2, PlaceFields
  <2>4. bs[k].size \in Nat /\ bs[k].align \in Nat /\ e[k - 1] \in Nat
    BY <1>1, <1>2, <1>4 DEF Sized
  <2>5. x = AlignUp(e[k - 1], bs[k].align)
    BY <1>1, <2>1 DEF Begin
  <2>6. bs[k].align = 0 \/ x % bs[k].align = 0
    BY <2>4, <2>5, AlignUpMultiple
  <2> QED BY <2>2, <2>3, <2>4, <2>6
<1>7. ASSUME NEW j \in 1..n, NEW k \in 1..n, j < k PROVE t[j].addr + t[j].size <= t[k].addr
  <2>1. j \in 0 .. Len(bs) /\ k - 1 \in j .. Len(bs)
    BY <1>1, <1>2, <1>7
  <2>2. e[j] <= e[k - 1]
    BY <1>1, <1>2, <2>1, EndsGrow
  <2>3. e[j] \in Nat /\ e[k - 1] \in Nat /\ t[j].addr + t[j].size = e[j] /\ e[k - 1] <= t[k].addr /\ t[k].addr \in Nat
    BY <1>2, <1>4, <1>6, <1>7
  <2> QED BY <2>2, <2>3
<1>8. \A k \in 1..n : InPlace(t[k], prog.base, v, e[n])
  BY <1>6 DEF InPlace
<1> QED BY <1>1, <1>3, <1>4, <1>5, <1>7, <1>8 DEF Packed

-----------------------------------------------------------------------------
(* The class of an output section and its flags.                           *)
PermOfClass(c) == IF c = "bss" THEN "rw" ELSE c
Suits(w, c) ==
  /\ PermOf(w.flags) = PermOfClass(c)
  /\ c = "bss" => w.kind \in {"Bss", "Tbss"}
  /\ IsRelro(w) => c = "rw"

LEMMA MadeSuits ==
  ASSUME NEW c \in Classes, NEW w \in MadeOf(c)
  PROVE  Suits(w, c)
<1>1. /\ PermOf({"A"}) = "ro" /\ PermOf({"A", "X"}) = "rx" /\ PermOf({"A", "W"}) = "rw"
  BY DEF PermOf
<1>2. RoNames \cap RELRO_SECTIONS = {} /\ ".plt" \notin RELRO_SECTIONS /\ ".bss" \notin RELRO_SECTIONS
  BY DEF RoNames, RELRO_SECTIONS
<1>3. CASE c = "ro"
  <2>1. w \in RoMadeAll
    BY <1>3, MadeOfClass
  <2>2. w.flags = {"A"}
    <3>1. CASE w \in LoaderMade
      BY <3>1, MadeMember DEF LoaderMade
    <3>2. CASE w \notin LoaderMade
      BY <2>1, <3>2, MadeMember DEF RoMadeAll
    <3> QED BY <3>1, <3>2
  <2>3. w.name \in RoNames
    BY <2>1, MadeNames DEF Is
  <2> QED BY <1>1, <1>2, <1>3, <2>2, <2>3 DEF Suits, PermOfClass, IsRelro
<1>4. CASE c = "rx"
  <2>1. w \in RxMadeAll
    BY <1>4, MadeOfClass
  <2>2. w.flags = {"A", "X"} /\ w.name = ".plt"
    BY <2>1, MadeMember DEF RxMadeAll
  <2> QED BY <1>1, <1>2, <1>4, <2>2 DEF Suits, PermOfClass, IsRelro
<1>5. CASE c = "rw"
  <2>1. w \in RwMadeAll
    BY <1>5, MadeOfClass
  <2>2. w.flags = {"A", "W"}
    BY <2>1, MadeMember DEF RwMadeAll
  <2> QED BY <1>1, <1>5, <2>2 DEF Suits, PermOfClass
<1>6. CASE c = "bss"
  <2>1. w \in BssMadeAll
    BY <1>6, MadeOfClass
  <2>2. w.flags = {"A", "W"} /\ w.name = ".bss" /\ w.kind = "Bss"
    BY <2>1, MadeMember DEF BssMadeAll
  <2> QED BY <1>1, <1>2, <1>6, <2>2 DEF Suits, PermOfClass, IsRelro
<1> QED BY <1>3, <1>4, <1>5, <1>6 DEF Classes

LEMMA WantSuits ==
  ASSUME IsProgram(prog), GroupInv, NEW c \in Classes, NEW w \in WantCores(c)
  PROVE  Suits(w, c)
<1>1. CASE w \in MadeOf(c)
  BY <1>1, MadeSuits
<1>2. CASE w \in CoresAt(builders, InClass(c))
  <2>1. PICK k \in InClass(c) : w = Core(builders[k])
    BY <1>2 DEF CoresAt
  <2>2. k \in 1 .. Len(builders)
    BY CountNat DEF GroupInv
  <2>3. PICK b : b = builders[k]
    OBVIOUS
  <2>4. /\ ClassOf(b) = c /\ b.name \notin Synthetic /\ IsBuilder(b)
        /\ b.name \in {".init_array", ".fini_array", ".data.rel.ro"} => ClassOf(b) = "rw"
    BY <2>2, <2>3, GroupedPlain DEF InClass
  <2>5. w.flags = b.flags /\ w.name = b.name /\ w.kind = b.kind
    BY <2>1, <2>3 DEF Core
  <2>6. b.nobits = (b.kind \in {"Bss", "Tbss"})
    BY <2>4 DEF IsBuilder
  <2>7. PermOf(b.flags) = PermOfClass(c)
    BY <2>4 DEF ClassOf, PermOfClass, PermOf
  <2>8. c = "bss" => b.nobits
    BY <2>4 DEF ClassOf, PermOf
  <2>9. IsRelro(b) => c = "rw"
    BY <2>4 DEF IsRelro, RELRO_SECTIONS, Synthetic
  <2>10. c = "bss" => w.kind \in {"Bss", "Tbss"}
    BY <2>5, <2>6, <2>8
  <2>11. IsRelro(w) <=> IsRelro(b)
    BY <2>5 DEF IsRelro
  <2> QED BY <2>5, <2>7, <2>9, <2>10, <2>11 DEF Suits
<1> QED BY <1>1, <1>2 DEF WantCores

(* What was placed of a class.                                             *)
Coherent(s, c) == s.nobits = (s.kind \in {"Bss", "Tbss"}) /\ Suits(s, c)
LEMMA PlaceSuits ==
  ASSUME IsProgram(prog), GroupInv, NEW c \in Classes, NEW bs, IsBuilders(bs), Cores(bs) \subseteq WantCores(c),
         NEW va, NEW k \in 1 .. Len(bs)
  PROVE  Coherent(Place(bs, va)[k], c)
<1>1. PICK s, b : s = Place(bs, va)[k] /\ b = bs[k]
  OBVIOUS
<1>2. IsBuilder(b) /\ DOMAIN bs = 1 .. Len(bs)
  BY <1>1, BuildersSized DEF IsBuilders
<1>3. Core(b) \in WantCores(c)
  BY <1>1, <1>2 DEF Cores
<1>4. Suits(Core(b), c)
  BY <1>3, WantSuits
<1>5. s.name = b.name /\ s.kind = b.kind /\ s.flags = b.flags /\ s.nobits = b.nobits
  BY <1>1, PlaceFields DEF Fields
<1>6. Suits(s, c)
  BY <1>4, <1>5 DEF Suits, Core, IsRelro
<1>7. b.nobits = (b.kind \in {"Bss", "Tbss"})
  BY <1>2 DEF IsBuilder
<1>8. s.nobits = (s.kind \in {"Bss", "Tbss"})
  BY <1>5, <1>7
<1> QED BY <1>1, <1>6, <1>8 DEF Coherent

-----------------------------------------------------------------------------
(* Segments one after the other, and the sections in them.                 *)
Follows == {<<"ro", "rx">>, <<"ro", "rw">>, <<"rx", "rw">>}
IsSegment(g, bv, hi) ==
  /\ g.start \in Nat /\ g.file_end \in Nat /\ g.mem_end \in Nat \ {0}
  /\ bv <= g.start /\ g.start <= g.file_end /\ g.file_end <= g.mem_end /\ g.mem_end <= hi
  /\ g.start % PageSize = 0
Inside(s, g) ==
  g.start <= s.addr /\ s.addr + s.size <= g.mem_end /\ (~s.nobits => s.addr + s.size <= g.file_end)
InSegment(s, sg) == PermOf(s.flags) \in DOMAIN sg /\ Inside(s, sg[PermOf(s.flags)])
EndOf(sg) ==
  IF "rw" \in DOMAIN sg THEN sg["rw"].mem_end
  ELSE IF "rx" \in DOMAIN sg THEN sg["rx"].mem_end ELSE sg["ro"].mem_end
Laid(ss, sg, bv) ==
  /\ "ro" \in DOMAIN sg /\ DOMAIN sg \subseteq {"ro", "rx", "rw"}
  /\ \A c \in DOMAIN sg : IsSegment(sg[c], bv, EndOf(sg))
  /\ \A c, d \in DOMAIN sg : <<c, d>> \in Follows => sg[c].mem_end <= sg[d].start
  /\ Packed(ss, bv, bv, EndOf(sg))
  /\ \A k \in 1 .. Len(ss) : IsLoaded(ss[k]) => InSegment(ss[k], sg)
Plus(sg, c, start, file_end, mem_end) ==
  [x \in DOMAIN sg \cup {c} |->
     IF x = c THEN [start |-> start, file_end |-> file_end, mem_end |-> mem_end] ELSE sg[x]]

(* The next segment.                                                       *)
LEMMA LaidGrows ==
  ASSUME NEW ss, NEW sg, NEW bv \in Nat, Laid(ss, sg, bv), NEW c \in {"rx", "rw"}, \A x \in DOMAIN sg : <<x, c>> \in Follows,
         NEW t, NEW from \in Nat, NEW mid \in Nat, NEW hi \in Nat, Packed(t, bv, from, hi),
         EndOf(sg) <= from, from <= mid, mid <= hi, from % PageSize = 0,
         \A k \in 1 .. Len(t) : IsLoaded(t[k]) => PermOf(t[k].flags) = c /\ (~t[k].nobits => t[k].addr + t[k].size <= mid)
  PROVE  Laid(ss \o t, Plus(sg, c, from, mid, hi), bv)
<1>1. PICK g : g = Plus(sg, c, from, mid, hi)
  OBVIOUS
<1>2. /\ DOMAIN g = DOMAIN sg \cup {c} /\ g[c].start = from /\ g[c].file_end = mid /\ g[c].mem_end = hi
      /\ \A x \in DOMAIN sg : x # c => g[x] = sg[x]
  BY <1>1 DEF Plus
<1>3. c \notin DOMAIN sg
  BY DEF Follows
<1>4. EndOf(g) = hi
  <2>1. CASE c = "rw"
    BY <1>2, <2>1 DEF EndOf
  <2>2. CASE c = "rx"
    <3>1. "rw" \notin DOMAIN sg
      BY <2>2 DEF Follows
    <3> QED BY <1>2, <2>2, <3>1 DEF EndOf
  <2> QED BY <2>1, <2>2
<1>5. PICK e : e = EndOf(sg)
  OBVIOUS
<1>6. e \in Nat /\ bv <= e /\ Packed(ss, bv, bv, e)
  BY <1>5 DEF Laid, Packed
<1>7. \A x \in DOMAIN sg : g[x] = sg[x] /\ IsSegment(sg[x], bv, e)
  BY <1>2, <1>3, <1>5 DEF Laid
<1>8. hi # 0
  <2>1. "ro" \in DOMAIN sg
    BY DEF Laid
  <2>2. IsSegment(sg["ro"], bv, e)
    BY <1>7, <2>1
  <2> QED BY <1>5, <1>6, <2>2 DEF IsSegment
<1>9. \A x \in DOMAIN g : IsSegment(g[x], bv, hi)
  <2> TAKE x \in DOMAIN g
  <2>1. CASE x = c
    BY <1>2, <1>5, <1>6, <1>8, <2>1 DEF IsSegment
  <2>2. CASE x \in DOMAIN sg
    <3>1. g[x] = sg[x] /\ IsSegment(sg[x], bv, e)
      BY <1>7, <2>2
    <3> QED BY <1>5, <1>6, <3>1 DEF IsSegment
  <2> QED BY <1>2, <2>1, <2>2
<1>10. ASSUME NEW x \in DOMAIN g, NEW y \in DOMAIN g, <<x, y>> \in Follows PROVE g[x].mem_end <= g[y].start
  <2>1. CASE x \in DOMAIN sg /\ y \in DOMAIN sg
    BY <1>7, <1>10, <2>1 DEF Laid
  <2>2. CASE x \in DOMAIN sg /\ y = c
    <3>1. g[x] = sg[x] /\ IsSegment(sg[x], bv, e)
      BY <1>7, <2>2
    <3> QED BY <1>2, <1>5, <1>6, <2>2, <3>1 DEF IsSegment
  <2>3. CASE x = c
    BY <1>2, <1>10, <2>3 DEF Follows
  <2> QED BY <1>2, <2>1, <2>2, <2>3
<1>11. PICK s : s = ss \o t
  OBVIOUS
<1>12. Packed(s, bv, bv, hi)
  BY <1>5, <1>6, <1>11, PackedConcat
<1>13. ASSUME NEW k \in 1 .. Len(s), IsLoaded(s[k]) PROVE InSegment(s[k], g)
  <2>1. PICK m, n : m = Len(ss) /\ n = Len(t)
    OBVIOUS
  <2>2. /\ m \in Nat /\ n \in Nat /\ Len(s) = m + n
        /\ \A i \in 1..m : s[i] = ss[i]
        /\ \A i \in 1..n : s[m + i] = t[i]
    BY <1>6, <1>11, <2>1, ConcatIsSeq DEF Packed
  <2>3. CASE k \in 1..m
    <3>1. s[k] = ss[k] /\ InSegment(ss[k], sg)
      BY <1>13, <2>1, <2>2, <2>3 DEF Laid
    <3> QED BY <1>2, <1>7, <3>1 DEF InSegment
  <2>4. CASE k \notin 1..m
    <3>1. PICK i : i = k - m
      OBVIOUS
    <3>2. i \in 1..n /\ s[k] = t[i]
      <4>1. i \in 1..n /\ k = m + i
        BY <2>2, <2>4, <3>1
      <4> QED BY <2>2, <4>1
    <3>3. InPlace(t[i], bv, from, hi) /\ PermOf(t[i].flags) = c /\ (~t[i].nobits => t[i].addr + t[i].size <= mid)
      BY <1>13, <2>1, <3>2 DEF Packed
    <3> QED BY <1>2, <3>2, <3>3 DEF InSegment, Inside, InPlace
  <2> QED BY <2>3, <2>4
<1>14. "ro" \in DOMAIN g /\ DOMAIN g \subseteq {"ro", "rx", "rw"}
  BY <1>2 DEF Laid
<1>15. Laid(s, g, bv)
  BY <1>4, <1>9, <1>10, <1>12, <1>13, <1>14 DEF Laid
<1> QED BY <1>1, <1>11, <1>15

(* The number of program headers is a number.                              *)
LEMMA HeadersWantedNat ==
  ASSUME IsProgram(prog)
  PROVE  HeadersWanted \in Nat
<1>1. \A b : Flag(b) \in Nat /\ Flag(b) <= 1
  BY DEF Flag
<1>2. PICK a, b, d, e, f, h, i, j : /\ a = Flag(prog.build_id) /\ b = Flag(prog.shared) /\ d = Flag(TlsWanted)
     /\ e = Flag(NFdes > 0) /\ f = Flag(IsMade(".note.gnu.property")) /\ h = Flag(prog.dynamic)
     /\ i = Flag(WantCores("rx") # {}) /\ j = Flag(WantCores("rw") \cup WantCores("bss") # {})
  OBVIOUS
<1>3. /\ a \in Nat /\ b \in 0..1 /\ d \in Nat /\ e \in Nat /\ f \in Nat /\ h \in Nat /\ i \in Nat /\ j \in Nat
  BY <1>1, <1>2
<1>4. HeadersWanted = 3 + a + (IF prog.dynamic THEN 2 - b ELSE 0) + d + e + f + h + i + j
  BY <1>2, Zenon DEF HeadersWanted
<1> QED BY <1>3, <1>4

-----------------------------------------------------------------------------
(* What placing a bucket brings.                                           *)
LEMMA PlacedBucket ==
  ASSUME IsProgram(prog), GroupInv, NEW c \in Classes, NEW bs, IsBuilders(bs), Cores(bs) \subseteq WantCores(c),
         NEW v \in Nat
  PROVE  /\ Packed(Place(bs, v), prog.base, v, End(bs, v)) /\ End(bs, v) \in Nat /\ v <= End(bs, v)
         /\ \A k \in 1 .. Len(Place(bs, v)) : Coherent(Place(bs, v)[k], c)
         /\ \A k \in 1 .. Len(Place(bs, v)) : IsLoaded(Place(bs, v)[k]) => Place(bs, v)[k].addr + Place(bs, v)[k].size <= End(bs, v)
<1>1. Packed(Place(bs, v), prog.base, v, End(bs, v)) /\ Len(Place(bs, v)) = Len(bs)
  BY PlacePacked
<1>2. \A k \in 1 .. Len(bs) : Coherent(Place(bs, v)[k], c)
  BY PlaceSuits
<1>3. PICK t, e : t = Place(bs, v) /\ e = End(bs, v)
  OBVIOUS
<1>4. /\ e \in Nat /\ v <= e /\ \A k \in 1 .. Len(t) : IsLoaded(t[k]) => InPlace(t[k], prog.base, v, e)
  BY <1>1, <1>3 DEF Packed
<1>5. \A k \in 1 .. Len(t) : IsLoaded(t[k]) => t[k].addr + t[k].size <= e
  BY <1>4 DEF InPlace
<1> QED BY <1>1, <1>2, <1>3, <1>4, <1>5

(* The image begins on a page.                                             *)
LEMMA BaseMultiple ==
  ASSUME Accepted, pc \notin NoLayout
  PROVE  prog.base \in Nat /\ prog.base % PageSize = 0 /\ IsProgram(prog)
<1>1. prog \in Programs /\ ~prog.relocatable
  BY DEF Accepted
<1>2. IsProgram(prog)
  BY <1>1, ProgramsAssumption
<1>3. prog.base \in Nat
  BY <1>2 DEF IsProgram
<1> QED BY <1>1, <1>2, <1>3, LayoutSizesAssumption

(* The first segment, with the headers.                                    *)
LEMMA ReadOnlyLaid ==
  ASSUME Accepted, pc \notin NoLayout, GroupInv, BucketInv, NothingPlaced, HeadersKnown, PlaceReadOnly
  PROVE  Laid(sections', seg', prog.base)
<1>1. PICK start, end, bv, bs : /\ start = prog.base + EHDR_SIZE + lay.phnum * PHDR_SIZE
                        /\ end = End(bucket["ro"], start) /\ bv = prog.base /\ bs = bucket["ro"]
  OBVIOUS
<1>2. seg' = Segment("ro", bv, end, end) /\ sections' = sections \o Place(bs, start)
  BY <1>1, Zenon DEF PlaceReadOnly, Placed
<1>3. IsProgram(prog) /\ bv \in Nat /\ bv % PageSize = 0
  BY <1>1, BaseMultiple
<1>4. start \in Nat /\ bv <= start /\ start # 0
  <2>1. lay.phnum \in Nat
    BY <1>3, HeadersWantedNat DEF HeadersKnown
  <2> QED BY <1>1, <1>3, <2>1 DEF EHDR_SIZE, PHDR_SIZE
<1>5. IsBuilders(bs) /\ Cores(bs) = WantCores("ro") /\ "ro" \in Classes
  BY <1>1 DEF BucketInv, Classes
<1>6. PICK t : t = Place(bs, start)
  OBVIOUS
<1>7. /\ Packed(t, bv, start, end) /\ end \in Nat /\ start <= end
      /\ \A k \in 1 .. Len(t) : Coherent(t[k], "ro")
  BY <1>1, <1>3, <1>4, <1>5, <1>6, PlacedBucket
<1>8. PICK g, s : g = seg' /\ s = sections'
  OBVIOUS
<1>9. DOMAIN g = {"ro"} /\ g["ro"] = [start |-> bv, file_end |-> end, mem_end |-> end]
  BY <1>2, <1>8 DEF Segment, NothingPlaced
<1>10. EndOf(g) = end
  BY <1>9 DEF EndOf
<1>11. \A c \in DOMAIN g : IsSegment(g[c], bv, end)
  BY <1>3, <1>4, <1>7, <1>9 DEF IsSegment
<1>12. s = << >> \o t
  BY <1>2, <1>6, <1>8 DEF NothingPlaced
<1>13. Packed(<< >>, bv, bv, bv)
  BY <1>3, NonePacked
<1>14. Packed(s, bv, bv, end)
  BY <1>4, <1>7, <1>12, <1>13, PackedConcat
<1>15. s = t
  <2>1. t \in Seq(ToSet(t))
    BY <1>7 DEF Packed, IsSeq
  <2> HIDE DEF ToSet
  <2> QED BY <1>12, <2>1
<1>16. ASSUME NEW k \in 1 .. Len(s), IsLoaded(s[k]) PROVE InSegment(s[k], g)
  <2>1. InPlace(s[k], bv, bv, end)
    BY <1>14, <1>16 DEF Packed
  <2>2. PermOf(s[k].flags) = "ro"
    BY <1>7, <1>15, <1>16 DEF Coherent, Suits, PermOfClass
  <2> QED BY <1>9, <2>1, <2>2 DEF InSegment, Inside, InPlace
<1>17. \A c, d \in DOMAIN g : <<c, d>> \notin Follows
  BY <1>9 DEF Follows
<1>18. Laid(s, g, bv)
  BY <1>9, <1>10, <1>11, <1>14, <1>16, <1>17 DEF Laid
<1> QED BY <1>1, <1>8, <1>18

LEMMA NothingLaid ==
  ASSUME NEW ss, NEW sg, NEW bv, Laid(ss, sg, bv), NEW t, t = << >>
  PROVE  ss \o t = ss
<1>1. ss \in Seq(ToSet(ss))
  BY DEF Laid, Packed, IsSeq
<1> HIDE DEF ToSet
<1> QED BY <1>1

LEMMA PlaceNothing ==
  ASSUME NEW bs, IsBuilders(bs), NEW v \in Nat
  PROVE  bs = << >> => Place(bs, v) = << >> /\ End(bs, v) = v
<1> SUFFICES ASSUME bs = << >> PROVE Place(bs, v) = << >> /\ End(bs, v) = v
  OBVIOUS
<1>1. Len(bs) = 0 /\ DOMAIN bs = {}
  OBVIOUS
<1>2. Place(bs, v) = << >>
  BY <1>1 DEF Place
<1>3. End(bs, v) = v
  BY <1>1, BuildersSized, EndsFacts DEF End
<1> QED BY <1>2, <1>3

(* The code begins on a page of its own.                                   *)
LEMMA ExecutableLaid ==
  ASSUME Accepted, pc \notin NoLayout, GroupInv, BucketInv, RoPlaced, Laid(sections, seg, prog.base), PlaceExecutable
  PROVE  Laid(sections', seg', prog.base) /\ EndOf(seg') = SegmentEnd'
<1>1. PICK start, end, bv, bs : /\ start = AlignUp(seg["ro"].mem_end, PageSize)
                        /\ end = End(bucket["rx"], start) /\ bv = prog.base /\ bs = bucket["rx"]
  OBVIOUS
<1>2. /\ seg' = IF bs = << >> THEN seg ELSE Segment("rx", start, end, end)
      /\ sections' = sections \o Place(bs, start)
  BY <1>1, Zenon DEF PlaceExecutable, Placed
<1>3. IsProgram(prog) /\ bv \in Nat
  BY <1>1, BaseMultiple
<1>4. PICK e : e = seg["ro"].mem_end
  OBVIOUS
<1>5. DOMAIN seg = {"ro"} /\ e \in Nat /\ EndOf(seg) = e
  <2>1. DOMAIN seg = {"ro"}
    BY DEF RoPlaced
  <2>2. EndOf(seg) = e
    BY <1>4, <2>1 DEF EndOf
  <2>3. IsSegment(seg["ro"], bv, EndOf(seg))
    BY <1>1, <2>1 DEF Laid
  <2> QED BY <1>4, <2>1, <2>2, <2>3 DEF IsSegment
<1>6. PageSize \in Nat \ {0}
  BY LayoutSizesAssumption
<1>7. start \in Nat /\ e <= start /\ start % PageSize = 0
  BY <1>1, <1>4, <1>5, <1>6, AlignUpFacts, AlignUpMultiple
<1>8. IsBuilders(bs) /\ Cores(bs) = WantCores("rx") /\ "rx" \in Classes
  BY <1>1 DEF BucketInv, Classes
<1>9. PICK t : t = Place(bs, start)
  OBVIOUS
<1>10. /\ Packed(t, bv, start, end) /\ end \in Nat /\ start <= end
       /\ \A k \in 1 .. Len(t) : Coherent(t[k], "rx")
       /\ \A k \in 1 .. Len(t) : IsLoaded(t[k]) => t[k].addr + t[k].size <= end
  BY <1>1, <1>3, <1>7, <1>8, <1>9, PlacedBucket
<1>11. \A k \in 1 .. Len(t) : PermOf(t[k].flags) = "rx"
  BY <1>10 DEF Coherent, Suits, PermOfClass
<1>12. DOMAIN seg' \subseteq {"ro", "rx"}
  <2>1. DOMAIN Segment("rx", start, end, end) = DOMAIN seg \cup {"rx"}
    BY SegmentDomain, Zenon
  <2> QED BY <1>2, <1>5, <2>1
<1>13. EndOf(seg') = SegmentEnd'
  BY <1>12 DEF EndOf, SegmentEnd
<1>14. CASE bs = << >>
  <2>1. Place(bs, start) = << >> /\ seg' = seg
    BY <1>2, <1>7, <1>8, <1>14, PlaceNothing
  <2>2. sections \o Place(bs, start) = sections
    BY <2>1, NothingLaid
  <2>3. sections' = sections
    BY <1>2, <2>2
  <2> QED BY <1>13, <2>1, <2>3
<1>15. CASE bs # << >>
  <2>1. seg' = Plus(seg, "rx", start, end, end)
    BY <1>2, <1>15 DEF Segment, Plus
  <2>2. \A x \in DOMAIN seg : <<x, "rx">> \in Follows
    BY <1>5 DEF Follows
  <2>3. Laid(sections, seg, bv)
    BY <1>1
  <2>4. Laid(sections \o t, Plus(seg, "rx", start, end, end), bv)
    BY <1>3, <1>5, <1>7, <1>10, <1>11, <2>2, <2>3, LaidGrows
  <2> QED BY <1>1, <1>2, <1>9, <1>13, <2>1, <2>4
<1> QED BY <1>13, <1>14, <1>15

-----------------------------------------------------------------------------
(* A member of a concatenation comes from one of its parts.                *)
LEMMA MembersOfConcat ==
  ASSUME NEW a, NEW b, IsSeq(a), IsSeq(b)
  PROVE  /\ IsSeq(a \o b)
         /\ \A k \in 1 .. Len(a \o b) : \/ \E i \in 1 .. Len(a) : (a \o b)[k] = a[i]
                                        \/ \E i \in 1 .. Len(b) : (a \o b)[k] = b[i]
<1>1. PICK c, m, n : c = a \o b /\ m = Len(a) /\ n = Len(b)
  OBVIOUS
<1>2. /\ IsSeq(c) /\ m \in Nat /\ n \in Nat /\ Len(c) = m + n
      /\ \A i \in 1..m : c[i] = a[i]
      /\ \A i \in 1..n : c[m + i] = b[i]
  BY <1>1, ConcatIsSeq
<1>3. ASSUME NEW k \in 1 .. Len(c) PROVE (\E i \in 1..m : c[k] = a[i]) \/ (\E i \in 1..n : c[k] = b[i])
  <2>1. CASE k \in 1..m
    BY <1>2, <2>1
  <2>2. CASE k \notin 1..m
    <3>1. PICK i : i = k - m
      OBVIOUS
    <3>2. i \in 1..n /\ k = m + i
      BY <1>2, <2>2, <3>1
    <3> QED BY <1>2, <3>2
  <2> QED BY <2>1, <2>2
<1> QED BY <1>1, <1>2, <1>3

(* RELRO sections have pages of their own.                                 *)
IsVar(s) == {"A", "W"} \subseteq s.flags
Fenced(s, lo, d) == IF IsRelro(s) THEN lo <= s.addr /\ s.addr + s.size <= d ELSE s.addr + s.size <= lo \/ d <= s.addr
RelroLaid(ss) ==
  \E lo, d \in Nat : /\ lo % PageSize = 0 /\ d % PageSize = 0 /\ lo <= d
                     /\ \A k \in 1 .. Len(ss) : IsVar(ss[k]) => Fenced(ss[k], lo, d)

(* Where the RELRO sections of the sorted bucket end.                      *)
LEMMA RelroSplit ==
  ASSUME NEW bs, IsBuilders(bs), RelroSorted(bs), NEW m, m = Min({k \in DOMAIN bs : ~IsRelro(bs[k])} \cup {Len(bs) + 1})
  PROVE  /\ m \in 1 .. Len(bs) + 1
         /\ \A k \in 1 .. Len(bs) : IF k < m THEN IsRelro(bs[k]) ELSE ~IsRelro(bs[k])
<1>1. PICK n, S : n = Len(bs) /\ S = {k \in DOMAIN bs : ~IsRelro(bs[k])} \cup {Len(bs) + 1}
  OBVIOUS
<1>2. n \in Nat /\ DOMAIN bs = 1..n
  BY <1>1, BuildersSized
<1>3. S \in SUBSET (1 .. n + 1) /\ S \in SUBSET Nat /\ S # {}
  BY <1>1, <1>2
<1>4. m \in S /\ \A k \in S : m <= k
  BY <1>1, <1>3, MinOf
<1>5. ASSUME NEW k \in 1..n PROVE IF k < m THEN IsRelro(bs[k]) ELSE ~IsRelro(bs[k])
  <2>1. CASE k < m
    <3>1. k \notin S
      BY <1>3, <1>4, <2>1
    <3> QED BY <1>1, <1>2, <2>1, <3>1
  <2>2. CASE ~(k < m)
    <3>1. m \in 1..n /\ m <= k
      BY <1>2, <1>3, <1>4, <2>2
    <3>2. ~IsRelro(bs[m])
      BY <1>1, <1>2, <1>4, <3>1
    <3>3. m = k \/ m < k
      BY <3>1
    <3> QED BY <1>1, <2>2, <3>1, <3>2, <3>3 DEF RelroSorted
  <2> QED BY <2>1, <2>2
<1> QED BY <1>1, <1>3, <1>4, <1>5

(* Nothing placed before is a RELRO section.                               *)
LEMMA NoRelroYet ==
  ASSUME IsProgram(prog), GroupInv, RxPlaced, NEW k \in 1 .. Len(sections), IsLoaded(sections[k])
  PROVE  ~IsRelro(sections[k])
<1>1. PICK s : s = sections[k]
  OBVIOUS
<1>2. (Core(s) \in WantCores("ro") \cup WantCores("rx")) \/ IsMeta(s)
  BY <1>1 DEF RxPlaced, SectionsAre
<1>3. ~IsMeta(s)
  BY <1>1 DEF IsMeta, IsLoaded
<1>4. Suits(Core(s), "ro") \/ Suits(Core(s), "rx")
  BY <1>2, <1>3, WantSuits DEF Classes
<1>5. ~IsRelro(Core(s))
  BY <1>4 DEF Suits
<1> QED BY <1>1, <1>5 DEF Core, IsRelro

LEMMA SameName ==
  ASSUME NEW bs, IsBuilders(bs), NEW v, NEW k \in 1 .. Len(bs)
  PROVE  IsRelro(Place(bs, v)[k]) <=> IsRelro(bs[k])
<1>1. Place(bs, v)[k].name = bs[k].name
  BY PlaceFields DEF Fields
<1> QED BY <1>1 DEF IsRelro

(* Writable data: RELRO sections, other data, zeroes.                      *)
LEMMA WritableLaid ==
  ASSUME Accepted, pc \notin NoLayout, GroupInv, BucketInv, RxPlaced, RelroSorted(bucket["rw"]),
         Laid(sections, seg, prog.base), PlaceWritable
  PROVE  Laid(sections', seg', prog.base) /\ RelroLaid(sections')
<1>1. PICK rw, zero, split, bv : /\ rw = bucket["rw"] /\ zero = bucket["bss"] /\ bv = prog.base
                             /\ split = Min({k \in DOMAIN rw : ~IsRelro(rw[k])} \cup {Len(rw) + 1})
  OBVIOUS
<1>2. PICK relro, rest, start : /\ relro = SubSeq(rw, 1, split - 1) /\ rest = SubSeq(rw, split, Len(rw))
                                /\ start = AlignUp(SegmentEnd, PageSize)
  OBVIOUS
<1>3. PICK data : data = IF rest = << >> /\ zero = << >> THEN End(relro, start) ELSE AlignUp(End(relro, start), PageSize)
  OBVIOUS
<1>4. PICK bss, hi : bss = End(rest, data) /\ hi = End(zero, bss)
  OBVIOUS
<1>5. /\ seg' = (IF rw \o zero = << >> THEN seg ELSE Segment("rw", start, bss, hi))
      /\ sections' = sections \o (Place(relro, start) \o Place(rest, data) \o Place(zero, bss))
  BY <1>1, <1>2, <1>3, <1>4, Zenon DEF PlaceWritable, Placed
<1>6. IsProgram(prog) /\ bv \in Nat /\ PageSize \in Nat \ {0}
  BY <1>1, BaseMultiple, LayoutSizesAssumption
<1>7. PICK e : e = EndOf(seg)
  OBVIOUS
<1>8. e \in Nat /\ Packed(sections, bv, bv, e) /\ e = SegmentEnd
  <2>1. "rw" \notin DOMAIN seg
    BY DEF RxPlaced
  <2>2. Packed(sections, bv, bv, e)
    BY <1>1, <1>7 DEF Laid
  <2> QED BY <1>7, <2>1, <2>2 DEF EndOf, SegmentEnd, Packed
<1>9. start \in Nat /\ e <= start /\ start % PageSize = 0
  BY <1>2, <1>6, <1>8, AlignUpFacts, AlignUpMultiple
<1>10. /\ IsBuilders(rw) /\ Cores(rw) = WantCores("rw") /\ IsBuilders(zero) /\ Cores(zero) = WantCores("bss")
       /\ "rw" \in Classes /\ "bss" \in Classes
  BY <1>1 DEF BucketInv, Classes
<1>11. /\ split \in 1 .. Len(rw) + 1
       /\ \A k \in 1 .. Len(rw) : IF k < split THEN IsRelro(rw[k]) ELSE ~IsRelro(rw[k])
  BY <1>1, <1>10, RelroSplit
<1>12. /\ IsBuilders(relro) /\ IsBuilders(rest) /\ Cores(relro) \cup Cores(rest) = WantCores("rw")
       /\ \A k \in 1 .. Len(relro) : \E i \in 1 .. Len(rw) : i < split /\ relro[k] = rw[i]
       /\ \A k \in 1 .. Len(rest) : \E i \in 1 .. Len(rw) : split <= i /\ rest[k] = rw[i]
  BY <1>2, <1>10, <1>11, SplitBuilders
<1>13. Len(rw) \in Nat /\ split \in Nat
  BY <1>10, <1>11, BuildersSized
<1>14. \A k \in 1 .. Len(relro) : IsRelro(relro[k])
  BY <1>11, <1>12, <1>13
<1>15. \A k \in 1 .. Len(rest) : ~IsRelro(rest[k])
  BY <1>11, <1>12, <1>13
<1>16. PICK x, y, z, u, t : /\ x = Place(relro, start) /\ y = Place(rest, data) /\ z = Place(zero, bss)
                            /\ u = x \o y /\ t = u \o z
  OBVIOUS
<1>17. PICK er, d : er = End(relro, start) /\ d = AlignUp(er, PageSize)
  OBVIOUS
<1>18. /\ Packed(x, bv, start, er) /\ er \in Nat /\ start <= er
       /\ \A k \in 1 .. Len(x) : Coherent(x[k], "rw")
       /\ \A k \in 1 .. Len(x) : IsLoaded(x[k]) => x[k].addr + x[k].size <= er
  BY <1>1, <1>6, <1>9, <1>10, <1>12, <1>16, <1>17, PlacedBucket
<1>19. d \in Nat /\ er <= d /\ d % PageSize = 0 /\ data \in Nat /\ er <= data
  <2>1. d \in Nat /\ er <= d /\ d % PageSize = 0
    BY <1>6, <1>17, <1>18, AlignUpFacts, AlignUpMultiple
  <2> QED BY <1>3, <1>17, <1>18, <2>1
<1>20. /\ Packed(y, bv, data, bss) /\ bss \in Nat /\ data <= bss
       /\ \A k \in 1 .. Len(y) : Coherent(y[k], "rw")
       /\ \A k \in 1 .. Len(y) : IsLoaded(y[k]) => y[k].addr + y[k].size <= bss
  BY <1>1, <1>4, <1>6, <1>10, <1>12, <1>16, <1>19, PlacedBucket
<1>21. /\ Packed(z, bv, bss, hi) /\ hi \in Nat /\ bss <= hi
       /\ \A k \in 1 .. Len(z) : Coherent(z[k], "bss")
  BY <1>1, <1>4, <1>6, <1>10, <1>16, <1>20, PlacedBucket
<1>22. Packed(u, bv, start, bss)
  BY <1>16, <1>18, <1>19, <1>20, PackedConcat
<1>23. Packed(t, bv, start, hi)
  BY <1>16, <1>20, <1>21, <1>22, PackedConcat
<1>24. \A k \in 1 .. Len(t) : \/ \E i \in 1 .. Len(x) : t[k] = x[i]
                              \/ \E i \in 1 .. Len(y) : t[k] = y[i]
                              \/ \E i \in 1 .. Len(z) : t[k] = z[i]
  <2>1. \A k \in 1 .. Len(u) : (\E i \in 1 .. Len(x) : u[k] = x[i]) \/ (\E i \in 1 .. Len(y) : u[k] = y[i])
    BY <1>16, <1>18, <1>20, MembersOfConcat DEF Packed
  <2>2. \A k \in 1 .. Len(t) : (\E i \in 1 .. Len(u) : t[k] = u[i]) \/ (\E i \in 1 .. Len(z) : t[k] = z[i])
    BY <1>16, <1>21, <1>22, MembersOfConcat DEF Packed
  <2> TAKE k \in 1 .. Len(t)
  <2>3. CASE \E i \in 1 .. Len(u) : t[k] = u[i]
    <3>1. PICK j \in 1 .. Len(u) : t[k] = u[j]
      BY <2>3
    <3>2. (\E i \in 1 .. Len(x) : u[j] = x[i]) \/ (\E i \in 1 .. Len(y) : u[j] = y[i])
      BY <2>1
    <3> QED BY <3>1, <3>2
  <2>4. CASE \E i \in 1 .. Len(z) : t[k] = z[i]
    BY <2>4
  <2> QED BY <2>2, <2>3, <2>4
<1>25. sections' = sections \o t
  BY <1>5, <1>16, Zenon
<1>26. ASSUME NEW k \in 1 .. Len(t), IsLoaded(t[k])
       PROVE  PermOf(t[k].flags) = "rw" /\ (~t[k].nobits => t[k].addr + t[k].size <= bss)
  <2>1. CASE \E i \in 1 .. Len(x) : t[k] = x[i]
    <3>1. PICK i \in 1 .. Len(x) : t[k] = x[i]
      BY <2>1
    <3>2. Coherent(x[i], "rw") /\ InPlace(x[i], bv, start, er)
      BY <1>18, <1>26, <3>1 DEF Packed
    <3> QED BY <1>18, <1>19, <1>20, <3>1, <3>2 DEF Coherent, Suits, PermOfClass, InPlace
  <2>2. CASE \E i \in 1 .. Len(y) : t[k] = y[i]
    <3>1. PICK i \in 1 .. Len(y) : t[k] = y[i]
      BY <2>2
    <3>2. Coherent(y[i], "rw") /\ InPlace(y[i], bv, data, bss)
      BY <1>20, <1>26, <3>1 DEF Packed
    <3> QED BY <3>1, <3>2 DEF Coherent, Suits, PermOfClass, InPlace
  <2>3. CASE \E i \in 1 .. Len(z) : t[k] = z[i]
    <3>1. PICK i \in 1 .. Len(z) : t[k] = z[i]
      BY <2>3
    <3>2. Coherent(z[i], "bss")
      BY <1>21, <3>1
    <3> QED BY <3>1, <3>2 DEF Coherent, Suits, PermOfClass
  <2> QED BY <1>24, <2>1, <2>2, <2>3
<1>27. Laid(sections', seg', bv)
  <2>1. CASE rw \o zero = << >>
    <3>1. IsBuilders(rw \o zero) /\ Cores(rw \o zero) = Cores(rw) \cup Cores(zero)
      BY <1>10, BuildersConcat
    <3>2. Cores(rw) = {} /\ Cores(zero) = {}
      BY <2>1, <3>1, EmptyCores
    <3>3. Cores(relro) = {} /\ Cores(rest) = {}
      BY <1>10, <1>12, <3>2
    <3>4. relro = << >> /\ rest = << >> /\ zero = << >>
      BY <1>10, <1>12, <3>2, <3>3, EmptyCores
    <3>5. x = << >> /\ y = << >> /\ z = << >>
      BY <1>9, <1>10, <1>12, <1>16, <1>19, <1>20, <3>4, PlaceNothing
    <3>6. t = << >>
      BY <1>16, <3>5
    <3>7. sections \o t = sections
      BY <3>6, NothingLaid
    <3> QED BY <1>1, <1>5, <1>25, <2>1, <3>7
  <2>2. CASE rw \o zero # << >>
    <3>1. seg' = Plus(seg, "rw", start, bss, hi)
      BY <1>5, <2>2 DEF Segment, Plus
    <3>2. \A c \in DOMAIN seg : <<c, "rw">> \in Follows
      BY DEF Laid, RxPlaced, Follows
    <3>3. Laid(sections, seg, bv)
      BY <1>1
    <3>4. start <= bss
      BY <1>9, <1>18, <1>19, <1>20
    <3>5. Laid(sections \o t, Plus(seg, "rw", start, bss, hi), bv)
      BY <1>6, <1>7, <1>8, <1>9, <1>20, <1>21, <1>23, <1>26, <3>2, <3>3, <3>4, LaidGrows
    <3> QED BY <1>25, <3>1, <3>5
  <2> QED BY <2>1, <2>2
<1>28. PICK s : s = sections \o t
  OBVIOUS
<1>29. ASSUME NEW k \in 1 .. Len(s), IsVar(s[k]) PROVE Fenced(s[k], start, d)
  <2>0. IsLoaded(s[k])
    BY <1>29 DEF IsVar, IsLoaded
  <2>1. (\E i \in 1 .. Len(sections) : s[k] = sections[i]) \/ (\E i \in 1 .. Len(t) : s[k] = t[i])
    BY <1>8, <1>23, <1>28, MembersOfConcat DEF Packed
  <2>2. CASE \E i \in 1 .. Len(sections) : s[k] = sections[i]
    <3>1. PICK i \in 1 .. Len(sections) : s[k] = sections[i]
      BY <2>2
    <3>2. ~IsRelro(sections[i]) /\ InPlace(sections[i], bv, bv, e)
      BY <1>6, <1>8, <2>0, <3>1, NoRelroYet DEF Packed
    <3>3. sections[i].addr + sections[i].size <= start
      BY <1>8, <1>9, <3>2 DEF InPlace
    <3> QED BY <3>1, <3>2, <3>3 DEF Fenced
  <2>3. CASE \E i \in 1 .. Len(x) : s[k] = x[i]
    <3>1. PICK i \in 1 .. Len(x) : s[k] = x[i]
      BY <2>3
    <3>2. InPlace(x[i], bv, start, er)
      BY <1>18, <2>0, <3>1 DEF Packed
    <3>3. IsRelro(x[i])
      <4>1. Len(x) = Len(relro)
        BY <1>9, <1>12, <1>16, PlacePacked
      <4> QED BY <1>12, <1>14, <1>16, <4>1, SameName
    <3>4. start <= x[i].addr /\ x[i].addr + x[i].size <= d
      BY <1>18, <1>19, <3>2 DEF InPlace
    <3> QED BY <3>1, <3>3, <3>4 DEF Fenced
  <2>4. CASE \E i \in 1 .. Len(y) : s[k] = y[i]
    <3>1. PICK i \in 1 .. Len(y) : s[k] = y[i]
      BY <2>4
    <3>2. InPlace(y[i], bv, data, bss)
      BY <1>20, <2>0, <3>1 DEF Packed
    <3>3. Len(y) = Len(rest)
      BY <1>12, <1>16, <1>19, PlacePacked
    <3>4. ~IsRelro(y[i]) /\ rest # << >>
      BY <1>12, <1>15, <1>16, <3>3, SameName
    <3>5. data = d
      BY <1>3, <1>17, <3>4
    <3> QED BY <3>1, <3>2, <3>4, <3>5 DEF Fenced, InPlace
  <2>5. CASE \E i \in 1 .. Len(z) : s[k] = z[i]
    <3>1. PICK i \in 1 .. Len(z) : s[k] = z[i]
      BY <2>5
    <3>2. InPlace(z[i], bv, bss, hi) /\ Coherent(z[i], "bss")
      BY <1>21, <2>0, <3>1 DEF Packed
    <3>3. Len(z) = Len(zero)
      BY <1>10, <1>16, <1>20, PlacePacked
    <3>4. ~IsRelro(z[i]) /\ zero # << >>
      BY <3>2, <3>3 DEF Coherent, Suits
    <3>5. data = d
      BY <1>3, <1>17, <3>4
    <3>6. d <= z[i].addr
      BY <1>19, <1>20, <3>2, <3>5 DEF InPlace
    <3> QED BY <3>1, <3>4, <3>6 DEF Fenced
  <2> QED BY <1>24, <2>1, <2>2, <2>3, <2>4, <2>5
<1>30. RelroLaid(s)
  <2>1. start <= d
    BY <1>9, <1>18, <1>19
  <2> QED BY <1>9, <1>19, <1>29, <2>1 DEF RelroLaid
<1> QED BY <1>1, <1>25, <1>27, <1>28, <1>30

-----------------------------------------------------------------------------
(* PT_GNU_RELRO.                                                           *)
LEMMA SortByAddr ==
  ASSUME NEW s, NEW n \in Nat, NEW I \in SUBSET (1..n), \A i \in I : s[i].addr \in Nat
  PROVE  Holds(SortAt(s, I, ByAddr), s, I)
<1> DEFINE a == [i \in I |-> s[i].addr]
           z == [i \in I |-> 0]
           order == {x \in I \X I : ByAddr(s[x[1]], s[x[2]]) \/ (x[1] <= x[2] /\ ~ByAddr(s[x[2]], s[x[1]]))}
<1>2. a \in [I -> Int] /\ z \in [I -> Int]
  OBVIOUS
<1>4. \A i, j \in I : ByAddr(s[i], s[j]) <=> Smaller(a, z, z, i, j)
  BY DEF ByAddr, Smaller
<1>5. \A i, j \in I : <<i, j>> \in order <=> ByAddr(s[i], s[j]) \/ (i <= j /\ ~ByAddr(s[j], s[i]))
  OBVIOUS
<1>6. \A i, j \in I : <<i, j>> \in order <=> Smaller(a, z, z, i, j) \/ (i <= j /\ ~Smaller(a, z, z, j, i))
  <2> HIDE DEF a, z, order
  <2> QED BY <1>4, <1>5
<1>7. SortAt(s, I, ByAddr) = Arranged(s, I, order)
  BY DEF SortAt
<1> HIDE DEF a, z, order
<1>8. IsFiniteSet(I) /\ I \in SUBSET Nat
  BY FinitePositions
<1>9. TotalOrder(I, order)
  BY <1>2, <1>6, <1>8, StableOrder
<1>10. Holds(Arranged(s, I, order), s, I)
  BY <1>8, <1>9, ArrangedHolds
<1> QED BY <1>7, <1>10

(* A run that begins at a has an end.                                      *)
LEMMA RunEnds ==
  ASSUME NEW n \in Nat, NEW a \in 1..n, NEW A
  PROVE  \E m \in a .. n : (\A k \in a + 1 .. m : k \in A) /\ (m = n \/ m + 1 \notin A)
<1> DEFINE S == {m \in a..n : \A k \in a + 1 .. m : k \in A}
<1>1. a \in S /\ S \in SUBSET (0..n)
  OBVIOUS
<1>2. PICK m \in S : \A x \in S : x <= m
  <2>1. S # {}
    BY <1>1
  <2> HIDE DEF S
  <2> QED BY <1>1, <2>1, GreatestNat
<1>3. m \in a..n /\ \A k \in a + 1 .. m : k \in A
  OBVIOUS
<1>4. ASSUME m # n, m + 1 \in A PROVE FALSE
  <2>1. m + 1 \in a..n
    BY <1>3, <1>4
  <2>2. \A k \in a + 1 .. m + 1 : k \in A
    <3> TAKE k \in a + 1 .. m + 1
    <3>1. k = m + 1 \/ k \in a + 1 .. m
      BY <1>3
    <3> QED BY <1>3, <1>4, <3>1
  <2>3. m + 1 \in S
    BY <2>1, <2>2
  <2> QED BY <1>2, <1>3, <2>3
<1> QED BY <1>3, <1>4

(* The header spans from one RELRO section to another one.                 *)
LEMMA RunOfRelro ==
  ASSUME NEW bv, NEW lo, NEW hi, Packed(sections, bv, lo, hi)
  PROVE  \E h : /\ RelroRun = <<h>> /\ h.type = "RELRO"
                /\ \/ h.va = 0 /\ h.memsz = 0
                   \/ \E i, j \in 1 .. Len(sections) :
                        /\ IsVar(sections[i]) /\ IsRelro(sections[i]) /\ IsVar(sections[j]) /\ IsRelro(sections[j])
                        /\ h.va = sections[i].addr /\ h.va + h.memsz = sections[j].addr + sections[j].size
<1> DEFINE I == {k \in DOMAIN sections : {"A", "W"} \subseteq sections[k].flags}
           rw == SortAt(sections, I, ByAddr)
           firsts == {k \in DOMAIN rw : IsRelro(rw[k])}
           adjacent(k) == IsRelro(rw[k]) /\ rw[k].addr = rw[k - 1].addr + rw[k - 1].size
           k0 == Min(firsts)
           last == CHOOSE m \in k0 .. Len(rw) :
                     /\ \A k \in k0 + 1 .. m : adjacent(k)
                     /\ m = Len(rw) \/ ~adjacent(m + 1)
           size == rw[last].addr + rw[last].size - rw[k0].addr
<1>1. RelroRun = IF firsts = {} THEN Header("RELRO", 0, 0, 0, 0, {"R"})
                 ELSE Header("RELRO", rw[k0].off, rw[k0].addr, size, size, {"R"})
  BY DEF RelroRun, Where
<1>2. Len(sections) \in Nat /\ DOMAIN sections = 1 .. Len(sections)
  BY DEF Packed, IsSeq
<1>3. I \in SUBSET (1 .. Len(sections)) /\ \A k \in I : IsVar(sections[k])
  BY <1>2 DEF IsVar
<1>4. \A k \in I : sections[k].addr \in Nat /\ sections[k].size \in Nat
  BY <1>3 DEF Packed, InPlace, IsLoaded, IsVar
<1>5. Holds(rw, sections, I)
  <2> HIDE DEF I
  <2> QED BY <1>2, <1>3, <1>4, SortByAddr
<1> HIDE DEF I, rw
<1>6. Len(rw) \in Nat /\ DOMAIN rw = 1 .. Len(rw)
  BY <1>5 DEF Holds, IsSeq
<1>7. ASSUME NEW k \in 1 .. Len(rw)
      PROVE  \E i \in 1 .. Len(sections) : IsVar(sections[i]) /\ rw[k] = sections[i] /\ rw[k].addr \in Nat /\ rw[k].size \in Nat
  <2>1. PICK i \in I : rw[k] = sections[i]
    BY <1>5 DEF Holds
  <2> QED BY <1>3, <1>4, <2>1
<1>8. CASE firsts = {}
  <2>1. PICK h : h = [type |-> "RELRO", off |-> 0, va |-> 0, filesz |-> 0, memsz |-> 0, flags |-> {"R"}]
    OBVIOUS
  <2>2. RelroRun = <<h>>
    BY <1>1, <1>8, <2>1 DEF Header
  <2> QED BY <2>1, <2>2
<1>9. CASE firsts # {}
  <2>1. k0 \in firsts
    <3>1. firsts \in SUBSET Nat
      BY <1>6
    <3> HIDE DEF firsts
    <3> QED BY <1>9, <3>1, MinOf
  <2>2. k0 \in 1 .. Len(rw) /\ IsRelro(rw[k0])
    BY <1>6, <2>1
  <2> HIDE DEF k0
  <2>3. \E m \in k0 .. Len(rw) : /\ \A k \in k0 + 1 .. m : adjacent(k)
                                 /\ m = Len(rw) \/ ~adjacent(m + 1)
    <3> DEFINE A == {k \in 1 .. Len(rw) : adjacent(k)}
    <3>1. \E m \in k0 .. Len(rw) : (\A k \in k0 + 1 .. m : k \in A) /\ (m = Len(rw) \/ m + 1 \notin A)
      <4> HIDE DEF A
      <4> QED BY <1>6, <2>2, RunEnds
    <3>2. PICK m \in k0 .. Len(rw) : (\A k \in k0 + 1 .. m : k \in A) /\ (m = Len(rw) \/ m + 1 \notin A)
      BY <3>1
    <3>3. m = Len(rw) \/ m + 1 \in 1 .. Len(rw)
      BY <1>6, <2>2, <3>2
    <3> HIDE DEF adjacent
    <3> QED BY <3>2, <3>3
  <2>4. last \in k0 .. Len(rw) /\ \A k \in k0 + 1 .. last : adjacent(k)
    <3> HIDE DEF adjacent
    <3> QED BY <2>3
  <2> HIDE DEF last
  <2>5. last \in 1 .. Len(rw) /\ IsRelro(rw[last])
    <3>1. last = k0 \/ last \in k0 + 1 .. last
      BY <1>6, <2>2, <2>4
    <3> QED BY <1>6, <2>2, <2>4, <3>1
  <2>6. PICK i \in 1 .. Len(sections) : IsVar(sections[i]) /\ rw[k0] = sections[i] /\ rw[k0].addr \in Nat
    BY <1>7, <2>2
  <2>7. PICK j \in 1 .. Len(sections) :
          IsVar(sections[j]) /\ rw[last] = sections[j] /\ rw[last].addr \in Nat /\ rw[last].size \in Nat
    BY <1>7, <2>5
  <2>8. PICK h : h = [type |-> "RELRO", off |-> rw[k0].off, va |-> rw[k0].addr, filesz |-> size, memsz |-> size, flags |-> {"R"}]
    OBVIOUS
  <2>9. RelroRun = <<h>>
    BY <1>1, <1>9, <2>8 DEF Header
  <2>10. h.va + h.memsz = rw[last].addr + rw[last].size
    BY <2>6, <2>7, <2>8
  <2>11. h.type = "RELRO" /\ h.va = rw[k0].addr
    BY <2>8
  <2> QED BY <2>2, <2>5, <2>6, <2>7, <2>9, <2>10, <2>11
<1> QED BY <1>8, <1>9

-----------------------------------------------------------------------------
(* The program headers that matter here: one per segment, and RELRO's.     *)
AccessOf(c) == IF c = "ro" THEN {"R"} ELSE IF c = "rx" THEN {"R", "X"} ELSE {"R", "W"}
LoadOf(g, bv, c) ==
  [type |-> "LOAD", off |-> g.start - bv, va |-> g.start, filesz |-> g.file_end - g.start,
   memsz |-> g.mem_end - g.start, flags |-> AccessOf(c)]
LoadsOf(sg, bv) == {LoadOf(sg[c], bv, c) : c \in DOMAIN sg}
RelroOf(h, ss) ==
  \/ h.va = 0 /\ h.memsz = 0
  \/ \E i, j \in 1 .. Len(ss) :
       /\ IsVar(ss[i]) /\ IsRelro(ss[i]) /\ IsVar(ss[j]) /\ IsRelro(ss[j])
       /\ h.va = ss[i].addr /\ h.va + h.memsz = ss[j].addr + ss[j].size
Sought(hs, L, ss, M) ==
  /\ IsSeq(hs)
  /\ \A k \in 1 .. Len(hs) : (hs[k].type = "LOAD" => hs[k] \in L) /\ (hs[k].type = "RELRO" => RelroOf(hs[k], ss))
  /\ \A x \in M : \E k \in 1 .. Len(hs) : hs[k] = x

LEMMA SoughtConcat ==
  ASSUME NEW a, NEW b, NEW L, NEW ss, NEW M, NEW N, Sought(a, L, ss, M), Sought(b, L, ss, N)
  PROVE  Sought(a \o b, L, ss, M \cup N)
<1>1. PICK c, m, n : c = a \o b /\ m = Len(a) /\ n = Len(b)
  OBVIOUS
<1>2. /\ IsSeq(c) /\ m \in Nat /\ n \in Nat /\ Len(c) = m + n
      /\ \A i \in 1..m : c[i] = a[i]
      /\ \A i \in 1..n : c[m + i] = b[i]
  BY <1>1, ConcatIsSeq DEF Sought
<1>3. \A k \in 1 .. Len(c) : (\E i \in 1..m : c[k] = a[i]) \/ (\E i \in 1..n : c[k] = b[i])
  BY <1>1, MembersOfConcat DEF Sought
<1>4. \A k \in 1 .. Len(c) : (c[k].type = "LOAD" => c[k] \in L) /\ (c[k].type = "RELRO" => RelroOf(c[k], ss))
  BY <1>1, <1>3 DEF Sought
<1>5. ASSUME NEW x \in M PROVE \E k \in 1 .. Len(c) : c[k] = x
  <2>1. PICK i \in 1..m : a[i] = x
    BY <1>1 DEF Sought
  <2>2. i \in 1 .. Len(c) /\ c[i] = a[i]
    BY <1>2
  <2> QED BY <2>1, <2>2
<1>6. ASSUME NEW x \in N PROVE \E k \in 1 .. Len(c) : c[k] = x
  <2>1. PICK i \in 1..n : b[i] = x
    BY <1>1 DEF Sought
  <2>2. m + i \in 1 .. Len(c) /\ c[m + i] = b[i]
    BY <1>2
  <2> QED BY <2>1, <2>2
<1> QED BY <1>1, <1>2, <1>4, <1>5, <1>6 DEF Sought

LEMMA OneSought ==
  ASSUME NEW h, NEW L, NEW ss, h.type = "LOAD" => h \in L, h.type = "RELRO" => RelroOf(h, ss)
  PROVE  Sought(<<h>>, L, ss, {h}) /\ Sought(<<h>>, L, ss, {})
<1>1. PICK s : s = <<h>>
  OBVIOUS
<1>2. IsSeq(s) /\ Len(s) = 1 /\ s[1] = h
  <2>1. s = [k \in 1..1 |-> s[k]] /\ s[1] = h
    BY <1>1
  <2> QED BY <2>1, FunctionIsSeq
<1>3. \A k \in 1 .. Len(s) : s[k] = h
  BY <1>2
<1> QED BY <1>1, <1>2, <1>3 DEF Sought

LEMMA NoneSought ==
  ASSUME NEW L, NEW ss
  PROVE  Sought(<< >>, L, ss, {})
<1>1. IsSeq(<< >>) /\ Len(<< >>) = 0
  BY EmptyBuilders DEF IsBuilders
<1> QED BY <1>1 DEF Sought

LEMMA OtherSought ==
  ASSUME NEW L, NEW ss, NEW type, type \notin {"LOAD", "RELRO"}, NEW off, NEW va, NEW filesz, NEW memsz, NEW flags
  PROVE  Sought(Header(type, off, va, filesz, memsz, flags), L, ss, {})
<1>1. PICK h : h = [type |-> type, off |-> off, va |-> va, filesz |-> filesz, memsz |-> memsz, flags |-> flags]
  OBVIOUS
<1>2. h.type = type /\ Header(type, off, va, filesz, memsz, flags) = <<h>>
  BY <1>1 DEF Header
<1> QED BY <1>2, OneSought

LEMMA OnlySought ==
  ASSUME NEW L, NEW ss, NEW s, Sought(s, L, ss, {}), NEW b
  PROVE  Sought(Only(b, s), L, ss, {})
<1>1. CASE b
  BY <1>1 DEF Only
<1>2. CASE ~b
  BY <1>2, NoneSought DEF Only
<1> QED BY <1>1, <1>2

LEMMA OfSectionSought ==
  ASSUME NEW L, NEW ss, NEW type, type \notin {"LOAD", "RELRO"}, NEW K, NEW flags
  PROVE  Sought(OfSection(type, K, flags), L, ss, {})
<1>1. PICK s : s = Header(type, sections[Min(K)].off, sections[Min(K)].addr, sections[Min(K)].size,
                          sections[Min(K)].size, flags)
  OBVIOUS
<1>2. Sought(s, L, ss, {})
  BY <1>1, OtherSought
<1>3. OfSection(type, K, flags) = Only(K # {}, s)
  BY <1>1, Zenon DEF OfSection, Only
<1> QED BY <1>2, <1>3, OnlySought

LEMMA LoadSought ==
  ASSUME NEW ss, NEW c
  PROVE  Sought(Load(c, AccessOf(c)), LoadsOf(seg, prog.base), ss,
                {LoadOf(seg[x], prog.base, x) : x \in DOMAIN seg \cap {c}})
<1>1. PICK h, L, M : /\ h = LoadOf(seg[c], prog.base, c) /\ L = LoadsOf(seg, prog.base)
                     /\ M = {LoadOf(seg[x], prog.base, x) : x \in DOMAIN seg \cap {c}}
  OBVIOUS
<1>2. Load(c, AccessOf(c)) = Only(c \in DOMAIN seg, <<h>>)
  BY <1>1, Zenon DEF Load, Header, LoadOf
<1>3. CASE c \in DOMAIN seg
  <2>1. h \in L /\ M = {h} /\ h.type = "LOAD"
    BY <1>1, <1>3 DEF LoadsOf, LoadOf
  <2>2. Sought(<<h>>, L, ss, M)
    BY <2>1, OneSought
  <2> QED BY <1>1, <1>2, <1>3, <2>2 DEF Only
<1>4. CASE c \notin DOMAIN seg
  <2>1. M = {}
    BY <1>1, <1>4
  <2> QED BY <1>1, <1>2, <1>4, <2>1, NoneSought DEF Only
<1> QED BY <1>3, <1>4

(* Every segment has its header, and there is no other PT_LOAD.            *)
LEMMA HeadersSought ==
  ASSUME Laid(sections, seg, prog.base)
  PROVE  Sought(Headers, LoadsOf(seg, prog.base), sections, LoadsOf(seg, prog.base))
<1>1. PICK L, ss : L = LoadsOf(seg, prog.base) /\ ss = sections
  OBVIOUS
<1>2. PICK p1, p2, p3 :
        /\ p1 = Header("PHDR", EHDR_SIZE, prog.base + EHDR_SIZE, lay.phnum * PHDR_SIZE, lay.phnum * PHDR_SIZE, {"R"})
        /\ p2 = Only(prog.dynamic, OfSection("INTERP", FindSource(".interp"), {"R"}))
        /\ p3 = Only(prog.build_id, OfSection("NOTE", FindSource(".note.gnu.build-id"), {"R"}))
  OBVIOUS
<1>3. PICK p4, p5, p6 : p4 = Load("ro", {"R"}) /\ p5 = Load("rx", {"R", "X"}) /\ p6 = Load("rw", {"R", "W"})
  OBVIOUS
<1>4. PICK p7, p8, p9 :
        /\ p7 = OfSection("GNU_PROPERTY", Named(".note.gnu.property"), {"R"})
        /\ p8 = Only(prog.dynamic, OfSection("DYNAMIC", FindSource(".dynamic"), {"R", "W"}))
        /\ p9 = Only(lay.tls_size > 0, Header("TLS", lay.tls.block[1].off, lay.tls.block[1].addr, lay.tls.filesz, lay.tls_size, {"R"}))
  OBVIOUS
<1>5. PICK p10, p11, p12 :
        /\ p10 = OfSection("GNU_EH_FRAME", FindSource(".eh_frame_hdr"), {"R"})
        /\ p11 = Only(prog.dynamic, RelroRun)
        /\ p12 = Header("GNU_STACK", 0, 0, 0, 0, {"R", "W"})
  OBVIOUS
<1>6. Headers = p1 \o p2 \o p3 \o p4 \o p5 \o p6 \o p7 \o p8 \o p9 \o p10 \o p11 \o p12
  BY <1>2, <1>3, <1>4, <1>5, Zenon DEF Headers
<1>7. Sought(p1, L, ss, {}) /\ Sought(p2, L, ss, {}) /\ Sought(p3, L, ss, {})
  <2>1. Sought(p1, L, ss, {})
    BY <1>2, OtherSought
  <2>2. PICK x, y : x = OfSection("INTERP", FindSource(".interp"), {"R"}) /\ y = OfSection("NOTE", FindSource(".note.gnu.build-id"), {"R"})
    OBVIOUS
  <2>3. Sought(x, L, ss, {}) /\ Sought(y, L, ss, {})
    BY <2>2, OfSectionSought
  <2>4. p2 = Only(prog.dynamic, x) /\ p3 = Only(prog.build_id, y)
    BY <1>2, <2>2, Zenon
  <2> QED BY <2>1, <2>3, <2>4, OnlySought
<1> DEFINE M(c) == {LoadOf(seg[x], prog.base, x) : x \in DOMAIN seg \cap {c}}
<1>8. Sought(p4, L, ss, M("ro")) /\ Sought(p5, L, ss, M("rx")) /\ Sought(p6, L, ss, M("rw"))
  <2>1. AccessOf("ro") = {"R"} /\ AccessOf("rx") = {"R", "X"} /\ AccessOf("rw") = {"R", "W"}
    BY DEF AccessOf
  <2>2. p4 = Load("ro", AccessOf("ro")) /\ p5 = Load("rx", AccessOf("rx")) /\ p6 = Load("rw", AccessOf("rw"))
    BY <1>3, <2>1
  <2>3. Sought(p4, L, ss, M("ro"))
    BY <1>1, <2>2, LoadSought
  <2>4. Sought(p5, L, ss, M("rx"))
    BY <1>1, <2>2, LoadSought
  <2>5. Sought(p6, L, ss, M("rw"))
    BY <1>1, <2>2, LoadSought
  <2> QED BY <2>3, <2>4, <2>5
<1>9. Sought(p7, L, ss, {}) /\ Sought(p8, L, ss, {}) /\ Sought(p9, L, ss, {})
  <2>1. Sought(p7, L, ss, {})
    BY <1>4, OfSectionSought
  <2>2. PICK x, y : /\ x = OfSection("DYNAMIC", FindSource(".dynamic"), {"R", "W"})
                    /\ y = Header("TLS", lay.tls.block[1].off, lay.tls.block[1].addr, lay.tls.filesz, lay.tls_size, {"R"})
    OBVIOUS
  <2>3. Sought(x, L, ss, {}) /\ Sought(y, L, ss, {})
    BY <2>2, OfSectionSought, OtherSought
  <2>4. p8 = Only(prog.dynamic, x) /\ p9 = Only(lay.tls_size > 0, y)
    BY <1>4, <2>2, Zenon
  <2> QED BY <2>1, <2>3, <2>4, OnlySought
<1>10. Sought(p10, L, ss, {}) /\ Sought(p11, L, ss, {}) /\ Sought(p12, L, ss, {})
  <2>1. Sought(p10, L, ss, {}) /\ Sought(p12, L, ss, {})
    BY <1>5, OfSectionSought, OtherSought
  <2>2. PICK h : RelroRun = <<h>> /\ h.type = "RELRO" /\ RelroOf(h, ss)
    BY <1>1, RunOfRelro DEF Laid, RelroOf
  <2>3. Sought(<<h>>, L, ss, {})
    BY <2>2, OneSought
  <2> QED BY <1>5, <2>1, <2>2, <2>3, OnlySought
<1>11. PICK u, v, m : u = p1 \o p2 \o p3 \o p4 /\ v = u \o p5 \o p6 /\ m = ((M("ro") \cup M("rx")) \cup M("rw"))
  OBVIOUS
<1> DEFINE A == M("ro")
           B == M("rx")
           C == M("rw")
<1> HIDE DEF M
<1>12. Sought(u, L, ss, A)
  <2>1. Sought(p1 \o p2, L, ss, {} \cup {})
    BY <1>7, SoughtConcat
  <2>2. Sought(p1 \o p2 \o p3, L, ss, ({} \cup {}) \cup {})
    BY <1>7, <2>1, SoughtConcat
  <2>3. Sought(p1 \o p2 \o p3 \o p4, L, ss, (({} \cup {}) \cup {}) \cup A)
    BY <1>8, <2>2, SoughtConcat
  <2>4. (({} \cup {}) \cup {}) \cup A = A
    OBVIOUS
  <2> HIDE DEF A
  <2> QED BY <1>11, <2>3, <2>4
<1>13. Sought(v, L, ss, m)
  <2>1. Sought(u \o p5, L, ss, A \cup B)
    BY <1>8, <1>12, SoughtConcat
  <2>2. Sought(u \o p5 \o p6, L, ss, (A \cup B) \cup C)
    BY <1>8, <2>1, SoughtConcat
  <2> QED BY <1>11, <2>2
<1>14. PICK w : w = v \o p7 \o p8 \o p9 \o p10 \o p11 \o p12
  OBVIOUS
<1>15. Sought(w, L, ss, m)
  <2>1. m \cup {} = m
    OBVIOUS
  <2>2. Sought(v \o p7, L, ss, m)
    BY <1>9, <1>13, <2>1, SoughtConcat
  <2>3. Sought(v \o p7 \o p8, L, ss, m)
    BY <1>9, <2>1, <2>2, SoughtConcat
  <2>4. Sought(v \o p7 \o p8 \o p9, L, ss, m)
    BY <1>9, <2>1, <2>3, SoughtConcat
  <2>5. Sought(v \o p7 \o p8 \o p9 \o p10, L, ss, m)
    BY <1>10, <2>1, <2>4, SoughtConcat
  <2>6. Sought(v \o p7 \o p8 \o p9 \o p10 \o p11, L, ss, m)
    BY <1>10, <2>1, <2>5, SoughtConcat
  <2>7. Sought(v \o p7 \o p8 \o p9 \o p10 \o p11 \o p12, L, ss, m)
    BY <1>10, <2>1, <2>6, SoughtConcat
  <2> QED BY <1>14, <2>7
<1>16. Headers = w
  BY <1>6, <1>11, <1>14, Zenon
<1>17. m = L
  <2>1. DOMAIN seg \subseteq {"ro", "rx", "rw"}
    BY DEF Laid
  <2> QED BY <1>1, <1>11, <2>1 DEF LoadsOf, M
<1> QED BY <1>1, <1>15, <1>16, <1>17

-----------------------------------------------------------------------------
(* What was laid out and described so is sound.                            *)
LEMMA SegmentsMean ==
  ASSUME Laid(sections, seg, prog.base), prog.base \in Nat, prog.base % PageSize = 0,
         Sought(lay.segments, LoadsOf(seg, prog.base), sections, LoadsOf(seg, prog.base))
  PROVE  LoadsSound
<1>1. PICK bv, hs, L : bv = prog.base /\ hs = lay.segments /\ L = LoadsOf(seg, prog.base)
  OBVIOUS
<1>2. DOMAIN hs = 1 .. Len(hs) /\ Len(hs) \in Nat /\ DOMAIN sections = 1 .. Len(sections) /\ Len(sections) \in Nat
  BY <1>1 DEF Sought, Laid, Packed, IsSeq
<1>3. \A h \in Loads : \E c \in DOMAIN seg : h = LoadOf(seg[c], bv, c)
  <2> TAKE h \in Loads
  <2>1. PICK k \in 1 .. Len(hs) : hs[k] = h /\ h.type = "LOAD"
    BY <1>1, <1>2 DEF Loads, ToSet
  <2>2. h \in L
    BY <1>1, <2>1 DEF Sought
  <2> QED BY <1>1, <2>2 DEF LoadsOf
<1>4. ASSUME NEW c \in DOMAIN seg PROVE LoadOf(seg[c], bv, c) \in Loads
  <2>1. PICK h : h = LoadOf(seg[c], bv, c)
    OBVIOUS
  <2>2. h \in L /\ h.type = "LOAD"
    BY <1>1, <2>1 DEF LoadsOf, LoadOf
  <2>3. PICK k \in 1 .. Len(hs) : hs[k] = h
    BY <1>1, <2>2 DEF Sought
  <2> QED BY <1>1, <1>2, <2>1, <2>2, <2>3 DEF Loads, ToSet
<1>5. \A c \in DOMAIN seg : IsSegment(seg[c], bv, EndOf(seg))
  BY <1>1 DEF Laid
<1>6. \A c \in DOMAIN seg : /\ seg[c].start \in Nat /\ seg[c].file_end \in Nat /\ seg[c].mem_end \in Nat \ {0}
                            /\ bv <= seg[c].start /\ seg[c].start % PageSize = 0
  BY <1>5 DEF IsSegment
<1>7. \A h \in Loads : h.va % PageSize = h.off % PageSize
  <2> TAKE h \in Loads
  <2>1. PICK c \in DOMAIN seg : h = LoadOf(seg[c], bv, c)
    BY <1>3
  <2>2. h.va = seg[c].start /\ h.off = seg[c].start - bv
    BY <2>1 DEF LoadOf
  <2>3. (seg[c].start - bv) % PageSize = 0
    BY <1>1, <1>6, PageOfMultiples
  <2> QED BY <1>6, <2>2, <2>3
<1>8. ASSUME NEW c \in DOMAIN seg, NEW d \in DOMAIN seg, NEW g, NEW h, g = LoadOf(seg[c], bv, c), h = LoadOf(seg[d], bv, d),
             <<c, d>> \in Follows
      PROVE  Page(g.va + g.memsz - 1) < Page(h.va)
  <2>1. seg[c].mem_end <= seg[d].start
    BY <1>8 DEF Laid
  <2>2. g.va + g.memsz - 1 = seg[c].mem_end - 1 /\ h.va = seg[d].start
    BY <1>6, <1>8 DEF LoadOf
  <2>3. Page(seg[c].mem_end - 1) < Page(seg[d].start)
    BY <1>6, <2>1, PageBefore
  <2> QED BY <2>2, <2>3
<1>9. \A g, h \in Loads : g = h \/ Page(g.va + g.memsz - 1) < Page(h.va)
                                \/ Page(h.va + h.memsz - 1) < Page(g.va)
  <2> TAKE g, h \in Loads
  <2>1. PICK c \in DOMAIN seg : g = LoadOf(seg[c], bv, c)
    BY <1>3
  <2>2. PICK d \in DOMAIN seg : h = LoadOf(seg[d], bv, d)
    BY <1>3
  <2>3. c = d \/ <<c, d>> \in Follows \/ <<d, c>> \in Follows
    <3>1. DOMAIN seg \subseteq {"ro", "rx", "rw"}
      BY DEF Laid
    <3> QED BY <3>1 DEF Follows
  <2> QED BY <1>8, <2>1, <2>2, <2>3
<1> DEFINE ld == Where(LAMBDA s : "A" \in s.flags)
<1>10. \A k \in ld : k \in 1 .. Len(sections) /\ IsLoaded(sections[k])
  BY <1>2 DEF Where, IsLoaded
<1>11. ASSUME NEW k \in ld
       PROVE  /\ Whole(sections[k]).align = 0 \/ Whole(sections[k]).lo % Whole(sections[k]).align = 0
              /\ \E h \in Loads : MappedBy(Whole(sections[k]), h)
  <2>1. PICK s, x, c : s = sections[k] /\ x = Whole(s) /\ c = PermOf(s.flags)
    OBVIOUS
  <2>2. InPlace(s, bv, bv, EndOf(seg)) /\ InSegment(s, seg)
    BY <1>1, <1>10, <2>1 DEF Laid, Packed
  <2>3. x.lo = s.addr /\ x.size = s.size /\ x.perm = c /\ x.off = s.off /\ x.align = s.align /\ x.bytes = ~s.nobits
    BY <2>1 DEF Whole
  <2>4. c \in DOMAIN seg /\ Inside(s, seg[c])
    BY <2>1, <2>2 DEF InSegment
  <2>5. PICK h, g : h = LoadOf(g, bv, c) /\ g = seg[c]
    OBVIOUS
  <2>6. /\ h \in Loads /\ g.start \in Nat /\ g.file_end \in Nat /\ g.mem_end \in Nat /\ bv \in Nat
        /\ s.addr \in Nat /\ s.size \in Nat /\ s.off = s.addr - bv
    BY <1>1, <1>4, <1>6, <2>2, <2>4, <2>5 DEF InPlace
  <2>7. PermOfLoad(h) = c
    <3>1. h.flags = AccessOf(c) /\ c \in {"ro", "rx", "rw"}
      BY <2>4, <2>5 DEF LoadOf, Laid
    <3> QED BY <3>1 DEF PermOfLoad, AccessOf
  <2>8. h.va = g.start /\ h.memsz = g.mem_end - g.start /\ h.filesz = g.file_end - g.start /\ h.off = g.start - bv
    BY <2>5 DEF LoadOf
  <2>9. h.va <= x.lo /\ x.lo + x.size <= h.va + h.memsz
    BY <2>3, <2>4, <2>5, <2>6, <2>8 DEF Inside
  <2>10. x.bytes => x.lo + x.size <= h.va + h.filesz /\ x.off - h.off = x.lo - h.va
    <3>1. x.bytes => ~s.nobits
      BY <2>3, Zenon
    <3>2. ~s.nobits => s.addr + s.size <= g.file_end
      BY <2>4, <2>5 DEF Inside
    <3>3. s.addr + s.size <= g.file_end => x.lo + x.size <= h.va + h.filesz
      BY <2>3, <2>6, <2>8
    <3>4. x.off - h.off = x.lo - h.va
      BY <2>3, <2>6, <2>8
    <3> QED BY <3>1, <3>2, <3>3, <3>4
  <2>11. MappedBy(x, h)
    BY <2>3, <2>7, <2>9, <2>10 DEF MappedBy
  <2>12. x.align = 0 \/ x.lo % x.align = 0
    BY <2>2, <2>3 DEF InPlace
  <2> QED BY <2>1, <2>6, <2>11, <2>12
<1>12. \A j, k \in ld : j = k \/ sections[j].addr + sections[j].size <= sections[k].addr
                              \/ sections[k].addr + sections[k].size <= sections[j].addr
  <2> TAKE j, k \in ld
  <2>1. j \in 1 .. Len(sections) /\ k \in 1 .. Len(sections) /\ IsLoaded(sections[j]) /\ IsLoaded(sections[k])
    BY <1>10
  <2>2. j = k \/ j < k \/ k < j
    BY <1>2, <2>1
  <2> QED BY <2>1, <2>2 DEF Laid, Packed
<1> HIDE DEF ld
<1> QED BY <1>7, <1>9, <1>11, <1>12, Zenon DEF LoadsSound, ld

LEMMA SumNat == \A x, y \in Nat : x + y \in Nat
  OBVIOUS

LEMMA RelroMeans ==
  ASSUME Laid(sections, seg, prog.base), RelroLaid(sections), NEW L, NEW M, Sought(lay.segments, L, sections, M)
  PROVE  RelroSafe
<1>1. DOMAIN lay.segments = 1 .. Len(lay.segments) /\ DOMAIN sections = 1 .. Len(sections)
  BY DEF Sought, Laid, Packed, IsSeq
<1>2. PICK lo \in Nat, d \in Nat : /\ lo % PageSize = 0 /\ d % PageSize = 0 /\ lo <= d
                                   /\ \A k \in 1 .. Len(sections) : IsVar(sections[k]) => Fenced(sections[k], lo, d)
  BY DEF RelroLaid
<1>3. ASSUME NEW k \in 1 .. Len(sections), IsVar(sections[k])
      PROVE  sections[k].addr \in Nat /\ sections[k].size \in Nat /\ Fenced(sections[k], lo, d)
  BY <1>2, <1>3 DEF Laid, Packed, InPlace, IsLoaded, IsVar
<1>4. PageSize \in Nat \ {0}
  BY LayoutSizesAssumption
<1>5. ASSUME NEW h \in ToSet(lay.segments), h.type = "RELRO", NEW s \in ToSet(sections),
             {"A", "W"} \subseteq s.flags, ~IsRelro(s), s.size > 0
      PROVE  Page(s.addr + s.size - 1) < Page(h.va) \/ Page(h.va + h.memsz) <= Page(s.addr)
  <2>1. PICK n \in 1 .. Len(lay.segments) : lay.segments[n] = h
    BY <1>1 DEF ToSet
  <2>2. RelroOf(h, sections)
    BY <1>5, <2>1 DEF Sought
  <2>3. PICK k \in 1 .. Len(sections) : sections[k] = s
    BY <1>1 DEF ToSet
  <2>4. s.addr \in Nat /\ s.size \in Nat /\ (s.addr + s.size <= lo \/ d <= s.addr)
    <3>1. IsVar(s)
      BY <1>5 DEF IsVar
    <3> QED BY <1>3, <1>5, <2>3, <3>1 DEF Fenced
  <2>5. CASE h.va = 0 /\ h.memsz = 0
    <3>1. Page(0) <= Page(s.addr)
      BY <2>4, PageGrows
    <3>2. h.va + h.memsz = 0
      BY <2>5
    <3> QED BY <3>1, <3>2
  <2>6. CASE \E i, j \in 1 .. Len(sections) :
               /\ IsVar(sections[i]) /\ IsRelro(sections[i]) /\ IsVar(sections[j]) /\ IsRelro(sections[j])
               /\ h.va = sections[i].addr /\ h.va + h.memsz = sections[j].addr + sections[j].size
    <3>1. PICK i \in 1 .. Len(sections), j \in 1 .. Len(sections) :
               /\ IsVar(sections[i]) /\ IsRelro(sections[i]) /\ IsVar(sections[j]) /\ IsRelro(sections[j])
               /\ h.va = sections[i].addr /\ h.va + h.memsz = sections[j].addr + sections[j].size
      BY <2>6
    <3>2. PICK a, e : a = sections[i].addr /\ e = sections[j].addr + sections[j].size
      OBVIOUS
    <3>3. a \in Nat /\ e \in Nat /\ lo <= a /\ e <= d
      <4>1. /\ sections[i].addr \in Nat /\ sections[i].size \in Nat /\ Fenced(sections[i], lo, d)
            /\ sections[j].addr \in Nat /\ sections[j].size \in Nat /\ Fenced(sections[j], lo, d)
        BY <1>3, <3>1, Zenon
      <4>2. lo <= sections[i].addr /\ sections[j].addr + sections[j].size <= d
        BY <3>1, <4>1, Zenon DEF Fenced
      <4>3. sections[j].addr + sections[j].size \in Nat
        BY <4>1, SumNat, Zenon
      <4> QED BY <3>2, <4>1, <4>2, <4>3, Zenon
    <3>4. CASE s.addr + s.size <= lo
      <4>1. PICK b \in Nat \ {0} : b = s.addr + s.size
        BY <1>5, <2>4
      <4>2. Page(b - 1) < Page(lo)
        BY <1>2, <3>4, <4>1, PageBefore
      <4>3. Page(lo) <= Page(a)
        BY <1>2, <3>3, PageGrows
      <4>4. Page(b - 1) \in Int /\ Page(lo) \in Int /\ Page(a) \in Int
        BY <1>2, <1>4, <3>3, <4>1 DEF Page
      <4>5. Page(b - 1) < Page(a)
        BY <4>2, <4>3, <4>4
      <4>6. s.addr + s.size - 1 = b - 1
        BY <2>4, <4>1
      <4>7. h.va = a
        BY <3>1, <3>2
      <4> QED BY <4>5, <4>6, <4>7
    <3>5. CASE d <= s.addr
      <4>1. Page(e) <= Page(s.addr)
        <5>1. e <= s.addr
          BY <1>2, <2>4, <3>3, <3>5
        <5> QED BY <2>4, <3>3, <5>1, PageGrows
      <4> QED BY <3>1, <3>2, <4>1
    <3> QED BY <2>4, <3>4, <3>5
  <2> QED BY <2>2, <2>5, <2>6 DEF RelroOf
<1> QED BY <1>5 DEF RelroSafe

(* Sections that are only in the file change nothing.                      *)
LEMMA MetaLaid ==
  ASSUME NEW ss, NEW sg, NEW bv, Laid(ss, sg, bv), RelroLaid(ss), NEW t, Metas(t)
  PROVE  Laid(ss \o t, sg, bv) /\ RelroLaid(ss \o t)
<1>1. IsSeq(t) /\ \A k \in 1 .. Len(t) : ~IsLoaded(t[k]) /\ ~IsVar(t[k])
  BY DEF Metas, IsMeta, IsLoaded, IsVar
<1>2. PICK e, s : e = EndOf(sg) /\ s = ss \o t
  OBVIOUS
<1>3. Packed(ss, bv, bv, e) /\ e \in Nat
  BY <1>2 DEF Laid, Packed
<1>4. Packed(t, bv, e, e)
  BY <1>1, <1>3 DEF Packed
<1>5. Packed(s, bv, bv, e)
  BY <1>2, <1>3, <1>4, PackedConcat
<1>6. \A k \in 1 .. Len(s) : (\E i \in 1 .. Len(ss) : s[k] = ss[i]) \/ (\E i \in 1 .. Len(t) : s[k] = t[i])
  BY <1>1, <1>2, <1>3, MembersOfConcat DEF Packed
<1>7. \A k \in 1 .. Len(s) : IsLoaded(s[k]) => InSegment(s[k], sg)
  BY <1>1, <1>6 DEF Laid
<1>8. Laid(s, sg, bv)
  BY <1>2, <1>5, <1>7 DEF Laid
<1>9. PICK lo \in Nat, d \in Nat : /\ lo % PageSize = 0 /\ d % PageSize = 0 /\ lo <= d
                                   /\ \A k \in 1 .. Len(ss) : IsVar(ss[k]) => Fenced(ss[k], lo, d)
  BY DEF RelroLaid
<1>10. \A k \in 1 .. Len(s) : IsVar(s[k]) => Fenced(s[k], lo, d)
  BY <1>1, <1>6, <1>9
<1>11. RelroLaid(s)
  BY <1>9, <1>10 DEF RelroLaid
<1> QED BY <1>2, <1>8, <1>11

-----------------------------------------------------------------------------
(* The invariant behind the segments.                                      *)
Described == {"symbols"} \cup Emitting
PlacedInv ==
  /\ pc \in {"rx", "order", "rw"} \cup Assigned => Laid(sections, seg, prog.base)
  /\ pc = "rw" => RelroSorted(bucket["rw"])
  /\ pc \in Assigned => RelroLaid(sections)
  /\ pc \in Described =>
       /\ "segments" \in DOMAIN lay
       /\ Sought(lay.segments, LoadsOf(seg, prog.base), sections, LoadsOf(seg, prog.base))

LEMMA PlacedLater ==
  ASSUME PlacedInv, pc \in {"alias", "slots", "tls", "entry", "dynamic"}, pc' \in Assigned \ Described,
         prog' = prog, sections' = sections, seg' = seg
  PROVE  PlacedInv'
<1>1. pc \in Assigned /\ pc' \notin {"rx", "order", "rw"}
  BY DEF Assigned, Emitting
<1>2. Laid(sections, seg, prog.base) /\ RelroLaid(sections)
  BY <1>1 DEF PlacedInv
<1>3. Laid(sections, seg, prog.base)' /\ RelroLaid(sections)'
  BY <1>2
<1> QED BY <1>1, <1>3 DEF PlacedInv

(* Every step keeps it.                                                    *)
LEMMA PlacedStep ==
  ASSUME CountsInv, PlacedInv, [LinkNext]_<<allvars, rel>>
  PROVE  PlacedInv'
<1>1. Accepted
  BY DEF CountsInv
<1>2. ASSUME pc' \notin {"rx", "order", "rw"} \cup Assigned PROVE PlacedInv'
  BY <1>2 DEF PlacedInv, Assigned, Described
<1>3. CASE PrebuildDynamic \/ GroupSection \/ AddSynthetic \/ CountHeaders
  <2>1. pc' \in {"group", "count", "ro"}
    BY <1>3 DEF PrebuildDynamic, GroupSection, AddSynthetic, CountHeaders
  <2> QED BY <1>2, <2>1 DEF Assigned, Emitting
<1>4. CASE RejectHashStyle \/ RejectAlignment \/ RejectEntry \/ PhdrCountMismatch
  <2>1. pc' = "error"
    BY <1>4 DEF RejectHashStyle, RejectAlignment, RejectEntry, PhdrCountMismatch, Fail
  <2> QED BY <1>2, <2>1 DEF Assigned, Emitting
<1>5. CASE LinkRelocatable
  <2>1. pc' \in NoLayout
    BY <1>5 DEF LinkRelocatable, NoLayout, R!EmitRelocatable, R!HandOff, R!ApplyDefsym,
       R!MergeSections, R!MergeLocals, R!MergeGlobals, R!BuildRela, R!AssignOffsets
  <2> QED BY <1>2, <2>1 DEF Assigned, Emitting, NoLayout
<1>6. CASE PlaceReadOnly
  <2>1. pc = "ro" /\ pc' = "rx" /\ prog' = prog
    BY <1>6 DEF PlaceReadOnly, Placed
  <2>2. pc \notin NoLayout /\ pc' \notin Assigned
    BY <2>1 DEF NoLayout, Assigned, Emitting
  <2>3. GroupInv /\ BucketInv /\ NothingPlaced /\ HeadersKnown
    BY <2>1, <2>2 DEF CountsInv, Known
  <2>4. Laid(sections', seg', prog.base)
    BY <1>1, <1>6, <2>2, <2>3, ReadOnlyLaid
  <2> QED BY <2>1, <2>2, <2>4 DEF PlacedInv, Assigned, Described
<1>7. CASE PlaceExecutable
  <2>1. pc = "rx" /\ pc' = "order" /\ prog' = prog
    BY <1>7 DEF PlaceExecutable, Placed
  <2>2. pc \notin NoLayout /\ pc' \notin Assigned
    BY <2>1 DEF NoLayout, Assigned, Emitting
  <2>3. GroupInv /\ BucketInv /\ RoPlaced /\ Laid(sections, seg, prog.base)
    BY <2>1, <2>2 DEF CountsInv, Known, PlacedInv
  <2>4. Laid(sections', seg', prog.base)
    BY <1>1, <1>7, <2>2, <2>3, ExecutableLaid
  <2> QED BY <2>1, <2>2, <2>4 DEF PlacedInv, Assigned, Described
<1>8. CASE OrderWritable
  <2>1. pc = "order" /\ pc' = "rw" /\ prog' = prog /\ sections' = sections /\ seg' = seg
    BY <1>8 DEF OrderWritable
  <2>2. pc \notin NoLayout /\ pc' \notin Assigned
    BY <2>1 DEF NoLayout, Assigned, Emitting
  <2>3. GroupInv /\ BucketInv /\ IsProgram(prog) /\ Laid(sections, seg, prog.base)
    BY <1>1, <2>1, <2>2, BaseMultiple DEF CountsInv, Known, PlacedInv
  <2>4. RelroSorted(bucket'["rw"])
    BY <1>8, <2>3, OrderWritableStep
  <2>5. Laid(sections, seg, prog.base)'
    BY <2>1, <2>3
  <2> QED BY <2>1, <2>2, <2>4, <2>5 DEF PlacedInv, Assigned, Described
<1>9. CASE PlaceWritable
  <2>1. pc = "rw" /\ pc' = "alias" /\ prog' = prog
    BY <1>9 DEF PlaceWritable, Placed
  <2>2. pc \notin NoLayout /\ pc' \notin Described
    BY <2>1 DEF NoLayout, Described, Emitting
  <2>3. GroupInv /\ BucketInv /\ RxPlaced /\ RelroSorted(bucket["rw"]) /\ Laid(sections, seg, prog.base)
    BY <2>1, <2>2 DEF CountsInv, Known, PlacedInv
  <2>4. Laid(sections', seg', prog.base) /\ RelroLaid(sections')
    BY <1>1, <1>9, <2>2, <2>3, WritableLaid
  <2> QED BY <2>1, <2>2, <2>4 DEF PlacedInv
<1>10. CASE AliasFolded \/ AssignSlots \/ TlsLayout \/ ResolveEntry \/ BuildDynamic
  <2>1. /\ pc \in {"alias", "slots", "tls", "entry", "dynamic"} /\ pc' \in {"meta", "tls", "entry", "dynamic", "headers"}
        /\ prog' = prog /\ sections' = sections /\ seg' = seg
    BY <1>10 DEF AliasFolded, AssignSlots, TlsLayout, ResolveEntry, BuildDynamic
  <2>2. pc' \in Assigned \ Described
    BY <2>1 DEF Assigned, Described, Emitting
  <2> QED BY <2>1, <2>2, PlacedLater
<1>11. CASE PlaceMeta
  <2>1. pc = "meta" /\ pc' = "slots" /\ prog' = prog /\ seg' = seg
    BY <1>11 DEF PlaceMeta
  <2>2. pc \in Assigned /\ pc \notin NoLayout /\ pc' \notin Described
    BY <2>1 DEF NoLayout, Assigned, Described, Emitting
  <2>3. RwPlaced /\ IsProgram(prog) /\ Laid(sections, seg, prog.base) /\ RelroLaid(sections)
    BY <1>1, <2>2, BaseMultiple DEF CountsInv, Known, PlacedInv
  <2>4. PICK t : Metas(t) /\ sections' = sections \o t
    BY <1>11, <2>3, PlaceMetaStep
  <2>5. Laid(sections \o t, seg, prog.base) /\ RelroLaid(sections \o t)
    BY <2>3, <2>4, MetaLaid
  <2>6. Laid(sections, seg, prog.base)' /\ RelroLaid(sections)'
    BY <2>1, <2>4, <2>5
  <2> QED BY <2>1, <2>2, <2>6 DEF PlacedInv
<1>12. CASE ProgramHeaders
  <2>1. pc = "headers" /\ pc' = "symbols" /\ prog' = prog /\ sections' = sections /\ seg' = seg /\ lay' = With([segments |-> Headers])
    BY <1>12, Zenon DEF ProgramHeaders
  <2>2. pc \in Assigned
    BY <2>1 DEF Assigned
  <2>3. Laid(sections, seg, prog.base) /\ RelroLaid(sections)
    BY <2>2 DEF PlacedInv
  <2>4. Sought(Headers, LoadsOf(seg, prog.base), sections, LoadsOf(seg, prog.base))
    BY <2>3, HeadersSought
  <2>5. PICK r, hs : hs = Headers /\ r = [segments |-> hs]
    OBVIOUS
  <2>6. lay' = With(r) /\ "segments" \in DOMAIN r /\ r["segments"] = hs
    BY <2>1, <2>5
  <2>7. "segments" \in DOMAIN lay' /\ lay'["segments"] = hs
    BY <2>6, WithFacts
  <2>8. Sought(lay.segments, LoadsOf(seg, prog.base), sections, LoadsOf(seg, prog.base))'
    <3>1. Sought(hs, LoadsOf(seg, prog.base), sections, LoadsOf(seg, prog.base))
      BY <2>4, <2>5
    <3>2. lay'.segments = hs
      BY <2>7
    <3> QED BY <2>1, <3>1, <3>2
  <2>9. Laid(sections, seg, prog.base)' /\ RelroLaid(sections)'
    BY <2>1, <2>3
  <2> QED BY <2>1, <2>7, <2>8, <2>9 DEF PlacedInv
<1>13. ASSUME pc \in Described, pc' \in Described, prog' = prog, sections' = sections, seg' = seg,
              "segments" \in DOMAIN lay => "segments" \in DOMAIN lay' /\ lay'["segments"] = lay["segments"]
       PROVE  PlacedInv'
  <2>1. pc \in Assigned /\ pc' # "rw"
    BY <1>13 DEF Described, Assigned, Emitting
  <2>2. /\ Laid(sections, seg, prog.base) /\ RelroLaid(sections) /\ "segments" \in DOMAIN lay
        /\ Sought(lay.segments, LoadsOf(seg, prog.base), sections, LoadsOf(seg, prog.base))
    BY <1>13, <2>1 DEF PlacedInv
  <2>3. lay'.segments = lay.segments /\ "segments" \in DOMAIN lay'
    BY <1>13, <2>2
  <2>4. Sought(lay.segments, LoadsOf(seg, prog.base), sections, LoadsOf(seg, prog.base))'
    BY <1>13, <2>2, <2>3
  <2>5. Laid(sections, seg, prog.base)' /\ RelroLaid(sections)'
    BY <1>13, <2>2
  <2> QED BY <2>1, <2>3, <2>4, <2>5 DEF PlacedInv
<1>14. CASE LinkerSymbols
  <2>1. PICK x, y, z : lay' = With([edata |-> x, end |-> y, bss_start |-> z])
    BY <1>14, Zenon DEF LinkerSymbols
  <2>2. PICK r : r = [edata |-> x, end |-> y, bss_start |-> z]
    OBVIOUS
  <2>3. lay' = With(r) /\ "segments" \notin DOMAIN r
    BY <2>1, <2>2
  <2>4. "segments" \in DOMAIN lay => "segments" \in DOMAIN lay' /\ lay'["segments"] = lay["segments"]
    BY <2>3, WithFacts
  <2>5. pc = "symbols" /\ pc' = "emit" /\ prog' = prog /\ sections' = sections /\ seg' = seg
    BY <1>14 DEF LinkerSymbols
  <2> QED BY <1>13, <2>4, <2>5 DEF Described, Emitting
<1>15. CASE OpenOutput \/ WriteHeaders \/ WriteSynthetic \/ CopyInputs \/ WriteTlsGot
           \/ WriteEhFrameHdr \/ WriteSectionHeaders \/ FinalizeBuildId
  <2>1. pc \in Emitting /\ pc' \in Emitting /\ prog' = prog /\ sections' = sections /\ seg' = seg /\ lay' = lay
    BY <1>15 DEF OpenOutput, WriteHeaders, WriteSynthetic, CopyInputs, WriteTlsGot, WriteEhFrameHdr, WriteSectionHeaders,
       FinalizeBuildId, Step, Emitting
  <2> QED BY <1>13, <2>1 DEF Described
<1>16. CASE UNCHANGED <<allvars, rel>>
  <2>1. /\ pc' = pc /\ prog' = prog /\ sections' = sections /\ seg' = seg /\ lay' = lay /\ bucket' = bucket
    BY <1>16 DEF allvars, vars
  <2> QED BY <2>1 DEF PlacedInv
<1> QED
  BY <1>3, <1>4, <1>5, <1>6, <1>7, <1>8, <1>9, <1>10, <1>11, <1>12, <1>14, <1>15, <1>16
  DEF LinkNext, LinkImage, EmitImageNext, Laying, ComputeLayout, Ended

LEMMA PlacedInit == LinkInit => PlacedInv
  BY DEF LinkInit, EmitInit, Init, PlacedInv, Assigned, Described, Emitting

LEMMA LaidOutFacts ==
  ASSUME CountsInv, PlacedInv, LaidOut
  PROVE  LoadsSound /\ RelroSafe
<1>1. pc \notin NoLayout /\ pc \in Assigned /\ pc \in Described
  BY DEF LaidOut, NoLayout, Assigned, Described, Emitting
<1>2. prog.base \in Nat /\ prog.base % PageSize = 0
  BY <1>1, BaseMultiple DEF CountsInv
<1>3. /\ Laid(sections, seg, prog.base) /\ RelroLaid(sections)
      /\ Sought(lay.segments, LoadsOf(seg, prog.base), sections, LoadsOf(seg, prog.base))
  BY <1>1 DEF PlacedInv
<1> QED BY <1>2, <1>3, SegmentsMean, RelroMeans

(* In every finished layout of every program the loadable segments can be  *)
(* mapped from the file and share no page, every output section that is    *)
(* loaded is aligned, shares no byte with another one, and lies in a       *)
(* segment with its permissions at the place the file has its bytes for;   *)
(* the pages the loader makes read-only after relocation (PT_GNU_RELRO)    *)
(* hold nothing writable but the RELRO sections.                           *)
THEOREM SegmentsSoundAlways == LinkSpec => []SegmentsSound
<1>1. CountsInv /\ PlacedInv /\ [LinkNext]_<<allvars, rel>> => CountsInv' /\ PlacedInv'
  BY CountsStep, PlacedStep
<1>2. CountsInv /\ PlacedInv => LoadsSound
  BY LaidOutFacts DEF LoadsSound
<1>3. CountsInv /\ PlacedInv => RelroSafe
  BY LaidOutFacts DEF RelroSafe
<1>4. CountsInv /\ PlacedInv => SegmentsSound
  BY <1>2, <1>3 DEF SegmentsSound
<1> QED BY <1>1, <1>4, CountsInit, PlacedInit, PTL DEF LinkSpec
=============================================================================
