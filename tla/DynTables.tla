----------------------------- MODULE DynTables -----------------------------
(***************************************************************************)
(* The dynamic symbol table, its SysV hash table and the version tables    *)
(* (the first part of compute_layout_icf, peony-layout/src/lib.rs).  Their *)
(* sizes enter the layout; the dynamic loader walks them at run time.      *)
(*                                                                         *)
(* A dynamic link asks for a record dyn of                                 *)
(*   imports   sequence of name, copied (a copy relocation), lib and ver   *)
(*             (NoName: none)                                              *)
(*   exports   sequence of names                                           *)
(*   needed    sequence of library names                                   *)
(*   hash_style   "sysv", "gnu" or "both"                                  *)
(*   soname, rpath   whether the tags are asked for                        *)
(*   rela, relcount  entries of .rela.dyn, and whether plain RELATIVE ones *)
(*             are among them                                              *)
(***************************************************************************)
EXTENDS Naturals, Sequences, FiniteSets, SequencesExt

CONSTANTS
  NoName,         \* no library, no version
  SysvHash(_)     \* elf_sysv_hash of a name

(* .dynsym: the null symbol, the imports, the exports; index 0 is null.    *)
DynSyms(dyn) == [i \in 1..Len(dyn.imports) |-> dyn.imports[i].name] \o dyn.exports

Copied(dyn) == {i \in DOMAIN dyn.imports : dyn.imports[i].copied}
Exported(dyn) == Len(dyn.imports) + 1 .. Len(dyn.imports) + Len(dyn.exports)

(* Bug: copied imports stay out of the table, like the other imports.      *)
HashedExports(dyn) == Exported(dyn)

(* The entries of .dynsym that are hashed.                                 *)
Hashed(dyn) == Copied(dyn) \cup Exported(dyn)

NBucket(dyn) == IF Hashed(dyn) = {} THEN 1 ELSE Cardinality(Hashed(dyn))

(* Each symbol becomes the head of its bucket.                             *)
BucketOf(dyn, i) == SysvHash(DynSyms(dyn)[i]) % NBucket(dyn)
HashInsert(dyn, t, i) ==
  [buckets |-> [t.buckets EXCEPT ![BucketOf(dyn, i)] = i],
   chain   |-> [t.chain EXCEPT ![i] = t.buckets[BucketOf(dyn, i)]]]

(* The copied imports and then the exports: the order of .dynsym.          *)
HashTable(dyn) ==
  LET upto[i \in 0 .. Len(DynSyms(dyn))] ==
        IF i = 0 THEN [buckets |-> [h \in 0 .. NBucket(dyn) - 1 |-> 0],
                       chain   |-> [k \in 0 .. Len(DynSyms(dyn)) |-> 0]]
        ELSE IF i \in Hashed(dyn) THEN HashInsert(dyn, upto[i - 1], i) ELSE upto[i - 1]
  IN  upto[Len(DynSyms(dyn))]

(* Bug: the empty .gnu.hash is built although there are copies.            *)
GnuHashStubAlways(dyn) == dyn.exports = << >>

(* The .gnu.hash that is built hashes nothing, and the loader prefers it.  *)
GnuHashStub(dyn) == Hashed(dyn) = {}

HashStyleUnsupported(dyn) == dyn.hash_style = "gnu" /\ ~GnuHashStub(dyn)
HasHash(dyn) == dyn.hash_style # "gnu"
HasGnuHash(dyn) == GnuHashStub(dyn) /\ dyn.hash_style # "sysv"
-----------------------------------------------------------------------------
(* Versions: next_vidx numbers each library's versions from 2 on; 1 is no  *)
(* version.                                                                *)
SonameIndex(dyn, so) ==
  LET at == {l \in DOMAIN dyn.needed : dyn.needed[l] = so}
  IN  IF at = {} THEN 0 ELSE CHOOSE l \in at : \A m \in at : m <= l

Versioned(dyn) ==
  {i \in DOMAIN dyn.imports :
     dyn.imports[i].ver # NoName /\ SonameIndex(dyn, dyn.imports[i].lib) # 0}
VersionKey(dyn, i) == <<SonameIndex(dyn, dyn.imports[i].lib), dyn.imports[i].ver>>

FirstOf(dyn, i) ==
  \A j \in Versioned(dyn) : VersionKey(dyn, j) = VersionKey(dyn, i) => i <= j
VersionIndex(dyn, key) ==
  LET i == CHOOSE i \in Versioned(dyn) : VersionKey(dyn, i) = key /\ FirstOf(dyn, i)
  IN  1 + Cardinality({j \in Versioned(dyn) : j <= i /\ FirstOf(dyn, j)})

Versym(dyn) ==
  [i \in DOMAIN dyn.imports |->
     IF i \in Versioned(dyn) THEN VersionIndex(dyn, VersionKey(dyn, i)) ELSE 1]
  \o [i \in DOMAIN dyn.exports |-> 1]

(* .gnu.version_r: per library the indices of its versions.                *)
Verneed(dyn) ==
  {[lib |-> dyn.needed[key[1]], ver |-> key[2], other |-> VersionIndex(dyn, key)] :
     key \in {VersionKey(dyn, i) : i \in Versioned(dyn)}}
VerneedNum(dyn) == Cardinality({v.lib : v \in Verneed(dyn)})
-----------------------------------------------------------------------------
(* What the loader does: DT_GNU_HASH, when there is one, and only then     *)
(* DT_HASH, whose chain it follows from the bucket (external).             *)
Chain(dyn, h) ==
  LET t == HashTable(dyn)
      walk[n \in 0 .. Len(DynSyms(dyn)) + 1] ==
        IF n = 0 THEN t.buckets[h] ELSE t.chain[walk[n - 1]]
  IN  {walk[n] : n \in DOMAIN walk} \ {0}

Found(dyn, name) ==
  IF HasGnuHash(dyn) \/ ~HasHash(dyn) THEN {}
  ELSE {i \in Chain(dyn, SysvHash(name) % NBucket(dyn)) : DynSyms(dyn)[i] = name}
-----------------------------------------------------------------------------
(* What the driver asks for: the symbols come from a table with one entry  *)
(* for a name, and an import is not exported (SymbolResolution::is_export).*)
IsSeq(s) == s \in Seq(ToSet(s))
DynWellFormed(dyn) ==
  /\ IsSeq(dyn.imports) /\ IsSeq(dyn.exports) /\ IsSeq(dyn.needed)
  /\ \A i, j \in DOMAIN DynSyms(dyn) : DynSyms(dyn)[i] = DynSyms(dyn)[j] => i = j
  /\ \A i \in DOMAIN DynSyms(dyn) : SysvHash(DynSyms(dyn)[i]) \in Nat
=============================================================================
