--------------------------- MODULE ResolveProofs ---------------------------
(***************************************************************************)
(* Proofs about loading and symbol resolution, for any command line: any   *)
(* number of objects, archives and libraries, each with any symbols.       *)
(***************************************************************************)
EXTENDS Resolve, SequenceTheorems, NaturalsInduction, WellFoundedInduction, TLAPS

(* The objects and the archives that are about.                            *)
Inputs == ObjectsOf(link)
Named == ToSet(link.archives)

(* Before the shared libraries, and before the linker's own symbols.       *)
Merging ==
  {"bare", "whole", "startlib", "round", "scan", "pull", "archived", "duplicate"}
Phases == Merging \cup {"shared", "weakgot", "check", "done", "undefined"}

(* The progress of pull_lazy_members, of include_archive_members and of    *)
(* the loop over the libraries.                                            *)
Lazies ==
  [members : Seq(Inputs \cup {None}), at : Nat \ {0}, undefined : SUBSET Names, pulled : Nat]
Archs ==
  [pending : Seq(Named \cup {None}), skipped : Seq(Named \cup {None}),
   indexed : Seq(Named \cup {None}), parsed : Nat, seen : SUBSET (STRING \X Nat)]
Loops ==
  [lib : Nat \ {0}, at : Nat \ {0}, satisfied : BOOLEAN, needed : SUBSET STRING]

TypeOK ==
  /\ link \in Links
  /\ pc \in Phases
  /\ injected \in BOOLEAN
  /\ table \in Tables
  /\ objects \in Seq(Inputs)
  /\ seen_comdat \in SUBSET STRING
  /\ excluded \in SUBSET (Nat \X Nat)
  /\ cur \in Currents \cup {None}
  /\ queue \in Seq(Inputs \cup {None})
  /\ lazy \in Lazies /\ arch \in Archs /\ shared \in Loops

(* resolve is inside the last object, in the phases that call it.          *)
CurOK ==
  /\ Resolving =>
       /\ pc \in {"bare", "whole", "startlib", "pull", "duplicate"}
       /\ objects # <<>> /\ cur.oid = Len(objects) - 1
       /\ cur.at <= Len(objects[cur.oid + 1].syms) + 1
  /\ pc = "duplicate" => Unfinished /\ Conflict
-----------------------------------------------------------------------------
(* What a command line leads to.                                           *)
LEMMA InSet ==
  ASSUME NEW S, NEW s \in Seq(S)
  PROVE  s \in Seq(ToSet(s)) /\ ToSet(s) \subseteq S /\ DOMAIN s = 1..Len(s) /\ Len(s) \in Nat
BY DEF ToSet

LEMMA LinkFacts ==
  ASSUME NEW l \in Links
  PROVE  /\ l \in CommandLines
         /\ ObjectsOf(l) \subseteq Objects
         /\ \A obj \in ObjectsOf(l) : OneGroupEach(obj)
         /\ l.bare \in Seq(ObjectsOf(l)) /\ l.whole \in Seq(ObjectsOf(l))
         /\ l.startlib \in Seq(ObjectsOf(l))
         /\ ToSet(l.archives) \subseteq Archives
         /\ l.archives \in Seq(ToSet(l.archives))
         /\ \A a \in ToSet(l.archives) : a.members \in Seq(ObjectsOf(l))
<1>1. l \in CommandLines /\ \A obj \in ObjectsOf(l) : OneGroupEach(obj)
  BY ResolveAssumption
<1>2. /\ l.bare \in Seq(Objects) /\ l.whole \in Seq(Objects) /\ l.startlib \in Seq(Objects)
      /\ l.archives \in Seq(Archives)
  BY <1>1 DEF CommandLines
<1>3. ToSet(l.archives) \subseteq Archives /\ l.archives \in Seq(ToSet(l.archives))
  BY <1>2, InSet
<1>4. \A a \in ToSet(l.archives) : a.members \in Seq(Objects)
  BY <1>3 DEF Archives
<1>5. \A a \in ToSet(l.archives) :
         a.members \in Seq(ToSet(a.members)) /\ ToSet(a.members) \subseteq Objects
  BY <1>4, InSet
<1>6. ToSet(l.bare) \subseteq Objects /\ ToSet(l.whole) \subseteq Objects
      /\ ToSet(l.startlib) \subseteq Objects
  BY <1>2, InSet
<1>7. ObjectsOf(l) \subseteq Objects
  BY <1>5, <1>6 DEF ObjectsOf
<1>8. /\ l.bare \in Seq(ToSet(l.bare)) /\ l.whole \in Seq(ToSet(l.whole))
      /\ l.startlib \in Seq(ToSet(l.startlib))
  BY <1>2, InSet
<1>9. l.bare \in Seq(ObjectsOf(l)) /\ l.whole \in Seq(ObjectsOf(l))
      /\ l.startlib \in Seq(ObjectsOf(l))
  BY <1>8, SeqMonotonic DEF ObjectsOf
<1>10. \A a \in ToSet(l.archives) : a.members \in Seq(ObjectsOf(l))
  BY <1>5, SeqMonotonic DEF ObjectsOf
<1> QED BY <1>1, <1>3, <1>7, <1>9, <1>10

LEMMA OnlyFacts ==
  ASSUME NEW S, NEW s \in Seq(S), NEW T
  PROVE  /\ Only(s, T) \in Seq(S \cup {None})
         /\ DOMAIN Only(s, T) = DOMAIN s /\ Len(Only(s, T)) = Len(s)
         /\ \A i \in DOMAIN s : Only(s, T)[i] = IF i \in T THEN s[i] ELSE None
<1>1. DOMAIN s = 1..Len(s) /\ Len(s) \in Nat
  OBVIOUS
<1>2. Only(s, T) \in [1..Len(s) -> S \cup {None}]
  BY <1>1 DEF Only
<1>3. Only(s, T) \in Seq(S \cup {None})
  BY <1>1, <1>2, IsASeq
<1>4. Len(Only(s, T)) = Len(s)
  BY <1>1, <1>2, <1>3
<1> QED BY <1>1, <1>3, <1>4 DEF Only

-----------------------------------------------------------------------------
(* The table.                                                              *)
LEMMA UndefinedFacts ==
  ASSUME NEW b \in {"Weak", "Global"}
  PROVE  /\ Undefined(b) \in Entries /\ Undefined(b) # None
         /\ Undefined(b).id = None /\ Undefined(b).binding = b
         /\ Undefined(b).defined_in = None /\ Undefined(b).section = None
         /\ Undefined(b).common = None /\ Undefined(b).import = FALSE
<1>1. Undefined(b) \in Entries
  BY DEF Undefined, Entries
<1>2. Undefined(b) # None
  BY <1>1, ResolveAssumption
<1> QED BY <1>1, <1>2 DEF Undefined

LEMMA PutFacts ==
  ASSUME NEW t \in Tables, NEW n \in Names, NEW e \in Entries
  PROVE  /\ Put(t, n, e) \in Tables
         /\ Put(t, n, e).names = t.names
         /\ Put(t, n, e).res[n] = e /\ e # None
         /\ \A m \in Names : m # n => Put(t, n, e).res[m] = t.res[m]
<1>1. e # None
  BY ResolveAssumption
<1> QED BY <1>1 DEF Put, Tables

WithId(e, k) == [e EXCEPT !.id = k]

LEMMA MintFacts ==
  ASSUME NEW t \in Tables, NEW n \in Names, NEW e \in Entries
  PROVE  /\ Mint(t, n, e) \in Tables
         /\ Mint(t, n, e).names = Append(t.names, n)
         /\ Mint(t, n, e).res[n] = WithId(e, Len(t.names))
         /\ Mint(t, n, e).res[n] \in Entries /\ Mint(t, n, e).res[n] # None
         /\ \A m \in Names : m # n => Mint(t, n, e).res[m] = t.res[m]
<1>1. t.names \in Seq(Names) /\ Len(t.names) \in Nat
  BY DEF Tables
<1>2. [e EXCEPT !.id = Len(t.names)] \in Entries
  BY <1>1 DEF Entries
<1>3. [e EXCEPT !.id = Len(t.names)] # None
  BY <1>2, ResolveAssumption
<1>4. Append(t.names, n) \in Seq(Names)
  BY <1>1
<1>5. t.res \in [Names -> Entries \cup {None}]
  BY DEF Tables
<1>6. Mint(t, n, e).res = [t.res EXCEPT ![n] = [e EXCEPT !.id = Len(t.names)]]
      /\ Mint(t, n, e).names = Append(t.names, n)
  BY DEF Mint
<1>7. Mint(t, n, e).res \in [Names -> Entries \cup {None}]
  BY <1>2, <1>5, <1>6
<1> QED BY <1>2, <1>3, <1>4, <1>5, <1>6, <1>7 DEF Mint, Tables, WithId

LEMMA ReboundFacts ==
  ASSUME NEW e \in Entries, NEW o \in Nat, NEW sym \in Syms, sym.binding # "Local"
  PROVE  /\ Rebound(e, o, sym) \in Entries
         /\ Rebound(e, o, sym).id = e.id /\ Rebound(e, o, sym).import = e.import
         /\ Rebound(e, o, sym).binding = sym.binding /\ Rebound(e, o, sym).defined_in = o
         /\ Rebound(e, o, sym).section = sym.section /\ Rebound(e, o, sym).common = None
BY DEF Rebound, Entries, Syms

(* Which entry takes the place of the one of the symbol, and whether it is *)
(* given an id.                                                            *)
MergesTo(t, o, sym, e, new) ==
  /\ sym.kind = "undefined" =>
       /\ e = None => new = Put(t, sym.name, Undefined(sym.binding))
       /\ e # None /\ e.defined_in = None /\ sym.binding = "Global" =>
            new = Put(t, sym.name, [e EXCEPT !.binding = "Global"])
       /\ e # None /\ ~(e.defined_in = None /\ sym.binding = "Global") => new = t
  /\ sym.kind = "common" =>
       /\ e # None /\ e.common # None =>
            new = Put(t, sym.name,
                      [e EXCEPT !.common = <<MaxOf(sym.size, e.common[1]),
                                             MaxOf(sym.align, e.common[2])>>])
       /\ e # None /\ e.common = None /\ e.defined_in # None => new = t
       /\ e = None \/ (e.common = None /\ e.defined_in = None) =>
            new = Mint(t, sym.name,
                       [Undefined(sym.binding) EXCEPT
                          !.defined_in = o, !.common = <<sym.size, sym.align>>])
  /\ sym.kind = "defined" =>
       /\ e = None => new = Mint(t, sym.name, Rebound(Undefined("Global"), o, sym))
       /\ e # None /\ e.common # None => new = Put(t, sym.name, Rebound(e, o, sym))
       /\ e # None /\ e.common = None /\ e.defined_in = None =>
            new = Mint(t, sym.name, Rebound(e, o, sym))
       /\ e # None /\ e.common = None /\ e.defined_in # None =>
            new = IF e.binding = "Weak" /\ sym.binding = "Global"
                  THEN Put(t, sym.name, Rebound(e, o, sym)) ELSE t

LEMMA MergeCases ==
  ASSUME NEW t, NEW o, NEW sym \in Syms
  PROVE  MergesTo(t, o, sym, t.res[sym.name], MergeSymbol(t, o, sym))
<1> DEFINE e == t.res[sym.name]
           new == MergeSymbol(t, o, sym)
<1>1. CASE sym.kind = "undefined"
  <2>1. new = MergeUndefined(t, sym)
    BY <1>1 DEF MergeSymbol
  <2> QED BY <1>1, <2>1 DEF MergeUndefined, MergesTo
<1>2. CASE sym.kind = "common"
  <2>1. new = MergeCommon(t, o, sym)
    BY <1>2 DEF MergeSymbol
  <2> QED BY <1>2, <2>1 DEF MergeCommon, MergesTo
<1>3. CASE sym.kind = "defined"
  <2>1. new = MergeDefined(t, o, sym)
    BY <1>3 DEF MergeSymbol
  <2>2. CASE e = None
    BY <1>3, <2>1, <2>2 DEF MergeDefined, MergesTo
  <2>3. CASE e # None /\ e.common # None
    BY <1>3, <2>1, <2>3 DEF MergeDefined, MergesTo
  <2>4. CASE e # None /\ e.common = None /\ e.defined_in = None
    BY <1>3, <2>1, <2>4 DEF MergeDefined, MergesTo
  <2>5. CASE e # None /\ e.common = None /\ e.defined_in # None
    BY <1>3, <2>1, <2>5 DEF MergeDefined, MergesTo
  <2> QED BY <1>3, <2>2, <2>3, <2>4, <2>5
<1> QED BY <1>1, <1>2, <1>3 DEF Syms, MergesTo

(* An entry while objects are merged: no import, an id if it is defined.   *)
MergedEntry(e) ==
  e # None =>
    /\ ~e.import /\ (e.id = None <=> e.defined_in = None)
    /\ e.common # None => e.defined_in # None

(* The table new is t with another entry for n, that has the id of the one *)
(* in its place or a fresh one.                                            *)
Replaces(t, n, new) ==
  /\ \A m \in Names : m # n => new.res[m] = t.res[m]
  /\ new.res[n] # None
  /\ \/ /\ new.names = t.names
        /\ new.res[n].id = IF t.res[n] = None THEN None ELSE t.res[n].id
     \/ /\ new.names = Append(t.names, n)
        /\ new.res[n].id = Len(t.names) /\ (t.res[n] = None \/ t.res[n].id = None)

LEMMA MergeEffect ==
  ASSUME NEW t \in Tables, NEW o \in Nat, NEW sym \in Syms, sym.binding # "Local",
         MergedEntry(t.res[sym.name])
  PROVE  LET new == MergeSymbol(t, o, sym)
         IN /\ new \in Tables /\ Replaces(t, sym.name, new)
            /\ MergedEntry(new.res[sym.name])
<1> DEFINE e == t.res[sym.name]
<1>a. PICK new : new = MergeSymbol(t, o, sym)
  OBVIOUS
<1> SUFFICES new \in Tables /\ Replaces(t, sym.name, new) /\ MergedEntry(new.res[sym.name])
  BY <1>a
<1>0. MergesTo(t, o, sym, e, new)
  BY <1>a, MergeCases
<1>1. sym.name \in Names /\ sym.binding \in {"Weak", "Global"}
      /\ sym.size \in Nat /\ sym.align \in Nat
  BY DEF Syms
<1>2. e \in Entries \cup {None} /\ Len(t.names) \in Nat /\ None \notin Nat /\ None \notin Nat \X Nat
  BY <1>1, ResolveAssumption DEF Tables
<1>3. Undefined(sym.binding) \in Entries /\ Undefined("Global") \in Entries
  BY <1>1, UndefinedFacts
<1>4. CASE new = t /\ e # None
  BY <1>1, <1>2, <1>4 DEF MergedEntry, Replaces
<1>5. ASSUME NEW e2 \in Entries, new = Put(t, sym.name, e2), MergedEntry(e2),
             e2.id = IF e = None THEN None ELSE e.id
      PROVE  /\ new \in Tables /\ Replaces(t, sym.name, new)
             /\ MergedEntry(new.res[sym.name])
  BY <1>1, <1>5, PutFacts DEF Replaces
<1>6. ASSUME NEW e2 \in Entries, new = Mint(t, sym.name, e2), e2.defined_in = o, ~e2.import,
             e = None \/ e.id = None
      PROVE  /\ new \in Tables /\ Replaces(t, sym.name, new)
             /\ MergedEntry(new.res[sym.name])
  <2>1. new.res[sym.name] = WithId(e2, Len(t.names))
    BY <1>1, <1>6, MintFacts
  <2>2. /\ new.res[sym.name].id = Len(t.names) /\ new.res[sym.name].defined_in = o
        /\ ~new.res[sym.name].import
    BY <1>6, <2>1 DEF Entries, WithId
  <2>3. MergedEntry(new.res[sym.name])
    BY <1>2, <2>2 DEF MergedEntry
  <2>4. PICK n \in Names : n = sym.name
    BY <1>1
  <2>5. /\ Mint(t, n, e2) \in Tables
        /\ Mint(t, n, e2).names = Append(t.names, n)
        /\ Mint(t, n, e2).res[n] # None
        /\ \A m \in Names : m # n => Mint(t, n, e2).res[m] = t.res[m]
    BY MintFacts
  <2> QED BY <1>6, <2>2, <2>3, <2>4, <2>5 DEF Replaces
<1>7. CASE sym.kind = "undefined"
  <2>1. CASE e = None
    <3>1. new = Put(t, sym.name, Undefined(sym.binding))
      BY <1>0, <1>7, <2>1 DEF MergesTo
    <3> QED BY <1>1, <1>3, <1>5, <2>1, <3>1, UndefinedFacts DEF MergedEntry
  <2>2. CASE e # None /\ e.defined_in = None /\ sym.binding = "Global"
    <3>1. new = Put(t, sym.name, [e EXCEPT !.binding = "Global"])
      BY <1>0, <1>7, <2>2 DEF MergesTo
    <3>2. e \in Entries
      BY <1>2, <2>2
    <3>3. /\ [e EXCEPT !.binding = "Global"] \in Entries
          /\ [e EXCEPT !.binding = "Global"].id = e.id
          /\ [e EXCEPT !.binding = "Global"].import = e.import
          /\ [e EXCEPT !.binding = "Global"].defined_in = e.defined_in
          /\ [e EXCEPT !.binding = "Global"].common = e.common
      BY <3>2 DEF Entries
    <3>4. MergedEntry([e EXCEPT !.binding = "Global"])
      BY <2>2, <3>3 DEF MergedEntry
    <3> QED BY <1>5, <2>2, <3>1, <3>3, <3>4
  <2>3. CASE e # None /\ ~(e.defined_in = None /\ sym.binding = "Global")
    BY <1>0, <1>4, <1>7, <2>3 DEF MergesTo
  <2> QED BY <2>1, <2>2, <2>3
<1>8. CASE sym.kind = "common"
  <2>1. CASE e # None /\ e.common # None
    <3> DEFINE b == <<MaxOf(sym.size, e.common[1]), MaxOf(sym.align, e.common[2])>>
               e2 == [e EXCEPT !.common = b]
    <3>1. new = Put(t, sym.name, e2)
      BY <1>0, <1>8, <2>1 DEF MergesTo
    <3>2. e \in Entries /\ e.common \in Nat \X Nat
      BY <1>2, <2>1 DEF Entries
    <3>3. b \in Nat \X Nat
      BY <1>1, <3>2 DEF MaxOf
    <3>4. e2 \in Entries /\ e2.id = e.id /\ e2.import = e.import /\ e2.defined_in = e.defined_in
      BY <3>2, <3>3 DEF Entries
    <3>5. MergedEntry(e2)
      BY <2>1, <3>4 DEF MergedEntry
    <3> HIDE DEF e2
    <3> QED BY <1>5, <2>1, <3>1, <3>4, <3>5
  <2>2. CASE e # None /\ e.common = None /\ e.defined_in # None
    BY <1>0, <1>4, <1>8, <2>2 DEF MergesTo
  <2>3. CASE e = None \/ (e.common = None /\ e.defined_in = None)
    <3> DEFINE u == Undefined(sym.binding)
               e2 == [u EXCEPT !.defined_in = o, !.common = <<sym.size, sym.align>>]
    <3>1. new = Mint(t, sym.name, e2)
      BY <1>0, <1>8, <2>3 DEF MergesTo
    <3>2. e2 \in Entries /\ e2.defined_in = o /\ ~e2.import
      BY <1>1 DEF Undefined, Entries
    <3>3. e = None \/ e.id = None
      BY <2>3 DEF MergedEntry
    <3> HIDE DEF e2
    <3> QED BY <1>6, <3>1, <3>2, <3>3
  <2> QED BY <2>1, <2>2, <2>3
<1>9. CASE sym.kind = "defined"
  <2>1. CASE e = None
    <3>1. new = Mint(t, sym.name, Rebound(Undefined("Global"), o, sym))
      BY <1>0, <1>9, <2>1 DEF MergesTo
    <3>2. /\ Rebound(Undefined("Global"), o, sym) \in Entries
          /\ Rebound(Undefined("Global"), o, sym).defined_in = o
          /\ Rebound(Undefined("Global"), o, sym).import = FALSE
      BY <1>3, ReboundFacts, UndefinedFacts
    <3> QED BY <1>6, <2>1, <3>1, <3>2
  <2>2. CASE e # None /\ e.common = None /\ e.defined_in = None
    <3>1. new = Mint(t, sym.name, Rebound(e, o, sym))
      BY <1>0, <1>9, <2>2 DEF MergesTo
    <3>2. e \in Entries /\ ~e.import /\ e.id = None
      BY <1>2, <2>2 DEF MergedEntry
    <3> QED BY <1>6, <3>1, <3>2, ReboundFacts
  <2>3. CASE e # None /\ new = Put(t, sym.name, Rebound(e, o, sym)) /\ e.defined_in # None
    <3>1. e \in Entries /\ ~e.import /\ e.id # None
      BY <1>2, <2>3 DEF MergedEntry
    <3>2. MergedEntry(Rebound(e, o, sym))
      BY <1>2, <3>1, ReboundFacts DEF MergedEntry
    <3> QED BY <1>5, <2>3, <3>1, <3>2, ReboundFacts
  <2>4. CASE e # None /\ e.common # None
    <3>1. new = Put(t, sym.name, Rebound(e, o, sym))
      BY <1>0, <1>9, <2>4 DEF MergesTo
    <3> QED BY <2>3, <2>4, <3>1 DEF MergedEntry
  <2>5. CASE e # None /\ e.common = None /\ e.defined_in # None
    <3>1. new = Put(t, sym.name, Rebound(e, o, sym)) \/ new = t
      BY <1>0, <1>9, <2>5 DEF MergesTo
    <3> QED BY <1>4, <2>3, <2>5, <3>1
  <2> QED BY <2>1, <2>2, <2>4, <2>5
<1> QED BY <1>7, <1>8, <1>9 DEF Syms

(* Ids and names are a bijection.                                          *)
IdsOK(t) ==
  /\ \A i \in DOMAIN t.names : t.res[t.names[i]] # None /\ t.res[t.names[i]].id = i - 1
  /\ \A n \in Names :
       t.res[n] # None /\ t.res[n].id # None =>
         t.res[n].id < Len(t.names) /\ t.names[t.res[n].id + 1] = n

LEMMA IdsStep ==
  ASSUME NEW t \in Tables, IdsOK(t), NEW n \in Names, NEW new \in Tables, Replaces(t, n, new)
  PROVE  IdsOK(new)
<1>0. /\ \A m \in Names : m # n => new.res[m] = t.res[m]
      /\ new.res[n] # None
      /\ \/ /\ new.names = t.names
            /\ new.res[n].id = IF t.res[n] = None THEN None ELSE t.res[n].id
         \/ /\ new.names = Append(t.names, n)
            /\ new.res[n].id = Len(t.names) /\ (t.res[n] = None \/ t.res[n].id = None)
  BY DEF Replaces
<1>1. /\ t.names \in Seq(Names) /\ new.names \in Seq(Names)
      /\ \A m \in Names : new.res[m] \in Entries \cup {None} /\ t.res[m] \in Entries \cup {None}
      /\ None \notin Nat
  BY ResolveAssumption DEF Tables
<1>2. \A m \in Names : t.res[m] # None => t.res[m].id \in Nat \cup {None}
  BY <1>1 DEF Entries
<1>3. \A i \in DOMAIN t.names : /\ t.names[i] \in Names /\ i \in 1..Len(t.names)
                                /\ t.res[t.names[i]] # None /\ t.res[t.names[i]].id = i - 1
  BY <1>1 DEF IdsOK
<1>4. \A m \in Names :
        t.res[m] # None /\ t.res[m].id # None =>
          t.res[m].id < Len(t.names) /\ t.names[t.res[m].id + 1] = m
  BY DEF IdsOK
<1>5. CASE /\ new.names = t.names
           /\ new.res[n].id = IF t.res[n] = None THEN None ELSE t.res[n].id
  <2>1. ASSUME NEW i \in DOMAIN new.names
        PROVE  new.res[new.names[i]] # None /\ new.res[new.names[i]].id = i - 1
    BY <1>0, <1>3, <1>5
  <2>2. ASSUME NEW m \in Names, new.res[m] # None, new.res[m].id # None
        PROVE  new.res[m].id < Len(new.names) /\ new.names[new.res[m].id + 1] = m
    BY <1>0, <1>4, <1>5, <2>2
  <2> QED BY <2>1, <2>2 DEF IdsOK
<1>6. CASE /\ new.names = Append(t.names, n)
           /\ new.res[n].id = Len(t.names) /\ (t.res[n] = None \/ t.res[n].id = None)
  <2> DEFINE k == Len(t.names)
  <2>0. /\ k \in Nat /\ Len(new.names) = k + 1 /\ new.names[k + 1] = n
        /\ \A i \in 1..k : new.names[i] = t.names[i]
    BY <1>1, <1>6
  <2>1. ASSUME NEW i \in DOMAIN new.names
        PROVE  new.res[new.names[i]] # None /\ new.res[new.names[i]].id = i - 1
    <3>1. CASE i = k + 1
      BY <1>0, <1>6, <2>0, <3>1
    <3>2. CASE i # k + 1
      <4>1. i \in 1..k /\ i \in DOMAIN t.names /\ new.names[i] = t.names[i]
        BY <1>1, <2>0, <3>2
      <4>2. t.names[i] \in Names /\ t.res[t.names[i]] # None /\ t.res[t.names[i]].id = i - 1
            /\ i - 1 \in Nat
        BY <1>3, <4>1
      <4>3. t.names[i] # n
        BY <1>1, <1>6, <4>2
      <4> QED BY <1>0, <4>1, <4>2, <4>3
    <3> QED BY <3>1, <3>2
  <2>2. ASSUME NEW m \in Names, new.res[m] # None, new.res[m].id # None
        PROVE  new.res[m].id < Len(new.names) /\ new.names[new.res[m].id + 1] = m
    <3>1. CASE m = n
      BY <1>0, <1>6, <2>0, <3>1
    <3>2. CASE m # n
      <4>1. t.res[m] # None /\ new.res[m] = t.res[m] /\ t.res[m].id \in Nat
        BY <1>0, <1>2, <2>2, <3>2
      <4>2. t.res[m].id < k /\ t.names[t.res[m].id + 1] = m
        BY <1>0, <1>1, <1>4, <2>2, <4>1
      <4>3. PICK j : j = t.res[m].id
        OBVIOUS
      <4>4. j \in Nat /\ j < k /\ j + 1 \in 1..k /\ t.names[j + 1] = m /\ new.res[m].id = j
        BY <2>0, <4>1, <4>2, <4>3
      <4>5. j < k + 1 /\ new.names[j + 1] = m
        BY <2>0, <4>4
      <4> QED BY <2>0, <4>4, <4>5
    <3> QED BY <3>1, <3>2
  <2> QED BY <2>1, <2>2 DEF IdsOK
<1> QED BY <1>0, <1>5, <1>6

LEMMA ForceFacts ==
  ASSUME NEW t \in Tables, NEW ns
  PROVE  /\ ForceUndefined(t, ns) \in Tables
         /\ ForceUndefined(t, ns).names = t.names
         /\ \A n \in Names :
              LET e == t.res[n]
                  f == ForceUndefined(t, ns).res[n]
              IN /\ n \in ns /\ e = None => f = Undefined("Global")
                 /\ n \notin ns => f = e
                 /\ e # None =>
                      /\ f # None /\ f.id = e.id /\ f.defined_in = e.defined_in
                      /\ f.common = e.common /\ f.section = e.section /\ f.import = e.import
                      /\ f.binding = IF n \in ns /\ ~IsDefined(e) THEN "Global" ELSE e.binding
<1> DEFINE R == [n \in Names |->
                   CASE n \in ns /\ t.res[n] = None -> Undefined("Global")
                     [] n \in ns /\ t.res[n] # None /\ ~IsDefined(t.res[n]) ->
                          [t.res[n] EXCEPT !.binding = "Global"]
                     [] OTHER -> t.res[n]]
<1>1. /\ t = [res |-> t.res, names |-> t.names] /\ t.names \in Seq(Names)
      /\ t.res \in [Names -> Entries \cup {None}] /\ None \notin Entries
  BY ResolveAssumption DEF Tables
<1>2. ForceUndefined(t, ns) = [res |-> R, names |-> t.names]
  BY <1>1 DEF ForceUndefined
<1>3. ASSUME NEW n \in Names
      PROVE  /\ n \in ns /\ t.res[n] = None => R[n] = Undefined("Global")
             /\ n \in ns /\ t.res[n] # None /\ ~IsDefined(t.res[n]) =>
                  R[n] = [t.res[n] EXCEPT !.binding = "Global"]
             /\ ~(n \in ns /\ t.res[n] = None)
                /\ ~(n \in ns /\ t.res[n] # None /\ ~IsDefined(t.res[n])) => R[n] = t.res[n]
  OBVIOUS
<1>4. \A n \in Names : t.res[n] = None \/ t.res[n] \in Entries
  BY <1>1
<1>5. \A e \in Entries :
        /\ [e EXCEPT !.binding = "Global"] \in Entries
        /\ [e EXCEPT !.binding = "Global"].id = e.id
        /\ [e EXCEPT !.binding = "Global"].defined_in = e.defined_in
        /\ [e EXCEPT !.binding = "Global"].common = e.common
        /\ [e EXCEPT !.binding = "Global"].section = e.section
        /\ [e EXCEPT !.binding = "Global"].import = e.import
        /\ [e EXCEPT !.binding = "Global"].binding = "Global"
  BY DEF Entries
<1>6. Undefined("Global") \in Entries
  BY UndefinedFacts
<1> HIDE DEF R
<1>7. ASSUME NEW n \in Names
      PROVE  /\ R[n] \in Entries \cup {None}
             /\ n \in ns /\ t.res[n] = None => R[n] = Undefined("Global")
             /\ n \notin ns => R[n] = t.res[n]
             /\ t.res[n] # None =>
                  /\ R[n] # None /\ R[n].id = t.res[n].id
                  /\ R[n].defined_in = t.res[n].defined_in
                  /\ R[n].common = t.res[n].common /\ R[n].section = t.res[n].section
                  /\ R[n].import = t.res[n].import
                  /\ R[n].binding =
                       IF n \in ns /\ ~IsDefined(t.res[n]) THEN "Global" ELSE t.res[n].binding
  <2>1. CASE n \in ns /\ t.res[n] = None
    BY <1>3, <1>6, <2>1
  <2>2. CASE n \in ns /\ t.res[n] # None /\ ~IsDefined(t.res[n])
    <3>1. R[n] = [t.res[n] EXCEPT !.binding = "Global"] /\ t.res[n] \in Entries
      BY <1>3, <1>4, <2>2
    <3> QED BY <1>1, <1>5, <2>2, <3>1
  <2>3. CASE ~(n \in ns /\ t.res[n] = None)
             /\ ~(n \in ns /\ t.res[n] # None /\ ~IsDefined(t.res[n]))
    <3>1. R[n] = t.res[n]
      BY <1>3, <2>3
    <3> QED BY <1>4, <2>3, <3>1
  <2> QED BY <2>1, <2>2, <2>3
<1>8. R \in [Names -> Entries \cup {None}]
  <2>1. R = [n \in Names |-> R[n]]
    BY DEF R
  <2> QED BY <1>7, <2>1
<1>9. ForceUndefined(t, ns) \in Tables
  BY <1>1, <1>2, <1>8 DEF Tables
<1> QED BY <1>2, <1>7, <1>9

LEMMA DefineFacts ==
  ASSUME NEW t \in Tables, NEW ns
  PROVE  /\ DefineAbsolute(t, ns) \in Tables
         /\ DefineAbsolute(t, ns).names = t.names
         /\ \A n \in Names :
              LET e == t.res[n]
                  f == DefineAbsolute(t, ns).res[n]
              IN /\ n \notin ns => f = e
                 /\ n \in ns => /\ f # None /\ f.defined_in = 0 /\ f.section = None
                                /\ f.id = IF e = None THEN None ELSE e.id
<1> DEFINE R == [n \in Names |->
                   CASE n \notin ns -> t.res[n]
                     [] n \in ns /\ t.res[n] = None -> Absolute(Undefined("Global"))
                     [] n \in ns /\ t.res[n] # None -> Absolute(t.res[n])]
<1>1. /\ t = [res |-> t.res, names |-> t.names] /\ t.names \in Seq(Names)
      /\ t.res \in [Names -> Entries \cup {None}] /\ None \notin Entries
  BY ResolveAssumption DEF Tables
<1>2. DefineAbsolute(t, ns) = [res |-> R, names |-> t.names]
  BY <1>1 DEF DefineAbsolute
<1>3. Undefined("Global") \in Entries /\ Undefined("Global").id = None
  BY UndefinedFacts
<1>4. \A e \in Entries :
        /\ Absolute(e) \in Entries /\ Absolute(e).id = e.id
        /\ Absolute(e).defined_in = 0 /\ Absolute(e).section = None
  BY DEF Entries, Absolute
<1>5. \A n \in Names :
        /\ n \notin ns => R[n] = t.res[n]
        /\ n \in ns /\ t.res[n] = None => R[n] = Absolute(Undefined("Global"))
        /\ n \in ns /\ t.res[n] # None => R[n] = Absolute(t.res[n])
  OBVIOUS
<1>6. R = [n \in Names |-> R[n]]
  OBVIOUS
<1> HIDE DEF R
<1>7. ASSUME NEW n \in Names
      PROVE  /\ R[n] \in Entries \cup {None}
             /\ n \notin ns => R[n] = t.res[n]
             /\ n \in ns => /\ R[n] # None /\ R[n].defined_in = 0 /\ R[n].section = None
                            /\ R[n].id = IF t.res[n] = None THEN None ELSE t.res[n].id
  <2>1. CASE n \in ns /\ t.res[n] = None
    BY <1>1, <1>3, <1>4, <1>5, <2>1
  <2>2. CASE n \in ns /\ t.res[n] # None
    BY <1>1, <1>4, <1>5, <2>2
  <2>3. CASE n \notin ns
    BY <1>1, <1>5, <2>3
  <2> QED BY <2>1, <2>2, <2>3
<1>8. R \in [Names -> Entries \cup {None}]
  BY <1>6, <1>7
<1>9. DefineAbsolute(t, ns) \in Tables
  BY <1>1, <1>2, <1>8 DEF Tables
<1> QED BY <1>2, <1>7, <1>9

Imported(e) == [e EXCEPT !.import = TRUE]

LEMMA ImportedFacts ==
  ASSUME NEW e \in Entries
  PROVE  /\ Imported(e) \in Entries /\ Imported(e).import /\ Imported(e).id = e.id
         /\ Imported(e).binding = e.binding /\ Imported(e).defined_in = e.defined_in
         /\ Imported(e).section = e.section /\ Imported(e).common = e.common
BY DEF Imported, Entries

LEMMA WithIdFacts ==
  ASSUME NEW e \in Entries, NEW k \in Nat
  PROVE  /\ WithId(e, k) \in Entries /\ WithId(e, k).import = e.import /\ WithId(e, k).id = k
         /\ WithId(e, k).binding = e.binding /\ WithId(e, k).defined_in = e.defined_in
         /\ WithId(e, k).section = e.section /\ WithId(e, k).common = e.common
BY DEF WithId, Entries

-----------------------------------------------------------------------------
(* The types, the place of resolve, and the ids.                           *)

(* After the merges an import has an id as well, and nothing else has one  *)
(* until the weak references are given theirs.                             *)
NamedEntry(e) == e # None => (e.id = None <=> ~IsDefined(e))

IdInv ==
  /\ IdsOK(table)
  /\ pc \in Merging => \A n \in Names : MergedEntry(table.res[n])
  /\ pc = "shared" => \A n \in Names : NamedEntry(table.res[n])
  /\ pc = "weakgot" =>
       \A n \in Names :
         table.res[n] # None /\ IsDefined(table.res[n]) => table.res[n].id # None

Base == TypeOK /\ CurOK /\ IdInv

LEMMA InputFacts ==
  ASSUME TypeOK, NEW obj \in Inputs
  PROVE  /\ obj \in Objects /\ OneGroupEach(obj) /\ obj # None
         /\ obj.syms \in Seq(Syms) /\ DOMAIN obj.syms = 1..Len(obj.syms)
         /\ Len(obj.syms) \in Nat /\ \A i \in DOMAIN obj.syms : obj.syms[i] \in Syms
         /\ obj.groups \in Seq(Groups)
<1>1. obj \in Objects /\ OneGroupEach(obj)
  BY LinkFacts DEF TypeOK, Inputs
<1>2. obj # None
  BY <1>1, ResolveAssumption
<1>3. obj.syms \in Seq(Syms) /\ obj.groups \in Seq(Groups)
  BY <1>1 DEF Objects
<1>4. \A s \in Seq(Syms) : /\ DOMAIN s = 1..Len(s) /\ Len(s) \in Nat
                           /\ \A i \in DOMAIN s : s[i] \in Syms
  OBVIOUS
<1> QED BY <1>1, <1>2, <1>3, <1>4

LEMMA ObjectFacts ==
  ASSUME TypeOK
  PROVE  /\ Len(objects) \in Nat /\ DOMAIN objects = 1..Len(objects)
         /\ \A o \in 1..Len(objects) : objects[o] \in Inputs
BY DEF TypeOK

(* The object that is resolved.                                            *)
Input == objects[cur.oid + 1]

LEMMA CurFacts ==
  ASSUME TypeOK, CurOK, Resolving
  PROVE  /\ cur \in Currents /\ cur.oid \in Nat /\ cur.at \in Nat \ {0}
         /\ cur.touched \in SUBSET Names
         /\ Len(objects) \in Nat /\ Len(objects) = cur.oid + 1
         /\ cur.oid + 1 \in DOMAIN objects
         /\ Input \in Inputs
         /\ Input.syms \in Seq(Syms) /\ DOMAIN Input.syms = 1..Len(Input.syms)
         /\ Len(Input.syms) \in Nat
         /\ cur.at <= Len(Input.syms) + 1
         /\ Unfinished <=> cur.at \in 1..Len(Input.syms)
         /\ Finished <=> cur.at = Len(Input.syms) + 1
         /\ Unfinished => Symbol \in Syms
<1>1. cur \in Currents
  BY DEF TypeOK, Resolving
<1>2. cur.oid \in Nat /\ cur.at \in Nat \ {0} /\ cur.touched \in SUBSET Names
  BY <1>1 DEF Currents
<1>3. Len(objects) \in Nat /\ DOMAIN objects = 1..Len(objects) /\ objects # <<>>
  BY DEF TypeOK, CurOK
<1>4. Len(objects) = cur.oid + 1 /\ cur.oid + 1 \in DOMAIN objects
  BY <1>2, <1>3 DEF CurOK
<1>5. Input \in Inputs
  BY <1>4 DEF TypeOK, Input
<1>6. /\ Input.syms \in Seq(Syms) /\ DOMAIN Input.syms = 1..Len(Input.syms)
      /\ Len(Input.syms) \in Nat /\ \A i \in DOMAIN Input.syms : Input.syms[i] \in Syms
  BY <1>5, InputFacts
<1>7. cur.at <= Len(Input.syms) + 1
  BY DEF CurOK, Input
<1>8. Unfinished <=> cur.at \in 1..Len(Input.syms)
  BY <1>6 DEF Unfinished, Input
<1>9. Finished <=> cur.at = Len(Input.syms) + 1
  <2>1. Finished <=> cur.at \notin 1..Len(Input.syms)
    BY <1>6 DEF Finished, Input
  <2> QED BY <1>2, <1>6, <1>7, <2>1
<1>10. Unfinished => Symbol \in Syms
  BY <1>6, <1>8 DEF Symbol, Sym, Input
<1> QED BY <1>1, <1>2, <1>3, <1>4, <1>5, <1>6, <1>7, <1>8, <1>9, <1>10

LEMMA BeginFacts ==
  ASSUME TypeOK, NEW obj \in Inputs, NEW touched \in SUBSET Names, Begin(obj, touched)
  PROVE  /\ objects' \in Seq(Inputs) /\ Len(objects') = Len(objects) + 1
         /\ \A o \in 1..Len(objects) : objects'[o] = objects[o]
         /\ objects'[Len(objects) + 1] = obj
         /\ seen_comdat' \in SUBSET STRING /\ excluded' \in SUBSET (Nat \X Nat)
         /\ cur' \in Currents /\ cur' # None
         /\ cur' = [oid |-> Len(objects), at |-> 1, touched |-> touched]
<1>1. objects \in Seq(Inputs) /\ Len(objects) \in Nat
  BY DEF TypeOK
<1>2. objects' = Append(objects, obj)
  BY DEF Begin
<1>3. /\ objects' \in Seq(Inputs) /\ Len(objects') = Len(objects) + 1
      /\ \A o \in 1..Len(objects) : objects'[o] = objects[o]
      /\ objects'[Len(objects) + 1] = obj
  BY <1>1, <1>2
<1>4. obj.groups \in Seq(Groups)
  BY InputFacts
<1>5. \A i \in DOMAIN obj.groups : obj.groups[i].sig \in STRING /\ obj.groups[i].members \in SUBSET Nat
  <2>1. \A i \in DOMAIN obj.groups : obj.groups[i] \in Groups
    BY <1>4
  <2> QED BY <2>1 DEF Groups
<1>6. seen_comdat' \in SUBSET STRING
  BY <1>5 DEF Begin, TypeOK
<1>7. DroppedSections(obj) \in SUBSET Nat
  BY <1>5 DEF DroppedSections, DroppedGroups
<1>8. excluded' \in SUBSET (Nat \X Nat)
  BY <1>1, <1>7 DEF Begin, TypeOK
<1>9. cur' = [oid |-> Len(objects), at |-> 1, touched |-> touched]
  BY DEF Begin
<1>10. cur' \in Currents
  BY <1>1, <1>9 DEF Currents
<1>11. cur' # None
  BY <1>10, ResolveAssumption
<1> QED BY <1>3, <1>6, <1>8, <1>9, <1>10, <1>11

(* A step that leaves the table and the object at hand alone, or that is    *)
(* done with it.                                                           *)
LEMMA BaseFrame ==
  ASSUME Base, TypeOK', table' = table,
         UNCHANGED <<objects, excluded, cur>> \/ cur' = None, pc' # "duplicate",
         cur' # None => pc' = pc,
         pc' \in Merging => pc \in Merging,
         pc' = "shared" => pc \in Merging \cup {"shared"},
         pc' = "weakgot" => pc \in {"shared", "weakgot"}
  PROVE  Base'
<1>1. CurOK'
  <2>1. CASE cur' = None
    BY <2>1 DEF CurOK, Resolving
  <2>2. CASE cur' # None
    BY <2>2 DEF Base, CurOK, Resolving
  <2> QED BY <2>1, <2>2
<1>2. IdsOK(table')
  BY DEF Base, IdInv
<1>3. ASSUME pc' \in Merging
      PROVE  \A n \in Names : MergedEntry(table'.res[n])
  BY <1>3 DEF Base, IdInv
<1>4. ASSUME pc' = "shared"
      PROVE  \A n \in Names : NamedEntry(table'.res[n])
  BY <1>4 DEF Base, IdInv, MergedEntry, NamedEntry, IsDefined
<1>5. ASSUME pc' = "weakgot"
      PROVE  \A n \in Names :
               table'.res[n] # None /\ IsDefined(table'.res[n]) => table'.res[n].id # None
  BY <1>5 DEF Base, IdInv, NamedEntry
<1> QED BY <1>1, <1>2, <1>3, <1>4, <1>5 DEF Base, IdInv

LEMMA TailFacts ==
  ASSUME NEW S, NEW s \in Seq(S), s # <<>>
  PROVE  Head(s) \in S /\ Tail(s) \in Seq(S) /\ Len(s) \in Nat \ {0}
         /\ DOMAIN s = 1..Len(s) /\ Head(s) = s[1]
OBVIOUS

(* The symbol at hand has a place in the table.                            *)
LEMMA MergeStep ==
  ASSUME Base, Merge, Kept(cur.oid, cur.at)
  PROVE  /\ Symbol \in Syms /\ Symbol.binding # "Local" /\ Symbol.name \in Names
         /\ pc \in Merging
         /\ table' = MergeSymbol(table, cur.oid, Symbol)
         /\ MergesTo(table, cur.oid, Symbol, table.res[Symbol.name], table')
         /\ table' \in Tables /\ table'.res[Symbol.name] # None
         /\ \A m \in Names : m # Symbol.name => table'.res[m] = table.res[m]
         /\ \A m \in Names : MergedEntry(table'.res[m])
         /\ IdsOK(table')
<1>1. Symbol \in Syms /\ Symbol.binding # "Local" /\ cur.oid \in Nat /\ Resolving
  BY CurFacts DEF Base, Merge, Unfinished, Kept, Symbol
<1>2. Symbol.name \in Names
  BY <1>1 DEF Syms
<1>3. pc \in Merging
  BY <1>1 DEF Base, CurOK, Merging
<1>4. table' = MergeSymbol(table, cur.oid, Symbol) /\ table \in Tables
  BY DEF Merge, Base, TypeOK
<1>5. MergesTo(table, cur.oid, Symbol, table.res[Symbol.name], table')
  BY <1>1, <1>4, MergeCases
<1>6. \A m \in Names : MergedEntry(table.res[m])
  BY <1>3 DEF Base, IdInv
<1>7. /\ table' \in Tables /\ Replaces(table, Symbol.name, table')
      /\ MergedEntry(table'.res[Symbol.name])
  BY <1>1, <1>2, <1>4, <1>6, MergeEffect
<1>8. /\ \A m \in Names : m # Symbol.name => table'.res[m] = table.res[m]
      /\ table'.res[Symbol.name] # None
  BY <1>7 DEF Replaces
<1>9. \A m \in Names : MergedEntry(table'.res[m])
  BY <1>6, <1>7, <1>8
<1>10. IdsOK(table)
  BY DEF Base, IdInv
<1>11. IdsOK(table')
  BY <1>2, <1>4, <1>7, <1>10, IdsStep
<1> QED BY <1>1, <1>2, <1>3, <1>4, <1>5, <1>7, <1>8, <1>9, <1>11

LEMMA Base_Merge ==
  ASSUME Base, Merge
  PROVE  Base'
<1>1. /\ Resolving /\ cur \in Currents /\ cur.oid \in Nat /\ cur.at \in Nat \ {0}
      /\ cur.at \in 1..Len(Input.syms) /\ Len(Input.syms) \in Nat
  BY CurFacts DEF Base, Merge, Unfinished
<1>2. cur' = [cur EXCEPT !.at = cur.at + 1]
  BY DEF Merge
<1>3. /\ cur' \in Currents /\ cur'.oid = cur.oid /\ cur'.at = cur.at + 1
  BY <1>1, <1>2 DEF Currents
<1>4. pc # "duplicate" /\ pc' = pc /\ pc \in Merging
  BY <1>1 DEF Merge, Base, CurOK, Merging
<1>5. table' \in Tables /\ IdsOK(table') /\ \A n \in Names : MergedEntry(table'.res[n])
  <2>1. CASE Kept(cur.oid, cur.at)
    BY <2>1, MergeStep
  <2>2. CASE ~Kept(cur.oid, cur.at)
    <3>1. table' = table
      BY <2>2 DEF Merge
    <3> QED BY <1>4, <3>1 DEF Base, IdInv, TypeOK
  <2> QED BY <2>1, <2>2
<1>6. TypeOK'
  BY <1>3, <1>5 DEF Base, TypeOK, Merge, Inputs, Named, Lazies, Archs, Loops
<1>7. CurOK'
  <2>1. /\ objects' = objects /\ objects # <<>> /\ cur.oid = Len(objects) - 1
        /\ pc \in {"bare", "whole", "startlib", "pull"}
    BY <1>1, <1>4 DEF Merge, Base, CurOK
  <2>2. cur'.at <= Len(objects'[cur'.oid + 1].syms) + 1
    BY <1>1, <1>3, <2>1 DEF Input
  <2> QED BY <1>3, <1>4, <2>1, <2>2 DEF CurOK
<1>8. IdInv'
  BY <1>4, <1>5 DEF IdInv, Merging
<1> QED BY <1>6, <1>7, <1>8 DEF Base

LEMMA InitFacts ==
  /\ EmptyTable \in Tables /\ NoMembers \in Lazies /\ NoArchives \in Archs /\ NoLibs \in Loops
  /\ \A n \in Names : EmptyTable.res[n] = None
  /\ EmptyTable.names = <<>>
<1>1. EmptyTable \in Tables
  BY DEF EmptyTable, Tables
<1>2. NoMembers \in Lazies
  BY DEF NoMembers, Lazies
<1>3. NoArchives \in Archs
  BY DEF NoArchives, Archs
<1>4. NoLibs \in Loops
  BY DEF NoLibs, Loops
<1> QED BY <1>1, <1>2, <1>3, <1>4 DEF EmptyTable

LEMMA BareFacts ==
  ASSUME NEW l \in Links, NEW crt
  PROVE  Bare(l, crt) \in Seq(ObjectsOf(l) \cup {None})
BY LinkFacts, OnlyFacts DEF Bare

LEMMA Base_Start ==
  ASSUME link' \in Links, pc' = "bare", injected' \in BOOLEAN, table' = EmptyTable,
         objects' = <<>>, seen_comdat' = {}, excluded' = {}, cur' = None,
         \E crt : queue' = Bare(link', crt),
         lazy' = NoMembers, arch' = NoArchives, shared' = NoLibs, link' = link
  PROVE  Base'
<1>1. TypeOK'
  <2>1. queue' \in Seq(Inputs' \cup {None})
    BY BareFacts DEF Inputs
  <2>2. lazy' \in Lazies' /\ arch' \in Archs' /\ shared' \in Loops'
    BY InitFacts DEF Lazies, Archs, Loops, Inputs, Named
  <2> QED BY <2>1, <2>2, InitFacts DEF TypeOK, Phases, Merging
<1>2. CurOK'
  BY DEF CurOK, Resolving
<1>3. IdInv'
  BY InitFacts DEF IdInv, IdsOK, MergedEntry
<1> QED BY <1>1, <1>2, <1>3 DEF Base

LEMMA Base_Init ==
  ASSUME Init
  PROVE  Base
<1>1. TypeOK
  <2>1. queue \in Seq(Inputs \cup {None})
    BY BareFacts DEF Inputs, Init
  <2>2. lazy \in Lazies /\ arch \in Archs /\ shared \in Loops /\ table \in Tables
    BY InitFacts DEF Init
  <2>3. objects \in Seq(Inputs) /\ excluded \in SUBSET (Nat \X Nat)
    BY DEF Init
  <2> QED BY <2>1, <2>2, <2>3 DEF TypeOK, Phases, Merging, Init
<1>2. CurOK
  BY DEF CurOK, Resolving, Init
<1>3. IdInv
  BY InitFacts DEF IdInv, IdsOK, MergedEntry, Init
<1> QED BY <1>1, <1>2, <1>3 DEF Base

LEMMA Base_Fail ==
  ASSUME Base, FailDuplicate
  PROVE  Base'
<1>1. TypeOK'
  BY DEF Base, TypeOK, FailDuplicate, Inputs, Named, Lazies, Archs, Loops, Phases, Merging
<1>2. Resolving /\ pc \in Merging
  BY DEF FailDuplicate, Unfinished, Base, CurOK, Merging
<1>3. CurOK'
  BY <1>2 DEF Base, CurOK, FailDuplicate, Resolving, Unfinished, Conflict, Kept, Sym, Symbol,
              Duplicate
<1>4. IdInv'
  BY <1>2 DEF Base, IdInv, FailDuplicate
<1> QED BY <1>1, <1>3, <1>4 DEF Base

LEMMA Base_Retry ==
  ASSUME Base, RetryWithoutCrt
  PROVE  Base'
BY Base_Start DEF RetryWithoutCrt, Base, TypeOK

LEMMA LazyFacts ==
  ASSUME TypeOK
  PROVE  /\ lazy.members \in Seq(Inputs \cup {None}) /\ lazy.at \in Nat \ {0}
         /\ lazy.undefined \in SUBSET Names /\ lazy.pulled \in Nat
         /\ Len(lazy.members) \in Nat /\ DOMAIN lazy.members = 1..Len(lazy.members)
         /\ \A i \in 1..Len(lazy.members) : lazy.members[i] \in Inputs \cup {None}
         /\ lazy = [members |-> lazy.members, at |-> lazy.at, undefined |-> lazy.undefined,
                    pulled |-> lazy.pulled]
<1>1. lazy \in Lazies
  BY DEF TypeOK
<1>2. lazy.members \in Seq(Inputs \cup {None})
  BY <1>1 DEF Lazies
<1> QED BY <1>1, <1>2 DEF Lazies

LEMMA ArchFacts ==
  ASSUME TypeOK
  PROVE  /\ arch.pending \in Seq(Named \cup {None}) /\ arch.skipped \in Seq(Named \cup {None})
         /\ arch.indexed \in Seq(Named \cup {None}) /\ arch.parsed \in Nat
         /\ arch.seen \in SUBSET (STRING \X Nat)
         /\ arch = [pending |-> arch.pending, skipped |-> arch.skipped, indexed |-> arch.indexed,
                    parsed |-> arch.parsed, seen |-> arch.seen]
BY DEF TypeOK, Archs

LEMMA LoopFacts ==
  ASSUME TypeOK
  PROVE  /\ shared.lib \in Nat \ {0} /\ shared.at \in Nat \ {0} /\ shared.satisfied \in BOOLEAN
         /\ shared.needed \in SUBSET STRING
BY DEF TypeOK, Loops

LEMMA NamedFacts ==
  ASSUME TypeOK, NEW a \in Named
  PROVE  /\ a \in Archives /\ a # None /\ a.name \in STRING /\ a.indexed \in BOOLEAN
         /\ a.members \in Seq(Inputs) /\ Len(a.members) \in Nat
         /\ DOMAIN a.members = 1..Len(a.members)
         /\ \A i \in 1..Len(a.members) : a.members[i] \in Inputs
<1>1. a \in Archives /\ a.members \in Seq(Inputs)
  BY LinkFacts DEF TypeOK, Inputs, Named
<1>2. a # None
  BY <1>1, ResolveAssumption
<1> QED BY <1>1, <1>2 DEF Archives

LEMMA MentionFacts ==
  ASSUME TypeOK, NEW obj \in Inputs
  PROVE  MemberDefines(obj) \in SUBSET Names /\ MemberRefers(obj) \in SUBSET Names
<1>1. \A i \in DOMAIN obj.syms : obj.syms[i] \in Syms
  BY InputFacts
<1>2. \A i \in DOMAIN obj.syms : obj.syms[i].name \in Names
  BY <1>1 DEF Syms
<1> QED BY <1>2 DEF MemberDefines, MemberRefers

(* resolve begins, in a phase that calls it.                               *)
LEMMA BaseBegin ==
  ASSUME Base, NEW obj \in Inputs, NEW touched \in SUBSET Names, Begin(obj, touched),
         pc \in {"bare", "whole", "startlib", "pull"},
         queue' \in Seq(Inputs \cup {None}), lazy' \in Lazies,
         UNCHANGED <<link, pc, injected, table, arch, shared>>
  PROVE  Base'
<1> USE DEF Base
<1>1. Inputs' = Inputs /\ Named' = Named /\ Lazies' = Lazies /\ Archs' = Archs /\ Loops' = Loops
  BY DEF Inputs, Named, Lazies, Archs, Loops
<1>2. /\ objects' \in Seq(Inputs) /\ Len(objects') = Len(objects) + 1
      /\ objects'[Len(objects) + 1] = obj
      /\ seen_comdat' \in SUBSET STRING /\ excluded' \in SUBSET (Nat \X Nat)
      /\ cur' \in Currents /\ cur' # None
      /\ cur' = [oid |-> Len(objects), at |-> 1, touched |-> touched]
  BY BeginFacts
<1>3. TypeOK'
  BY <1>1, <1>2 DEF TypeOK
<1>4. CurOK'
  <2>1. cur'.oid = Len(objects) /\ cur'.at = 1 /\ Len(objects) \in Nat /\ Len(obj.syms) \in Nat
    BY <1>2, InputFacts, ObjectFacts
  <2>2. objects' # <<>> /\ cur'.oid = Len(objects') - 1 /\ objects'[cur'.oid + 1] = obj
    BY <1>2, <2>1
  <2> QED BY <2>1, <2>2 DEF CurOK
<1>5. IdInv'
  BY DEF IdInv
<1> QED BY <1>3, <1>4, <1>5

LEMMA Base_ResolveNext ==
  ASSUME Base, ResolveNext
  PROVE  Base'
<1>1. queue \in Seq(Inputs \cup {None}) /\ queue # <<>> /\ Head(queue) # None
  BY DEF Base, TypeOK, ResolveNext
<1>2. Head(queue) \in Inputs /\ Tail(queue) \in Seq(Inputs \cup {None})
  BY <1>1, TailFacts
<1>3. lazy' \in Lazies /\ pc \in {"bare", "whole"}
  BY DEF Base, TypeOK, ResolveNext, Idle
<1> QED BY <1>2, <1>3, BaseBegin DEF ResolveNext

LEMMA Base_PassOver ==
  ASSUME Base, PassOver
  PROVE  Base'
<1>1. Tail(queue) \in Seq(Inputs \cup {None})
  BY TailFacts DEF Base, TypeOK, PassOver
<1>2. TypeOK'
  BY <1>1 DEF Base, TypeOK, PassOver, Inputs, Named, Lazies, Archs, Loops
<1> QED BY <1>2, BaseFrame DEF PassOver, Idle

LEMMA Base_Resolved ==
  ASSUME Base, Resolved
  PROVE  Base'
<1>1. TypeOK'
  BY DEF Base, TypeOK, Resolved, Inputs, Named, Lazies, Archs, Loops
<1> QED BY <1>1, BaseFrame DEF Resolved

LEMMA Base_BareDone ==
  ASSUME Base, BareDone
  PROVE  Base'
<1>1. table \in Tables /\ pc = "bare" /\ cur = None
  BY DEF Base, TypeOK, BareDone, Idle
<1>2. /\ table' \in Tables /\ table'.names = table.names
      /\ \A n \in Names :
           /\ n \in link.forced /\ table.res[n] = None => table'.res[n] = Undefined("Global")
           /\ n \notin link.forced => table'.res[n] = table.res[n]
           /\ table.res[n] # None =>
                /\ table'.res[n] # None /\ table'.res[n].id = table.res[n].id
                /\ table'.res[n].defined_in = table.res[n].defined_in
                /\ table'.res[n].common = table.res[n].common
                /\ table'.res[n].import = table.res[n].import
  BY <1>1, ForceFacts DEF BareDone
<1>3. queue' \in Seq(Inputs \cup {None})
  BY LinkFacts, OnlyFacts DEF BareDone, Parsable, Inputs, Base, TypeOK
<1>4. TypeOK'
  BY <1>2, <1>3 DEF Base, TypeOK, BareDone, Inputs, Named, Lazies, Archs, Loops, Phases, Merging
<1>5. ASSUME NEW n \in Names
      PROVE  /\ MergedEntry(table'.res[n])
             /\ table'.res[n] # None /\ table'.res[n].id # None =>
                  table.res[n] # None /\ table.res[n].id = table'.res[n].id
  <2>1. MergedEntry(table.res[n])
    BY <1>1 DEF Base, IdInv, Merging
  <2>2. CASE table.res[n] # None
    BY <1>2, <2>1, <2>2 DEF MergedEntry
  <2>3. CASE table.res[n] = None /\ n \in link.forced
    <3>1. table'.res[n] = Undefined("Global")
      BY <1>2, <2>3
    <3> QED BY <3>1, UndefinedFacts DEF MergedEntry
  <2>4. CASE table.res[n] = None /\ n \notin link.forced
    BY <1>2, <2>4 DEF MergedEntry
  <2> QED BY <2>2, <2>3, <2>4
<1>6. IdsOK(table')
  <2>1. IdsOK(table) /\ \A i \in DOMAIN table.names : table.names[i] \in Names
    BY <1>1 DEF Base, IdInv, Tables
  <2> QED BY <1>2, <1>5, <2>1 DEF IdsOK
<1>7. pc' = "whole" /\ cur' = None
  BY <1>1 DEF BareDone
<1>8. CurOK'
  BY <1>7 DEF CurOK, Resolving
<1>9. IdInv'
  BY <1>5, <1>6, <1>7 DEF IdInv
<1> QED BY <1>4, <1>8, <1>9 DEF Base

LEMMA GlobalFacts ==
  ASSUME TypeOK
  PROVE  GlobalUndefined(table) \in SUBSET Names
BY DEF GlobalUndefined

LEMMA Base_WholeDone ==
  ASSUME Base, WholeDone
  PROVE  Base'
<1>1. link.startlib \in Seq(Inputs \cup {None})
  <2>1. link.startlib \in Seq(Inputs)
    BY LinkFacts DEF Base, TypeOK, Inputs
  <2> QED BY <2>1, SeqMonotonic
<1>a. lazy' = [members |-> link.startlib, at |-> 1, undefined |-> GlobalUndefined(table),
               pulled |-> 0]
  BY DEF WholeDone, NoMembers
<1>b. GlobalUndefined(table) \in SUBSET Names
  BY GlobalFacts DEF Base
<1>2. lazy' \in Lazies
  BY <1>1, <1>a, <1>b DEF Lazies
<1>3. TypeOK'
  BY <1>2 DEF Base, TypeOK, WholeDone, Inputs, Named, Lazies, Archs, Loops, Phases, Merging
<1> QED BY <1>3, BaseFrame DEF WholeDone, Merging, Idle

(* The set that pull_lazy_members keeps, and its place in the list.        *)
LEMMA Base_SkipMember ==
  ASSUME Base, SkipMember
  PROVE  Base'
<1>a. lazy' = [members |-> lazy.members, at |-> lazy.at + 1, undefined |-> lazy.undefined,
               pulled |-> lazy.pulled]
  BY LazyFacts DEF SkipMember, Base
<1>b. /\ lazy.members \in Seq(Inputs \cup {None}) /\ lazy.at + 1 \in Nat \ {0}
      /\ lazy.undefined \in SUBSET Names /\ lazy.pulled \in Nat
  BY LazyFacts DEF Base
<1>1. lazy' \in Lazies
  BY <1>a, <1>b DEF Lazies
<1>2. TypeOK'
  BY <1>1 DEF Base, TypeOK, SkipMember, Inputs, Named, Lazies, Archs, Loops
<1> QED BY <1>2, BaseFrame DEF SkipMember, Pulling

LEMMA Base_PullMember ==
  ASSUME Base, PullMember
  PROVE  Base'
<1>1. PICK obj : obj = lazy.members[lazy.at]
  OBVIOUS
<1>2. lazy.at \in 1..Len(lazy.members) /\ obj \in Inputs
  BY <1>1, LazyFacts DEF Base, PullMember, Wanted
<1>3. PICK touched : touched = MemberDefines(obj) \cup MemberRefers(obj)
  OBVIOUS
<1>4. touched \in SUBSET Names
  BY <1>2, <1>3, MentionFacts DEF Base
<1>5. Begin(obj, touched)
  BY <1>1, <1>3 DEF PullMember
<1>6. [lazy.members EXCEPT ![lazy.at] = None] \in Seq(Inputs \cup {None})
  BY <1>2, LazyFacts, ExceptSeq DEF Base
<1>7. lazy' \in Lazies
  BY <1>6 DEF PullMember, Lazies, Base, TypeOK
<1>8. queue' \in Seq(Inputs \cup {None}) /\ pc \in {"bare", "whole", "startlib", "pull"}
  BY DEF Base, TypeOK, PullMember, Pulling
<1> QED BY <1>2, <1>4, <1>5, <1>7, <1>8, BaseBegin DEF PullMember

LEMMA Base_Reconcile ==
  ASSUME Base, Reconcile
  PROVE  Base'
<1>1. StillUndefined \in SUBSET Names
  BY LazyFacts, GlobalFacts DEF StillUndefined, Base
<1>a. lazy' = [members |-> lazy.members, at |-> lazy.at + 1, undefined |-> StillUndefined,
               pulled |-> lazy.pulled + 1]
  BY LazyFacts DEF Reconcile, Base
<1>b. /\ lazy.members \in Seq(Inputs \cup {None}) /\ lazy.at + 1 \in Nat \ {0}
      /\ lazy.pulled + 1 \in Nat
  BY LazyFacts DEF Base
<1>2. lazy' \in Lazies
  BY <1>1, <1>a, <1>b DEF Lazies
<1>3. TypeOK'
  BY <1>2 DEF Base, TypeOK, Reconcile, Inputs, Named, Lazies, Archs, Loops
<1> QED BY <1>3, BaseFrame DEF Reconcile

LEMMA Base_StartLibAgain ==
  ASSUME Base, StartLibAgain
  PROVE  Base'
<1>a. lazy' = [members |-> lazy.members, at |-> 1, undefined |-> lazy.undefined, pulled |-> 0]
  BY LazyFacts DEF StartLibAgain, Base
<1>b. lazy.members \in Seq(Inputs \cup {None}) /\ lazy.undefined \in SUBSET Names
  BY LazyFacts DEF Base
<1>1. lazy' \in Lazies
  BY <1>a, <1>b DEF Lazies
<1>2. TypeOK'
  BY <1>1 DEF Base, TypeOK, StartLibAgain, Inputs, Named, Lazies, Archs, Loops
<1> QED BY <1>2, BaseFrame DEF StartLibAgain

LEMMA Base_StartLibDone ==
  ASSUME Base, StartLibDone
  PROVE  Base'
<1>a. lazy' = [members |-> <<>>, at |-> 1, undefined |-> GlobalUndefined(table), pulled |-> 0]
  BY DEF StartLibDone, NoMembers
<1>b. <<>> \in Seq(Inputs \cup {None}) /\ GlobalUndefined(table) \in SUBSET Names
  BY GlobalFacts DEF Base
<1>1. lazy' \in Lazies
  BY <1>a, <1>b DEF Lazies
<1>2. Unique(link.archives) \in Seq(Named \cup {None})
  BY LinkFacts, OnlyFacts DEF Unique, Named, Base, TypeOK
<1>c. arch' = [pending |-> Unique(link.archives), skipped |-> <<>>, indexed |-> <<>>,
               parsed |-> 0, seen |-> {}]
  BY DEF StartLibDone, NoArchives
<1>d. <<>> \in Seq(Named \cup {None}) /\ {} \in SUBSET (STRING \X Nat)
  OBVIOUS
<1>3. arch' \in Archs
  BY <1>2, <1>c, <1>d DEF Archs
<1>4. TypeOK'
  BY <1>1, <1>3 DEF Base, TypeOK, StartLibDone, Inputs, Named, Lazies, Archs, Loops, Phases, Merging
<1> QED BY <1>4, BaseFrame DEF StartLibDone, Merging, AllTried, Pulling

LEMMA Base_Round ==
  ASSUME Base, Round
  PROVE  Base'
<1>a. arch' = [pending |-> arch.pending, skipped |-> <<>>, indexed |-> <<>>, parsed |-> 0,
               seen |-> arch.seen]
  BY ArchFacts DEF Round, Base
<1>b. /\ arch.pending \in Seq(Named \cup {None}) /\ <<>> \in Seq(Named \cup {None})
      /\ arch.seen \in SUBSET (STRING \X Nat)
  BY ArchFacts DEF Base
<1>1. arch' \in Archs
  BY <1>a, <1>b DEF Archs
<1>2. TypeOK'
  BY <1>1 DEF Base, TypeOK, Round, Inputs, Named, Lazies, Archs, Loops, Phases, Merging
<1>3. cur = None
  BY DEF Base, CurOK, Resolving, Round
<1> QED BY <1>2, <1>3, BaseFrame DEF Round, Merging

(* The archive at hand, and what is left.                                  *)
LEMMA ScanFacts ==
  ASSUME Base, arch.pending # <<>>
  PROVE  /\ Head(arch.pending) \in Named \cup {None}
         /\ Tail(arch.pending) \in Seq(Named \cup {None})
BY ArchFacts, TailFacts DEF Base

LEMMA Base_SkipArchive ==
  ASSUME Base, SkipArchive
  PROVE  Base'
<1>a. arch' = [pending |-> Tail(arch.pending), skipped |-> Append(arch.skipped, Head(arch.pending)),
               indexed |-> arch.indexed, parsed |-> arch.parsed, seen |-> arch.seen]
  BY ArchFacts DEF SkipArchive, Base
<1>b. Head(arch.pending) \in Named \cup {None} /\ Tail(arch.pending) \in Seq(Named \cup {None})
  BY ScanFacts DEF SkipArchive
<1>c. Append(arch.skipped, Head(arch.pending)) \in Seq(Named \cup {None})
  BY <1>b, ArchFacts, AppendProperties DEF Base
<1>d. /\ arch.indexed \in Seq(Named \cup {None}) /\ arch.parsed \in Nat
      /\ arch.seen \in SUBSET (STRING \X Nat)
  BY ArchFacts DEF Base
<1>1. arch' \in Archs
  BY <1>a, <1>b, <1>c, <1>d DEF Archs
<1>2. TypeOK'
  BY <1>1 DEF Base, TypeOK, SkipArchive, Inputs, Named, Lazies, Archs, Loops, Phases, Merging
<1> QED BY <1>2, BaseFrame DEF SkipArchive

LEMMA CollectedFacts ==
  ASSUME TypeOK, NEW a \in Named, NEW is
  PROVE  /\ Collected(a, is) \in Seq(Inputs \cup {None})
         /\ Parsable(a.members) \in Seq(Inputs \cup {None})
BY NamedFacts, OnlyFacts DEF Collected, Parsable

LEMMA Base_ParseMatching ==
  ASSUME Base, ParseMatching
  PROVE  Base'
<1>1. PICK a, is : a = Head(arch.pending) /\ is = Matching(a)
  OBVIOUS
<1>2. a \in Named /\ Tail(arch.pending) \in Seq(Named \cup {None})
  BY <1>1, ScanFacts DEF ParseMatching
<1>3. arch' = [pending |-> Tail(arch.pending), skipped |-> arch.skipped,
               indexed |-> Append(arch.indexed, a), parsed |-> arch.parsed + 1,
               seen |-> arch.seen \cup {<<a.name, i>> : i \in is}]
  BY <1>1, ArchFacts DEF ParseMatching, Base
<1>4. lazy' = [members |-> lazy.members \o Collected(a, is), at |-> lazy.at,
               undefined |-> lazy.undefined, pulled |-> lazy.pulled]
  BY <1>1, LazyFacts DEF ParseMatching, Base
<1>5. Append(arch.indexed, a) \in Seq(Named \cup {None})
  BY <1>2, ArchFacts, AppendProperties DEF Base
<1>6. arch.seen \cup {<<a.name, i>> : i \in is} \in SUBSET (STRING \X Nat)
  <2>1. is \subseteq Nat /\ a.name \in STRING
    BY <1>1, <1>2, NamedFacts DEF Matching, Base
  <2> QED BY <2>1, ArchFacts DEF Base
<1>7. arch.skipped \in Seq(Named \cup {None}) /\ arch.parsed + 1 \in Nat
  BY ArchFacts DEF Base
<1>8. arch' \in Archs
  BY <1>2, <1>3, <1>5, <1>6, <1>7 DEF Archs
<1>9. lazy.members \o Collected(a, is) \in Seq(Inputs \cup {None})
  BY <1>2, LazyFacts, CollectedFacts, ConcatProperties DEF Base
<1>10. lazy.at \in Nat \ {0} /\ lazy.undefined \in SUBSET Names /\ lazy.pulled \in Nat
  BY LazyFacts DEF Base
<1>11. lazy' \in Lazies
  BY <1>4, <1>9, <1>10 DEF Lazies
<1>12. TypeOK'
  BY <1>8, <1>11 DEF Base, TypeOK, ParseMatching, Inputs, Named, Lazies, Archs, Loops
<1> QED BY <1>12, BaseFrame DEF ParseMatching

LEMMA Base_ParseAll ==
  ASSUME Base, ParseAll
  PROVE  Base'
<1>1. PICK a : a = Head(arch.pending)
  OBVIOUS
<1>2. a \in Named /\ Tail(arch.pending) \in Seq(Named \cup {None})
  BY <1>1, ScanFacts DEF ParseAll
<1>3. arch' = [pending |-> Tail(arch.pending), skipped |-> arch.skipped,
               indexed |-> arch.indexed, parsed |-> arch.parsed + 1, seen |-> arch.seen]
  BY ArchFacts DEF ParseAll, Base
<1>4. lazy' = [members |-> lazy.members \o Parsable(a.members), at |-> lazy.at,
               undefined |-> lazy.undefined, pulled |-> lazy.pulled]
  BY <1>1, LazyFacts DEF ParseAll, Base
<1>7. /\ arch.skipped \in Seq(Named \cup {None}) /\ arch.indexed \in Seq(Named \cup {None})
      /\ arch.parsed + 1 \in Nat /\ arch.seen \in SUBSET (STRING \X Nat)
  BY ArchFacts DEF Base
<1>8. arch' \in Archs
  BY <1>2, <1>3, <1>7 DEF Archs
<1>9. lazy.members \o Parsable(a.members) \in Seq(Inputs \cup {None})
  BY <1>2, LazyFacts, CollectedFacts, ConcatProperties DEF Base
<1>10. lazy.at \in Nat \ {0} /\ lazy.undefined \in SUBSET Names /\ lazy.pulled \in Nat
  BY LazyFacts DEF Base
<1>11. lazy' \in Lazies
  BY <1>4, <1>9, <1>10 DEF Lazies
<1>12. TypeOK'
  BY <1>8, <1>11 DEF Base, TypeOK, ParseAll, Inputs, Named, Lazies, Archs, Loops
<1> QED BY <1>12, BaseFrame DEF ParseAll

LEMMA Base_ScanDone ==
  ASSUME Base, ScanDone
  PROVE  Base'
<1>a. lazy' = [members |-> lazy.members, at |-> 1, undefined |-> lazy.undefined, pulled |-> 0]
  BY LazyFacts DEF ScanDone, Base
<1>b. lazy.members \in Seq(Inputs \cup {None}) /\ lazy.undefined \in SUBSET Names
  BY LazyFacts DEF Base
<1>1. lazy' \in Lazies
  BY <1>a, <1>b DEF Lazies
<1>2. TypeOK'
  BY <1>1 DEF Base, TypeOK, ScanDone, Inputs, Named, Lazies, Archs, Loops, Phases, Merging
<1>3. cur = None
  BY DEF Base, CurOK, Resolving, ScanDone
<1> QED BY <1>2, <1>3, BaseFrame DEF ScanDone, Merging

LEMMA Base_RoundDone ==
  ASSUME Base, RoundDone
  PROVE  Base'
<1>a. arch' = [pending |-> NextPending, skipped |-> arch.skipped, indexed |-> arch.indexed,
               parsed |-> arch.parsed, seen |-> arch.seen]
  BY ArchFacts DEF RoundDone, Base
<1>b. /\ arch.skipped \in Seq(Named \cup {None}) /\ arch.indexed \in Seq(Named \cup {None})
      /\ arch.parsed \in Nat /\ arch.seen \in SUBSET (STRING \X Nat)
  BY ArchFacts DEF Base
<1>c. NextPending \in Seq(Named \cup {None})
  <2>1. (IF lazy.pulled > 0 THEN arch.indexed ELSE <<>>) \in Seq(Named \cup {None})
    BY <1>b
  <2> QED BY <1>b, <2>1, ConcatProperties DEF NextPending
<1>1. arch' \in Archs
  BY <1>a, <1>b, <1>c DEF Archs
<1>2. TypeOK'
  BY <1>1 DEF Base, TypeOK, RoundDone, Inputs, Named, Lazies, Archs, Loops, Phases, Merging
<1> QED BY <1>2, BaseFrame DEF RoundDone, Merging, AllTried, Pulling

LEMMA Base_ArchivesDone ==
  ASSUME Base, ArchivesDone
  PROVE  Base'
<1>1. TypeOK'
  BY DEF Base, TypeOK, ArchivesDone, Inputs, Named, Lazies, Archs, Loops, Phases, Merging
<1>2. cur = None
  BY DEF Base, CurOK, Resolving, ArchivesDone
<1> QED BY <1>1, <1>2, BaseFrame DEF ArchivesDone, Merging

(* The library at hand.                                                    *)
LEMMA LibFacts ==
  ASSUME TypeOK, NEW k \in DOMAIN link.libs
  PROVE  /\ link.libs[k].soname \in STRING /\ link.libs[k].as_needed \in BOOLEAN
         /\ link.libs[k].exports \in Seq(Names)
         /\ DOMAIN link.libs[k].exports = 1..Len(link.libs[k].exports)
         /\ Len(link.libs[k].exports) \in Nat
         /\ \A i \in DOMAIN link.libs[k].exports : link.libs[k].exports[i] \in Names
<1>1. link \in CommandLines
  BY LinkFacts DEF TypeOK
<1>2. link.libs \in Seq(Libraries)
  BY <1>1 DEF CommandLines
<1>3. link.libs[k] \in Libraries
  BY <1>2
<1>4. link.libs[k].exports \in Seq(Names)
  BY <1>3 DEF Libraries
<1> QED BY <1>3, <1>4 DEF Libraries

LEMMA LibsFacts ==
  ASSUME TypeOK
  PROVE  DOMAIN link.libs = 1..Len(link.libs) /\ Len(link.libs) \in Nat
<1>1. link \in CommandLines
  BY LinkFacts DEF TypeOK
<1>2. link.libs \in Seq(Libraries)
  BY <1>1 DEF CommandLines
<1> QED BY <1>2

(* An export, or a weak reference through the GOT, mints at most one id.   *)
LEMMA MintStep ==
  ASSUME NEW t \in Tables, IdsOK(t), NEW n \in Names, NEW e \in Entries,
         t.res[n] # None, t.res[n].id = None
  PROVE  /\ Mint(t, n, e) \in Tables /\ IdsOK(Mint(t, n, e))
         /\ Mint(t, n, e).res[n] = WithId(e, Len(t.names))
         /\ Mint(t, n, e).res[n] \in Entries /\ Mint(t, n, e).res[n] # None
         /\ Mint(t, n, e).res[n].id # None
         /\ \A m \in Names : m # n => Mint(t, n, e).res[m] = t.res[m]
<1>1. PICK new : new = Mint(t, n, e)
  OBVIOUS
<1>2. /\ new \in Tables /\ new.names = Append(t.names, n)
      /\ new.res[n] = WithId(e, Len(t.names)) /\ new.res[n] \in Entries /\ new.res[n] # None
      /\ \A m \in Names : m # n => new.res[m] = t.res[m]
  BY <1>1, MintFacts
<1>3. Len(t.names) \in Nat
  BY DEF Tables
<1>4. new.res[n].id = Len(t.names)
  BY <1>2, <1>3, WithIdFacts
<1>5. Replaces(t, n, new)
  BY <1>2, <1>4 DEF Replaces
<1>6. IdsOK(new)
  BY <1>2, <1>5, IdsStep
<1>7. new.res[n].id # None
  BY <1>3, <1>4, ResolveAssumption
<1> QED BY <1>1, <1>2, <1>6, <1>7

LEMMA RegisterFacts ==
  ASSUME Base, Register
  PROVE  /\ shared.lib \in DOMAIN link.libs /\ pc = "shared" /\ pc' = "shared"
         /\ shared.at \in DOMAIN Exports /\ Exports[shared.at] \in Names
         /\ table' \in Tables /\ IdsOK(table')
         /\ \A m \in Names : NamedEntry(table'.res[m])
         /\ \A m \in Names :
              m # Exports[shared.at] \/ ~Satisfies(table, m) => table'.res[m] = table.res[m]
         /\ Satisfies(table, Exports[shared.at]) =>
              /\ table'.res[Exports[shared.at]] # None
              /\ table'.res[Exports[shared.at]].import
              /\ table'.res[Exports[shared.at]].binding = table.res[Exports[shared.at]].binding
              /\ table'.res[Exports[shared.at]].section = table.res[Exports[shared.at]].section
              /\ table'.res[Exports[shared.at]].common = table.res[Exports[shared.at]].common
              /\ table'.res[Exports[shared.at]].defined_in =
                   table.res[Exports[shared.at]].defined_in
<1> USE DEF Base
<1>1. /\ shared.lib \in DOMAIN link.libs /\ pc = "shared" /\ pc' = "shared"
      /\ shared.at \in DOMAIN Exports
  BY DEF Register, Reading
<1>2. Exports[shared.at] \in Names
  BY <1>1, LibFacts DEF Exports
<1>3. PICK n \in Names : n = Exports[shared.at]
  BY <1>2
<1>4. table \in Tables /\ table' = RegisterExport(table, n)
  BY <1>3 DEF Register, TypeOK
<1>5. IdsOK(table) /\ \A m \in Names : NamedEntry(table.res[m])
  BY <1>1 DEF IdInv
<1>6. CASE ~Satisfies(table, n)
  <2>1. table' = table
    BY <1>4, <1>6 DEF RegisterExport
  <2> QED BY <1>1, <1>2, <1>3, <1>4, <1>5, <1>6, <2>1
<1>7. CASE Satisfies(table, n)
  <2>1. table.res[n] # None /\ ~IsDefined(table.res[n]) /\ table.res[n] \in Entries
        /\ table.res[n].id = None
    BY <1>4, <1>5, <1>7 DEF Satisfies, Tables, NamedEntry
  <2>2. PICK e : e = Imported(table.res[n])
    OBVIOUS
  <2>3. /\ e \in Entries /\ e.import /\ e.binding = table.res[n].binding
        /\ e.defined_in = table.res[n].defined_in /\ e.section = table.res[n].section
        /\ e.common = table.res[n].common
    BY <2>1, <2>2, ImportedFacts
  <2>4. table' = Mint(table, n, e)
    BY <1>4, <1>7, <2>2 DEF RegisterExport, Imported
  <2>5. /\ table' \in Tables /\ IdsOK(table')
        /\ table'.res[n] = WithId(e, Len(table.names))
        /\ table'.res[n] # None /\ table'.res[n].id # None
        /\ \A m \in Names : m # n => table'.res[m] = table.res[m]
    BY <1>4, <1>5, <2>1, <2>3, <2>4, MintStep
  <2>6. Len(table.names) \in Nat
    BY <1>4 DEF Tables
  <2>7. /\ table'.res[n].import /\ table'.res[n].binding = table.res[n].binding
        /\ table'.res[n].defined_in = table.res[n].defined_in
        /\ table'.res[n].section = table.res[n].section
        /\ table'.res[n].common = table.res[n].common
    <3>1. PICK k \in Nat : k = Len(table.names)
      BY <2>6
    <3>2. /\ WithId(e, k).defined_in = e.defined_in /\ WithId(e, k).section = e.section
          /\ WithId(e, k).import = e.import /\ WithId(e, k).binding = e.binding
          /\ WithId(e, k).common = e.common
      BY <2>3, WithIdFacts
    <3> QED BY <2>3, <2>5, <3>1, <3>2
  <2>8. NamedEntry(table'.res[n])
    BY <2>5, <2>7 DEF NamedEntry, IsDefined
  <2> QED BY <1>1, <1>2, <1>3, <1>5, <1>7, <2>5, <2>7, <2>8
<1> QED BY <1>6, <1>7

LEMMA Base_Register ==
  ASSUME Base, Register
  PROVE  Base'
<1>a. shared' = [lib |-> shared.lib, at |-> shared.at + 1,
                 satisfied |-> shared.satisfied \/ Satisfies(table, Exports[shared.at]),
                 needed |-> shared.needed]
  BY DEF Register, Base, TypeOK, Loops
<1>b. /\ shared.lib \in Nat \ {0} /\ shared.at + 1 \in Nat \ {0} /\ shared.needed \in SUBSET STRING
  BY LoopFacts DEF Base
<1>1. shared' \in Loops
  BY <1>a, <1>b, LoopFacts DEF Loops, Base, Satisfies
<1>2. table' \in Tables /\ pc' = "shared" /\ IdsOK(table')
      /\ \A m \in Names : NamedEntry(table'.res[m])
  BY RegisterFacts
<1>3. TypeOK'
  BY <1>1, <1>2 DEF Base, TypeOK, Register, Inputs, Named, Lazies, Archs, Loops
<1>4. cur' = None
  BY RegisterFacts DEF Base, CurOK, Resolving, Register
<1>5. CurOK'
  BY <1>2, <1>4 DEF CurOK, Resolving
<1>6. IdInv'
  BY <1>2 DEF IdInv, Merging
<1> QED BY <1>3, <1>5, <1>6 DEF Base

LEMMA Base_LibraryDone ==
  ASSUME Base, LibraryDone
  PROVE  Base'
<1>1. PICK lib : lib = link.libs[shared.lib]
  OBVIOUS
<1>2. PICK new : new = shared.needed \cup (IF Needed(lib) THEN {lib.soname} ELSE {})
  OBVIOUS
<1>3. shared' = [lib |-> shared.lib + 1, at |-> 1, satisfied |-> FALSE, needed |-> new]
  BY <1>1, <1>2 DEF LibraryDone
<1>4. new \in SUBSET STRING
  <2>1. lib.soname \in STRING /\ shared.needed \in SUBSET STRING
    BY <1>1, LibFacts, LoopFacts DEF Base, LibraryDone, Reading
  <2> QED BY <1>2, <2>1
<1>5. shared.lib + 1 \in Nat \ {0}
  BY LoopFacts DEF Base
<1>6. shared' \in Loops
  BY <1>3, <1>4, <1>5 DEF Loops
<1>7. TypeOK'
  BY <1>6 DEF Base, TypeOK, LibraryDone, Inputs, Named, Lazies, Archs, Loops
<1> QED BY <1>7, BaseFrame DEF LibraryDone, Reading

LEMMA Base_SharedDone ==
  ASSUME Base, SharedDone
  PROVE  Base'
<1>1. TypeOK'
  BY DEF Base, TypeOK, SharedDone, Inputs, Named, Lazies, Archs, Loops, Phases, Merging
<1>2. cur = None
  BY DEF Base, CurOK, Resolving, SharedDone
<1> QED BY <1>1, <1>2, BaseFrame DEF SharedDone, Merging

LEMMA WeakGotFacts ==
  ASSUME Base, AssignWeakGotId
  PROVE  /\ table' \in Tables /\ IdsOK(table') /\ pc' = "weakgot" /\ pc = "weakgot"
         /\ \A m \in Names :
              /\ table'.res[m] # None /\ IsDefined(table'.res[m]) => table'.res[m].id # None
              /\ table'.res[m] = None <=> table.res[m] = None
              /\ table.res[m] # None =>
                   /\ table'.res[m].defined_in = table.res[m].defined_in
                   /\ table'.res[m].section = table.res[m].section
                   /\ table'.res[m].import = table.res[m].import
                   /\ table'.res[m].binding = table.res[m].binding
                   /\ table'.res[m].common = table.res[m].common
<1> USE DEF Base
<1>1. PICK n \in NeedsGotId : table' = Mint(table, n, table.res[n])
  BY DEF AssignWeakGotId
<1>2. n \in Names /\ table.res[n] # None /\ table.res[n].id = None /\ table.res[n] \in Entries
      /\ table \in Tables
  BY <1>1 DEF NeedsGotId, Satisfies, Tables, TypeOK
<1>3. pc = "weakgot" /\ pc' = "weakgot" /\ IdsOK(table)
      /\ \A m \in Names :
           table.res[m] # None /\ IsDefined(table.res[m]) => table.res[m].id # None
  BY DEF AssignWeakGotId, IdInv
<1>4. /\ table' \in Tables /\ IdsOK(table')
      /\ table'.res[n] = WithId(table.res[n], Len(table.names))
      /\ table'.res[n] # None /\ table'.res[n].id # None
      /\ \A m \in Names : m # n => table'.res[m] = table.res[m]
  BY <1>1, <1>2, <1>3, MintStep
<1>5. Len(table.names) \in Nat
  BY <1>2 DEF Tables
<1>6. /\ table'.res[n].defined_in = table.res[n].defined_in
      /\ table'.res[n].section = table.res[n].section
      /\ table'.res[n].import = table.res[n].import
      /\ table'.res[n].binding = table.res[n].binding
      /\ table'.res[n].common = table.res[n].common
  <2>1. PICK e, k : e = table.res[n] /\ k = Len(table.names)
    OBVIOUS
  <2>2. table'.res[n] = WithId(e, k) /\ e \in Entries /\ k \in Nat
    BY <1>2, <1>4, <1>5, <2>1
  <2>3. /\ WithId(e, k).defined_in = e.defined_in /\ WithId(e, k).section = e.section
        /\ WithId(e, k).import = e.import /\ WithId(e, k).binding = e.binding
        /\ WithId(e, k).common = e.common
    BY <2>2, WithIdFacts
  <2> QED BY <2>1, <2>2, <2>3
<1> QED BY <1>2, <1>3, <1>4, <1>6

LEMMA Base_AssignWeakGotId ==
  ASSUME Base, AssignWeakGotId
  PROVE  Base'
<1>1. /\ table' \in Tables /\ IdsOK(table') /\ pc' = "weakgot" /\ pc = "weakgot"
      /\ \A m \in Names :
           table'.res[m] # None /\ IsDefined(table'.res[m]) => table'.res[m].id # None
  BY WeakGotFacts
<1>2. TypeOK'
  BY <1>1 DEF Base, TypeOK, AssignWeakGotId, Inputs, Named, Lazies, Archs, Loops
<1>3. cur' = None
  BY <1>1 DEF Base, CurOK, Resolving, AssignWeakGotId
<1>4. CurOK'
  BY <1>1, <1>3 DEF CurOK, Resolving
<1>5. IdInv'
  BY <1>1 DEF IdInv, Merging
<1> QED BY <1>2, <1>4, <1>5 DEF Base

LEMMA Base_Predefine ==
  ASSUME Base, Predefine
  PROVE  Base'
<1>1. PICK wanted : /\ wanted = {n \in Provided : table.res[n] # None /\ table.res[n].defined_in = None}
                    /\ table' = DefineAbsolute(DefineAbsolute(table, wanted), link.defsyms)
  BY DEF Predefine
<1>2. PICK t : t = DefineAbsolute(table, wanted)
  OBVIOUS
<1>3. table \in Tables /\ IdsOK(table) /\ pc' = "check" /\ None \notin Nat
  BY ResolveAssumption DEF Base, TypeOK, IdInv, Predefine
<1>a. ASSUME NEW t1 \in Tables, NEW ns, IdsOK(t1)
      PROVE  DefineAbsolute(t1, ns) \in Tables /\ IdsOK(DefineAbsolute(t1, ns))
  <2>1. PICK t2 : t2 = DefineAbsolute(t1, ns)
    OBVIOUS
  <2>2. t2 \in Tables /\ t2.names = t1.names
    BY <2>1, DefineFacts
  <2>3. \A n \in Names :
          /\ n \notin ns => t2.res[n] = t1.res[n]
          /\ n \in ns => t2.res[n] # None
                         /\ t2.res[n].id = IF t1.res[n] = None THEN None ELSE t1.res[n].id
    BY <2>1, DefineFacts
  <2>4. \A i \in DOMAIN t1.names : t1.names[i] \in Names
    BY DEF Tables
  <2>5. IdsOK(t2)
    BY <1>a, <2>2, <2>3, <2>4 DEF IdsOK
  <2> QED BY <2>1, <2>2, <2>5
<1>4. t \in Tables /\ IdsOK(t)
  BY <1>2, <1>3, <1>a
<1>5. table' \in Tables /\ IdsOK(table')
  BY <1>1, <1>2, <1>4, <1>a
<1>6. TypeOK'
  BY <1>3, <1>5 DEF Base, TypeOK, Predefine, Inputs, Named, Lazies, Archs, Loops, Phases
<1>7. cur' = None
  BY DEF Base, CurOK, Resolving, Predefine
<1>8. CurOK'
  BY <1>3, <1>7 DEF CurOK, Resolving
<1>9. IdInv'
  BY <1>3, <1>5 DEF IdInv, Merging
<1> QED BY <1>6, <1>8, <1>9 DEF Base

LEMMA Base_Check ==
  ASSUME Base, Check
  PROVE  Base'
<1>1. TypeOK'
  BY DEF Base, TypeOK, Check, Inputs, Named, Lazies, Archs, Loops, Phases, Merging
<1>2. cur = None
  BY DEF Base, CurOK, Resolving, Check
<1> QED BY <1>1, <1>2, BaseFrame DEF Check, Merging

LEMMA Base_Stutter ==
  ASSUME Base, UNCHANGED rvars
  PROVE  Base'
<1>1. TypeOK'
  BY DEF Base, TypeOK, rvars, Inputs, Named, Lazies, Archs, Loops
<1>2. CurOK'
  BY DEF Base, CurOK, rvars, Resolving, Unfinished, Conflict, Kept, Sym, Symbol, Duplicate
<1>3. IdInv'
  BY DEF Base, IdInv, rvars
<1> QED BY <1>1, <1>2, <1>3 DEF Base

LEMMA Base_Next ==
  ASSUME Base, [Next]_rvars
  PROVE  Base'
BY Base_Merge, Base_Retry, Base_Fail, Base_ResolveNext, Base_PassOver, Base_Resolved,
   Base_BareDone, Base_WholeDone, Base_SkipMember, Base_PullMember, Base_Reconcile,
   Base_StartLibAgain, Base_StartLibDone, Base_Round, Base_SkipArchive, Base_ParseMatching,
   Base_ParseAll, Base_ScanDone, Base_RoundDone, Base_ArchivesDone, Base_Register,
   Base_LibraryDone, Base_SharedDone, Base_AssignWeakGotId, Base_Predefine, Base_Check,
   Base_Stutter
DEF Next

(* The types, the place of resolve and the ids, in every state.            *)
THEOREM BaseInvariant == Spec => []Base
<1>1. Init => Base
  BY Base_Init
<1>2. Base /\ [Next]_rvars => Base'
  BY Base_Next
<1> QED BY <1>1, <1>2, PTL DEF Spec

-----------------------------------------------------------------------------
(* The table is the reference resolution.  What was merged is a function V *)
(* from pairs of object id and position to symbols.                        *)
For(V, n, kind) == {p \in DOMAIN V : V[p].name = n /\ V[p].kind = kind}
Defs(V, n) == For(V, n, "defined")
StrongOf(V, n) == {p \in Defs(V, n) : V[p].binding = "Global"}
Commons(V, n) == For(V, n, "common")
Refs(V, n) == For(V, n, "undefined")

Before(p, q) == p[1] < q[1] \/ (p[1] = q[1] /\ p[2] <= q[2])
First(p, S) == p \in S /\ \A q \in S : Before(p, q)
Largest(k, S) == k \in S /\ \A j \in S : k >= j

(* The entry e is the definition p.                                        *)
Holds(V, e, p) ==
  /\ e # None /\ e.defined_in = p[1] /\ e.section = V[p].section
  /\ e.binding = V[p].binding /\ e.common = None

IsBlock(V, n, e) ==
  /\ e # None /\ e.section = None /\ e.common # None
  /\ \E p \in Commons(V, n) : First(p, Commons(V, n)) /\ e.defined_in = p[1]
  /\ Largest(e.common[1], {V[p].size : p \in Commons(V, n)})
  /\ Largest(e.common[2], {V[p].align : p \in Commons(V, n)})

(* Forced is f, as -u does, and n referred to.                             *)
Demanded(V, n, f) == f \/ \E p \in Refs(V, n) : V[p].binding = "Global"

IsOpen(V, n, f, e) ==
  /\ e # None /\ e.defined_in = None /\ e.common = None
  /\ e.binding = IF Demanded(V, n, f) THEN "Global" ELSE "Weak"

(* What the entry e of the name n has to be.                               *)
RefOf(V, f, n, e) ==
  /\ \A p, q \in StrongOf(V, n) : p = q
  /\ \A p \in StrongOf(V, n) : Holds(V, e, p)
  /\ StrongOf(V, n) = {} /\ Defs(V, n) # {} =>
       \E p \in Defs(V, n) : First(p, Defs(V, n)) /\ Holds(V, e, p)
  /\ Defs(V, n) = {} /\ Commons(V, n) # {} => IsBlock(V, n, e)
  /\ Defs(V, n) = {} /\ Commons(V, n) = {} /\ (Refs(V, n) # {} \/ f) => IsOpen(V, n, f, e)
  /\ Defs(V, n) = {} /\ Commons(V, n) = {} /\ Refs(V, n) = {} /\ ~f => e = None

(* The same definition, or the same reference.                             *)
SameTarget(e, g) ==
  /\ g # None /\ g.defined_in = e.defined_in /\ g.section = e.section
  /\ g.binding = e.binding /\ g.common = e.common

(* Merging sym of object o puts g in the place of e.                       *)
Takes(o, sym, g) ==
  /\ g # None /\ g.defined_in = o /\ g.section = sym.section
  /\ g.binding = sym.binding /\ g.common = None

EntryTo(o, sym, e, g) ==
  /\ sym.kind = "undefined" =>
       /\ e = None => /\ g # None /\ g.defined_in = None /\ g.common = None
                      /\ g.binding = sym.binding
       /\ e # None => /\ g # None /\ g.defined_in = e.defined_in /\ g.section = e.section
                      /\ g.common = e.common
                      /\ g.binding = IF e.defined_in = None /\ sym.binding = "Global"
                                     THEN "Global" ELSE e.binding
  /\ sym.kind = "common" =>
       /\ e # None /\ e.common # None =>
            /\ g # None /\ g.defined_in = e.defined_in /\ g.section = e.section
            /\ g.common = <<MaxOf(sym.size, e.common[1]), MaxOf(sym.align, e.common[2])>>
       /\ e # None /\ e.common = None /\ e.defined_in # None => SameTarget(e, g)
       /\ e = None \/ (e.common = None /\ e.defined_in = None) =>
            /\ g # None /\ g.defined_in = o /\ g.section = None
            /\ g.common = <<sym.size, sym.align>>
  /\ sym.kind = "defined" =>
       /\ \/ e = None \/ e.common # None \/ e.defined_in = None
          \/ e.binding = "Weak" /\ sym.binding = "Global"
          => Takes(o, sym, g)
       /\ /\ e # None /\ e.common = None /\ e.defined_in # None
          /\ ~(e.binding = "Weak" /\ sym.binding = "Global")
          => SameTarget(e, g)

LEMMA EntryCases ==
  ASSUME NEW t \in Tables, NEW o \in Nat, NEW sym \in Syms, sym.binding # "Local",
         MergedEntry(t.res[sym.name]), NEW new, MergesTo(t, o, sym, t.res[sym.name], new)
  PROVE  EntryTo(o, sym, t.res[sym.name], new.res[sym.name])
<1>1. PICK e : e = t.res[sym.name]
  OBVIOUS
<1>2. PICK g : g = new.res[sym.name]
  OBVIOUS
<1> SUFFICES EntryTo(o, sym, e, g)
  BY <1>1, <1>2
<1>3. sym.name \in Names /\ sym.binding \in {"Weak", "Global"} /\ sym.size \in Nat
      /\ sym.align \in Nat /\ sym.kind \in {"undefined", "common", "defined"}
  BY DEF Syms
<1>4. /\ e \in Entries \cup {None} /\ Len(t.names) \in Nat /\ None \notin Nat
      /\ None \notin Nat \X Nat /\ None \notin Entries
  BY <1>1, <1>3, ResolveAssumption DEF Tables
<1>5. \A e2 \in Entries : new = Put(t, sym.name, e2) => g = e2
  BY <1>2, <1>3, PutFacts
<1>6. \A e2 \in Entries : new = Mint(t, sym.name, e2) =>
        /\ g # None /\ g.defined_in = e2.defined_in /\ g.section = e2.section
        /\ g.binding = e2.binding /\ g.common = e2.common
  <2>1. SUFFICES ASSUME NEW e2 \in Entries, new = Mint(t, sym.name, e2)
                 PROVE  /\ g # None /\ g.defined_in = e2.defined_in /\ g.section = e2.section
                        /\ g.binding = e2.binding /\ g.common = e2.common
    OBVIOUS
  <2>2. PICK k \in Nat : k = Len(t.names)
    BY <1>4
  <2>3. g = WithId(e2, k)
    BY <1>2, <1>3, <2>1, <2>2, MintFacts
  <2>4. /\ WithId(e2, k).defined_in = e2.defined_in /\ WithId(e2, k).section = e2.section
        /\ WithId(e2, k).common = e2.common /\ WithId(e2, k).binding = e2.binding
        /\ WithId(e2, k) \in Entries
    BY WithIdFacts
  <2> QED BY <1>4, <2>3, <2>4
<1>7. CASE sym.kind = "undefined"
  <2>1. CASE e = None
    <3>1. new = Put(t, sym.name, Undefined(sym.binding))
      BY <1>1, <1>7, <2>1 DEF MergesTo
    <3>2. g = Undefined(sym.binding)
      BY <1>3, <1>5, <3>1, UndefinedFacts
    <3> QED BY <1>3, <1>7, <2>1, <3>2, UndefinedFacts DEF EntryTo
  <2>2. CASE e # None /\ e.defined_in = None /\ sym.binding = "Global"
    <3>1. new = Put(t, sym.name, [e EXCEPT !.binding = "Global"])
      BY <1>1, <1>7, <2>2 DEF MergesTo
    <3>2. e \in Entries
      BY <1>4, <2>2
    <3>3. /\ [e EXCEPT !.binding = "Global"] \in Entries
          /\ [e EXCEPT !.binding = "Global"].binding = "Global"
          /\ [e EXCEPT !.binding = "Global"].section = e.section
          /\ [e EXCEPT !.binding = "Global"].defined_in = e.defined_in
          /\ [e EXCEPT !.binding = "Global"].common = e.common
      BY <3>2 DEF Entries
    <3>4. g = [e EXCEPT !.binding = "Global"]
      BY <1>5, <3>1, <3>3
    <3> QED BY <1>4, <1>7, <2>2, <3>3, <3>4 DEF EntryTo
  <2>3. CASE e # None /\ ~(e.defined_in = None /\ sym.binding = "Global")
    <3>1. new = t
      BY <1>1, <1>7, <2>3 DEF MergesTo
    <3>2. g = e
      BY <1>1, <1>2, <3>1
    <3> QED BY <1>7, <2>3, <3>2 DEF EntryTo
  <2> QED BY <2>1, <2>2, <2>3
<1>8. CASE sym.kind = "common"
  <2>1. CASE e # None /\ e.common # None
    <3> DEFINE b == <<MaxOf(sym.size, e.common[1]), MaxOf(sym.align, e.common[2])>>
               e2 == [e EXCEPT !.common = b]
    <3>1. new = Put(t, sym.name, e2)
      BY <1>1, <1>8, <2>1 DEF MergesTo
    <3>2. e \in Entries /\ e.common \in Nat \X Nat
      BY <1>4, <2>1 DEF Entries
    <3>3. b \in Nat \X Nat
      BY <1>3, <3>2 DEF MaxOf
    <3>4. e2 \in Entries /\ e2.section = e.section /\ e2.defined_in = e.defined_in /\ e2.common = b
      BY <3>2, <3>3 DEF Entries
    <3> HIDE DEF e2
    <3>5. g = e2
      BY <1>5, <3>1, <3>4
    <3> QED BY <1>4, <1>8, <2>1, <3>4, <3>5 DEF EntryTo
  <2>2. CASE e # None /\ e.common = None /\ e.defined_in # None
    <3>1. new = t
      BY <1>1, <1>8, <2>2 DEF MergesTo
    <3>2. g = e
      BY <1>1, <1>2, <3>1
    <3> QED BY <1>8, <2>2, <3>2 DEF EntryTo, SameTarget
  <2>3. CASE e = None \/ (e.common = None /\ e.defined_in = None)
    <3> DEFINE u == Undefined(sym.binding)
               e2 == [u EXCEPT !.defined_in = o, !.common = <<sym.size, sym.align>>]
    <3>1. new = Mint(t, sym.name, e2)
      BY <1>1, <1>8, <2>3 DEF MergesTo
    <3>2. /\ e2 \in Entries /\ e2.defined_in = o /\ e2.section = None
          /\ e2.common = <<sym.size, sym.align>>
      BY <1>3 DEF Undefined, Entries
    <3> HIDE DEF e2
    <3>3. /\ g # None /\ g.defined_in = o /\ g.section = None
          /\ g.common = <<sym.size, sym.align>>
      BY <1>6, <3>1, <3>2
    <3> QED BY <1>8, <2>3, <3>3 DEF EntryTo
  <2> QED BY <2>1, <2>2, <2>3
<1>9. CASE sym.kind = "defined"
  <2>1. CASE e = None
    <3>1. new = Mint(t, sym.name, Rebound(Undefined("Global"), o, sym))
      BY <1>1, <1>9, <2>1 DEF MergesTo
    <3>2. /\ Rebound(Undefined("Global"), o, sym) \in Entries
          /\ Takes(o, sym, Rebound(Undefined("Global"), o, sym))
      BY <1>4, ReboundFacts, UndefinedFacts DEF Takes
    <3>3. Takes(o, sym, g)
      BY <1>6, <3>1, <3>2 DEF Takes
    <3> QED BY <1>9, <2>1, <3>3 DEF EntryTo
  <2>2. CASE e # None
    <3>1. e \in Entries
      BY <1>4, <2>2
    <3>2. Rebound(e, o, sym) \in Entries /\ Takes(o, sym, Rebound(e, o, sym))
      BY <1>4, <3>1, ReboundFacts DEF Takes
    <3>3. new = Put(t, sym.name, Rebound(e, o, sym)) \/ new = Mint(t, sym.name, Rebound(e, o, sym))
          => Takes(o, sym, g)
      BY <1>5, <1>6, <3>2 DEF Takes
    <3>4. new = t => g = e
      BY <1>1, <1>2
    <3>5. CASE e.common # None
      <4>1. new = Put(t, sym.name, Rebound(e, o, sym))
        BY <1>1, <1>9, <2>2, <3>5 DEF MergesTo
      <4> QED BY <1>9, <2>2, <3>3, <3>5, <4>1 DEF EntryTo
    <3>6. CASE e.common = None /\ e.defined_in = None
      <4>1. new = Mint(t, sym.name, Rebound(e, o, sym))
        BY <1>1, <1>9, <2>2, <3>6 DEF MergesTo
      <4> QED BY <1>9, <2>2, <3>3, <3>6, <4>1 DEF EntryTo
    <3>7. CASE e.common = None /\ e.defined_in # None
      <4>1. new = IF e.binding = "Weak" /\ sym.binding = "Global"
                  THEN Put(t, sym.name, Rebound(e, o, sym)) ELSE t
        BY <1>1, <1>9, <2>2, <3>7 DEF MergesTo
      <4> QED BY <1>9, <2>2, <3>3, <3>4, <3>7, <4>1 DEF EntryTo, SameTarget
    <3> QED BY <3>5, <3>6, <3>7
  <2> QED BY <2>1, <2>2
<1> QED BY <1>3, <1>7, <1>8, <1>9

(* The same for n in V and W.                                              *)
Agree(V, W, n) ==
  /\ Defs(W, n) = Defs(V, n) /\ Commons(W, n) = Commons(V, n) /\ Refs(W, n) = Refs(V, n)
  /\ \A p \in Defs(V, n) \cup Commons(V, n) \cup Refs(V, n) : W[p] = V[p]

LEMMA RefSame ==
  ASSUME NEW V, NEW W, NEW n, NEW f, NEW e, NEW g, RefOf(V, f, n, e), Agree(V, W, n),
         (e = None /\ g = None) \/ (e # None /\ SameTarget(e, g))
  PROVE  RefOf(W, f, n, g)
<1>1. /\ Defs(W, n) = Defs(V, n) /\ Commons(W, n) = Commons(V, n) /\ Refs(W, n) = Refs(V, n)
      /\ \A p \in Defs(V, n) : W[p] = V[p]
      /\ \A p \in Commons(V, n) : W[p] = V[p]
      /\ \A p \in Refs(V, n) : W[p] = V[p]
  BY DEF Agree
<1>2. StrongOf(W, n) = StrongOf(V, n)
  BY <1>1 DEF StrongOf
<1>3. \A p \in Defs(V, n) : Holds(V, e, p) => Holds(W, g, p)
  BY <1>1 DEF Holds, SameTarget
<1>4. StrongOf(V, n) \subseteq Defs(V, n)
  BY DEF StrongOf
<1>5. IsBlock(V, n, e) => IsBlock(W, n, g)
  <2>1. /\ {W[p].size : p \in Commons(W, n)} = {V[p].size : p \in Commons(V, n)}
        /\ {W[p].align : p \in Commons(W, n)} = {V[p].align : p \in Commons(V, n)}
    BY <1>1
  <2> QED BY <1>1, <2>1 DEF IsBlock, SameTarget
<1>6. Demanded(V, n, f) <=> Demanded(W, n, f)
  BY <1>1 DEF Demanded
<1>7. IsOpen(V, n, f, e) => IsOpen(W, n, f, g)
  BY <1>6 DEF IsOpen, SameTarget
<1>8. \A p \in StrongOf(W, n) : Holds(W, g, p)
  BY <1>2, <1>3, <1>4 DEF RefOf
<1>9. \A p, q \in StrongOf(W, n) : p = q
  BY <1>2 DEF RefOf
<1>10. StrongOf(W, n) = {} /\ Defs(W, n) # {} =>
         \E p \in Defs(W, n) : First(p, Defs(W, n)) /\ Holds(W, g, p)
  BY <1>1, <1>2, <1>3 DEF RefOf
<1>11. Defs(W, n) = {} /\ Commons(W, n) # {} => IsBlock(W, n, g)
  BY <1>1, <1>5 DEF RefOf
<1>12. Defs(W, n) = {} /\ Commons(W, n) = {} /\ (Refs(W, n) # {} \/ f) => IsOpen(W, n, f, g)
  BY <1>1, <1>7 DEF RefOf
<1>13. Defs(W, n) = {} /\ Commons(W, n) = {} /\ Refs(W, n) = {} /\ ~f => g = None
  BY <1>1 DEF RefOf
<1> QED BY <1>8, <1>9, <1>10, <1>11, <1>12, <1>13 DEF RefOf

(* W is V and one symbol more, at p0, after all others.                    *)
Extends1(V, W, p0, sym) ==
  /\ DOMAIN V \subseteq Nat \X Nat /\ p0 \in Nat \X Nat
  /\ p0 \notin DOMAIN V /\ DOMAIN W = DOMAIN V \cup {p0}
  /\ W[p0] = sym /\ \A p \in DOMAIN V : W[p] = V[p] /\ Before(p, p0) /\ V[p] \in Syms

LEMMA RefOther ==
  ASSUME NEW V, NEW W, NEW p0, NEW sym, NEW n, NEW f, NEW e, Extends1(V, W, p0, sym),
         n # sym.name, RefOf(V, f, n, e)
  PROVE  RefOf(W, f, n, e)
<1>1. Agree(V, W, n)
  <2>1. Defs(W, n) = Defs(V, n) /\ Commons(W, n) = Commons(V, n) /\ Refs(W, n) = Refs(V, n)
    <3>1. \A k : For(W, n, k) = For(V, n, k)
      BY DEF Extends1, For
    <3> QED BY <3>1 DEF Defs, Commons, Refs
  <2>2. Defs(V, n) \cup Commons(V, n) \cup Refs(V, n) \subseteq DOMAIN V
    BY DEF Defs, Commons, Refs, For
  <2> QED BY <2>1, <2>2 DEF Agree, Extends1
<1>2. (e = None /\ e = None) \/ (e # None /\ SameTarget(e, e))
  BY DEF SameTarget
<1> QED BY <1>1, <1>2, RefSame

(* What an entry says about the symbols that were merged.                  *)
LEMMA RefKinds ==
  ASSUME NEW V, NEW f, NEW n, NEW e, RefOf(V, f, n, e), DOMAIN V \subseteq Nat \X Nat
  PROVE  /\ e = None => Defs(V, n) = {} /\ Commons(V, n) = {} /\ Refs(V, n) = {} /\ ~f
         /\ e # None /\ e.common # None => Defs(V, n) = {} /\ Commons(V, n) # {}
         /\ e # None /\ e.common = None /\ e.defined_in # None => Defs(V, n) # {}
         /\ e # None /\ e.common = None /\ e.defined_in = None =>
              Defs(V, n) = {} /\ Commons(V, n) = {} /\ (Refs(V, n) # {} \/ f)
         /\ StrongOf(V, n) # {} => e # None /\ e.common = None /\ e.defined_in # None
                                   /\ e.binding = "Global"
         /\ e # None /\ e.common = None /\ e.defined_in # None /\ e.binding = "Global" =>
              StrongOf(V, n) # {}
<1>1. /\ StrongOf(V, n) \subseteq Defs(V, n) /\ Defs(V, n) \subseteq DOMAIN V
      /\ Commons(V, n) \subseteq DOMAIN V
      /\ \A p \in StrongOf(V, n) : V[p].binding = "Global"
      /\ \A p \in Defs(V, n) : V[p].binding = "Global" => p \in StrongOf(V, n)
  BY DEF StrongOf, Defs, Commons, For
<1>2. \A p \in DOMAIN V : p[1] \in Nat /\ p[1] # None
  BY ResolveAssumption
<1>3. ASSUME NEW p \in Defs(V, n), Holds(V, e, p)
      PROVE  /\ e # None /\ e.common = None /\ e.defined_in # None
             /\ e.binding = V[p].binding
  BY <1>1, <1>2, <1>3 DEF Holds
<1>4. Defs(V, n) # {} => \E p \in Defs(V, n) : Holds(V, e, p)
  <2>1. CASE StrongOf(V, n) # {}
    BY <1>1, <2>1 DEF RefOf
  <2>2. CASE StrongOf(V, n) = {}
    BY <2>2 DEF RefOf
  <2> QED BY <2>1, <2>2
<1>5. Defs(V, n) # {} => e # None /\ e.common = None /\ e.defined_in # None
  BY <1>3, <1>4
<1>6. Defs(V, n) = {} /\ Commons(V, n) # {} => e # None /\ e.common # None /\ e.defined_in # None
  BY <1>1, <1>2 DEF RefOf, IsBlock
<1>7. Defs(V, n) = {} /\ Commons(V, n) = {} /\ (Refs(V, n) # {} \/ f) =>
        e # None /\ e.common = None /\ e.defined_in = None
  BY DEF RefOf, IsOpen
<1>8. Defs(V, n) = {} /\ Commons(V, n) = {} /\ Refs(V, n) = {} /\ ~f => e = None
  BY DEF RefOf
<1>9. StrongOf(V, n) # {} => e # None /\ e.common = None /\ e.defined_in # None
                             /\ e.binding = "Global"
  <2>1. \A p \in StrongOf(V, n) : Holds(V, e, p)
    BY DEF RefOf
  <2> QED BY <1>1, <1>3, <2>1
<1>10. e # None /\ e.common = None /\ e.defined_in # None /\ e.binding = "Global" =>
         StrongOf(V, n) # {}
  <2>1. SUFFICES ASSUME e # None, e.common = None, e.defined_in # None, e.binding = "Global"
                 PROVE  StrongOf(V, n) # {}
    OBVIOUS
  <2>2. PICK p \in Defs(V, n) : Holds(V, e, p)
    BY <1>4, <1>6, <1>7, <1>8, <2>1
  <2>3. V[p].binding = "Global"
    BY <2>1, <2>2 DEF Holds
  <2>4. p \in StrongOf(V, n)
    BY <2>3 DEF StrongOf
  <2> QED BY <2>4
<1> QED BY <1>5, <1>6, <1>7, <1>8, <1>9, <1>10

(* The definition stays.                                                   *)
LEMMA RefDefs ==
  ASSUME NEW V, NEW W, NEW n, NEW f, NEW e, NEW g, RefOf(V, f, n, e), e # None,
         SameTarget(e, g), Defs(V, n) # {}, StrongOf(W, n) = StrongOf(V, n),
         Defs(V, n) \subseteq Defs(W, n), \A p \in Defs(V, n) : W[p] = V[p],
         \A p \in Defs(V, n), q \in Defs(W, n) : q \in Defs(V, n) \/ Before(p, q)
  PROVE  RefOf(W, f, n, g)
<1>1. \A p \in Defs(V, n) : Holds(V, e, p) => Holds(W, g, p)
  BY DEF Holds, SameTarget
<1>2. StrongOf(V, n) \subseteq Defs(V, n)
  BY DEF StrongOf
<1>3. \A p \in StrongOf(W, n) : Holds(W, g, p)
  BY <1>1, <1>2 DEF RefOf
<1>4. \A p, q \in StrongOf(W, n) : p = q
  BY DEF RefOf
<1>5. StrongOf(W, n) = {} => \E p \in Defs(W, n) : First(p, Defs(W, n)) /\ Holds(W, g, p)
  <2>1. SUFFICES ASSUME StrongOf(V, n) = {}
                 PROVE  \E p \in Defs(W, n) : First(p, Defs(W, n)) /\ Holds(W, g, p)
    OBVIOUS
  <2>2. PICK p \in Defs(V, n) : First(p, Defs(V, n)) /\ Holds(V, e, p)
    BY <2>1 DEF RefOf
  <2>3. First(p, Defs(W, n))
    BY <2>2 DEF First
  <2> QED BY <1>1, <2>2, <2>3
<1>6. Defs(W, n) # {}
  OBVIOUS
<1> QED BY <1>3, <1>4, <1>5, <1>6 DEF RefOf

(* The new definition takes the place.                                     *)
LEMMA RefTakes ==
  ASSUME NEW V, NEW W, NEW o \in Nat, NEW i \in Nat, NEW sym, NEW n, NEW f, NEW g,
         Extends1(V, W, <<o, i>>, sym), sym.name = n, sym.kind = "defined",
         StrongOf(V, n) = {}, Defs(V, n) = {} \/ sym.binding = "Global", Takes(o, sym, g)
  PROVE  RefOf(W, f, n, g)
<1> DEFINE p0 == <<o, i>>
<1>1. Defs(W, n) = Defs(V, n) \cup {p0}
  BY DEF Extends1, Defs, For
<1>2. W[p0] = sym /\ p0 \notin DOMAIN V /\ Defs(V, n) \subseteq DOMAIN V
      /\ \A p \in DOMAIN V : W[p] = V[p]
  BY DEF Extends1, Defs, For
<1>3. Holds(W, g, p0)
  BY <1>2 DEF Holds, Takes
<1>4. sym.binding = "Global" => StrongOf(W, n) = {p0}
  BY <1>1, <1>2 DEF StrongOf
<1>5. sym.binding # "Global" => Defs(W, n) = {p0} /\ StrongOf(W, n) = {}
  BY <1>1, <1>2 DEF StrongOf
<1>6. First(p0, {p0})
  BY DEF First, Before
<1>7. Defs(W, n) # {}
  BY <1>1
<1> HIDE DEF p0
<1>8. CASE sym.binding = "Global"
  <2>1. StrongOf(W, n) = {p0}
    BY <1>4, <1>8
  <2> QED BY <1>3, <1>7, <2>1 DEF RefOf
<1>9. CASE sym.binding # "Global"
  <2>1. Defs(W, n) = {p0} /\ StrongOf(W, n) = {}
    BY <1>5, <1>9
  <2>2. \E p \in Defs(W, n) : First(p, Defs(W, n)) /\ Holds(W, g, p)
    BY <1>3, <1>6, <2>1
  <2> QED BY <1>7, <2>1, <2>2 DEF RefOf
<1> QED BY <1>8, <1>9

LEMMA RefMergeDefined ==
  ASSUME NEW V, NEW W, NEW o \in Nat, NEW i \in Nat, NEW sym \in Syms, NEW n, NEW f,
         NEW e \in Entries \cup {None}, NEW g,
         Extends1(V, W, <<o, i>>, sym), sym.name = n, sym.kind = "defined",
         sym.binding # "Local", RefOf(V, f, n, e), EntryTo(o, sym, e, g),
         ~(sym.binding = "Global" /\ e # None /\ e.common = None /\ e.defined_in # None
           /\ e.binding = "Global")
  PROVE  RefOf(W, f, n, g)
<1>1. DOMAIN V \subseteq Nat \X Nat
  BY DEF Extends1
<1>2. StrongOf(V, n) \subseteq Defs(V, n)
  BY DEF StrongOf
<1>3. CASE \/ e = None \/ e.common # None \/ e.defined_in = None
           \/ e.binding = "Weak" /\ sym.binding = "Global"
  <2>1. Takes(o, sym, g)
    BY <1>3 DEF EntryTo
  <2>2. StrongOf(V, n) = {}
    BY <1>1, <1>3, RefKinds
  <2>3. Defs(V, n) = {} \/ sym.binding = "Global"
    BY <1>1, <1>3, RefKinds
  <2> QED BY <2>1, <2>2, <2>3, RefTakes
<1>4. CASE /\ e # None /\ e.common = None /\ e.defined_in # None
           /\ ~(e.binding = "Weak" /\ sym.binding = "Global")
  <2>1. SameTarget(e, g)
    BY <1>4 DEF EntryTo
  <2>2. sym.binding # "Global"
    BY <1>4 DEF Entries
  <2>3. Defs(V, n) # {}
    BY <1>1, <1>4, RefKinds
  <2>4. Defs(W, n) = Defs(V, n) \cup {<<o, i>>}
    BY DEF Extends1, Defs, For
  <2>5. W[<<o, i>>] = sym /\ Defs(V, n) \subseteq DOMAIN V
        /\ \A p \in DOMAIN V : W[p] = V[p] /\ Before(p, <<o, i>>)
    BY DEF Extends1, Defs, For
  <2>6. StrongOf(W, n) = StrongOf(V, n)
    BY <2>2, <2>4, <2>5 DEF StrongOf
  <2>7. \A p \in Defs(V, n), q \in Defs(W, n) : q \in Defs(V, n) \/ Before(p, q)
    BY <2>4, <2>5
  <2> QED BY <1>4, <2>1, <2>3, <2>4, <2>5, <2>6, <2>7, RefDefs
<1> QED BY <1>3, <1>4

(* Any other symbol leaves the definitions alone.                          *)
LEMMA RefKeepsDefs ==
  ASSUME NEW V, NEW W, NEW p0, NEW sym, NEW n, NEW f, NEW e, NEW g,
         Extends1(V, W, p0, sym), sym.kind # "defined", RefOf(V, f, n, e), e # None,
         SameTarget(e, g), Defs(V, n) # {}
  PROVE  RefOf(W, f, n, g)
<1>1. Defs(W, n) = Defs(V, n) /\ \A p \in Defs(V, n) : W[p] = V[p]
  BY DEF Extends1, Defs, For
<1>2. StrongOf(W, n) = StrongOf(V, n)
  BY <1>1 DEF StrongOf
<1> QED BY <1>1, <1>2, RefDefs

LEMMA RefMergeUndefined ==
  ASSUME NEW V, NEW W, NEW p0, NEW o, NEW sym \in Syms, NEW n, NEW f \in BOOLEAN,
         NEW e \in Entries \cup {None}, NEW g,
         Extends1(V, W, p0, sym), sym.name = n, sym.kind = "undefined",
         sym.binding # "Local", RefOf(V, f, n, e), EntryTo(o, sym, e, g)
  PROVE  RefOf(W, f, n, g)
<1>1. DOMAIN V \subseteq Nat \X Nat
  BY DEF Extends1
<1>2. Defs(W, n) = Defs(V, n) /\ Commons(W, n) = Commons(V, n) /\ Refs(W, n) = Refs(V, n) \cup {p0}
  BY DEF Extends1, Defs, Commons, Refs, For
<1>3. W[p0] = sym /\ Commons(V, n) \subseteq DOMAIN V /\ Refs(V, n) \subseteq DOMAIN V
      /\ \A p \in DOMAIN V : W[p] = V[p]
  BY DEF Extends1, Commons, Refs, For
<1>4. sym.binding \in {"Weak", "Global"}
  BY DEF Syms
<1>5. CASE Defs(V, n) # {}
  <2>1. e # None /\ e.common = None /\ e.defined_in # None
    BY <1>1, <1>5, RefKinds
  <2>2. SameTarget(e, g)
    BY <2>1 DEF EntryTo, SameTarget
  <2> QED BY <1>5, <2>1, <2>2, RefKeepsDefs
<1>6. CASE Defs(V, n) = {} /\ Commons(V, n) # {}
  <2>1. IsBlock(V, n, e)
    BY <1>6 DEF RefOf
  <2>2. g # None /\ g.section = e.section /\ g.common = e.common /\ g.defined_in = e.defined_in
    BY <2>1 DEF IsBlock, EntryTo
  <2>3. /\ {W[p].size : p \in Commons(W, n)} = {V[p].size : p \in Commons(V, n)}
        /\ {W[p].align : p \in Commons(W, n)} = {V[p].align : p \in Commons(V, n)}
    BY <1>2, <1>3
  <2>4. IsBlock(W, n, g)
    BY <1>2, <2>1, <2>2, <2>3 DEF IsBlock
  <2>5. StrongOf(W, n) = {}
    BY <1>2, <1>6 DEF StrongOf
  <2> QED BY <1>2, <1>6, <2>4, <2>5 DEF RefOf
<1>7. CASE Defs(V, n) = {} /\ Commons(V, n) = {}
  <2>1. StrongOf(W, n) = {} /\ Refs(W, n) # {}
    BY <1>2, <1>7 DEF StrongOf
  <2>2. Demanded(W, n, f) <=> Demanded(V, n, f) \/ sym.binding = "Global"
    BY <1>2, <1>3 DEF Demanded
  <2>3. CASE e = None
    <3>1. Refs(V, n) = {} /\ ~f
      BY <1>1, <2>3, RefKinds
    <3>2. ~Demanded(V, n, f)
      BY <3>1 DEF Demanded
    <3>3. g # None /\ g.defined_in = None /\ g.common = None /\ g.binding = sym.binding
      BY <2>3 DEF EntryTo
    <3>4. IsOpen(W, n, f, g)
      BY <1>4, <2>2, <3>2, <3>3 DEF IsOpen
    <3> QED BY <1>2, <1>7, <2>1, <3>4 DEF RefOf
  <2>4. CASE e # None
    <3>1. IsOpen(V, n, f, e)
      BY <1>7, <2>4 DEF RefOf
    <3>2. /\ g # None /\ g.defined_in = None /\ g.common = None
          /\ g.binding = IF sym.binding = "Global" THEN "Global" ELSE e.binding
      BY <2>4, <3>1 DEF EntryTo, IsOpen
    <3>3. IsOpen(W, n, f, g)
      BY <2>2, <3>1, <3>2 DEF IsOpen
    <3> QED BY <1>2, <1>7, <2>1, <3>3 DEF RefOf
  <2> QED BY <2>3, <2>4
<1> QED BY <1>5, <1>6, <1>7

LEMMA LargestStep ==
  ASSUME NEW S, S \subseteq Nat, NEW k, NEW j \in Nat, Largest(k, S)
  PROVE  Largest(MaxOf(j, k), S \cup {j})
<1>1. k \in S /\ \A x \in S : k >= x
  BY DEF Largest
<1>2. CASE j >= k
  BY <1>1, <1>2 DEF Largest, MaxOf
<1>3. CASE ~(j >= k)
  BY <1>1, <1>3 DEF Largest, MaxOf
<1> QED BY <1>2, <1>3

LEMMA RefMergeCommon ==
  ASSUME NEW V, NEW W, NEW o \in Nat, NEW i \in Nat, NEW sym \in Syms, NEW n, NEW f,
         NEW e \in Entries \cup {None}, NEW g,
         Extends1(V, W, <<o, i>>, sym), sym.name = n, sym.kind = "common",
         sym.binding # "Local", RefOf(V, f, n, e), EntryTo(o, sym, e, g)
  PROVE  RefOf(W, f, n, g)
<1> DEFINE p0 == <<o, i>>
<1>1. DOMAIN V \subseteq Nat \X Nat
  BY DEF Extends1
<1>2. Defs(W, n) = Defs(V, n) /\ Commons(W, n) = Commons(V, n) \cup {p0}
  BY DEF Extends1, Defs, Commons, For
<1>3. /\ W[p0] = sym /\ Commons(V, n) \subseteq DOMAIN V
      /\ \A p \in DOMAIN V : W[p] = V[p] /\ Before(p, p0) /\ V[p] \in Syms
  BY DEF Extends1, Commons, For
<1>4. sym.size \in Nat /\ sym.align \in Nat /\ \A s \in Syms : s.size \in Nat /\ s.align \in Nat
  BY DEF Syms
<1>5. p0[1] = o
  OBVIOUS
<1>a. First(p0, {p0})
  BY DEF First, Before
<1> HIDE DEF p0
<1>6. CASE e # None /\ e.common = None /\ e.defined_in # None
  <2>1. SameTarget(e, g)
    BY <1>6 DEF EntryTo
  <2>2. Defs(V, n) # {}
    BY <1>1, <1>6, RefKinds
  <2> QED BY <1>6, <2>1, <2>2, RefKeepsDefs
<1>7. CASE e # None /\ e.common # None
  <2>1. Defs(V, n) = {} /\ Commons(V, n) # {}
    BY <1>1, <1>7, RefKinds
  <2>2. IsBlock(V, n, e)
    BY <2>1 DEF RefOf
  <2> DEFINE S == {V[p].size : p \in Commons(V, n)}
             A == {V[p].align : p \in Commons(V, n)}
  <2>3. /\ {W[p].size : p \in Commons(W, n)} = S \cup {sym.size}
        /\ {W[p].align : p \in Commons(W, n)} = A \cup {sym.align}
    BY <1>2, <1>3
  <2>4. S \subseteq Nat /\ A \subseteq Nat
    BY <1>3, <1>4
  <2>5. Largest(e.common[1], S) /\ Largest(e.common[2], A)
    BY <2>2 DEF IsBlock
  <2> HIDE DEF S, A
  <2>6. PICK cs, ca : cs = e.common[1] /\ ca = e.common[2]
    OBVIOUS
  <2>7. Largest(MaxOf(sym.size, cs), S \cup {sym.size})
        /\ Largest(MaxOf(sym.align, ca), A \cup {sym.align})
    BY <1>4, <2>4, <2>5, <2>6, LargestStep
  <2>8. /\ g # None /\ g.defined_in = e.defined_in /\ g.section = e.section
        /\ g.common = <<MaxOf(sym.size, cs), MaxOf(sym.align, ca)>>
    BY <1>7, <2>6 DEF EntryTo
  <2>9. g.common # None
    <3>1. S # {} /\ A # {} /\ cs \in Nat /\ ca \in Nat
      BY <2>4, <2>5, <2>6 DEF Largest
    <3>2. g.common \in Nat \X Nat
      BY <1>4, <2>8, <3>1 DEF MaxOf
    <3> QED BY <3>2, ResolveAssumption
  <2>10. g.common[1] = MaxOf(sym.size, cs) /\ g.common[2] = MaxOf(sym.align, ca)
    BY <2>8
  <2>11. \E p \in Commons(W, n) : First(p, Commons(W, n)) /\ g.defined_in = p[1]
    <3>1. PICK p \in Commons(V, n) : First(p, Commons(V, n)) /\ e.defined_in = p[1]
      BY <2>2 DEF IsBlock
    <3>2. First(p, Commons(W, n))
      BY <1>2, <1>3, <3>1 DEF First
    <3> QED BY <1>2, <2>8, <3>1, <3>2
  <2>12. g.section = None
    BY <2>2, <2>8 DEF IsBlock
  <2>13. IsBlock(W, n, g)
    BY <2>3, <2>7, <2>8, <2>9, <2>10, <2>11, <2>12 DEF IsBlock
  <2>14. StrongOf(W, n) = {} /\ Commons(W, n) # {}
    BY <1>2, <2>1 DEF StrongOf
  <2> QED BY <1>2, <2>1, <2>13, <2>14 DEF RefOf
<1>8. CASE e = None \/ (e.common = None /\ e.defined_in = None)
  <2>1. Defs(V, n) = {} /\ Commons(V, n) = {}
    BY <1>1, <1>8, RefKinds
  <2>2. /\ g # None /\ g.defined_in = o /\ g.section = None
        /\ g.common = <<sym.size, sym.align>>
    BY <1>8 DEF EntryTo
  <2>3. Commons(W, n) = {p0}
    BY <1>2, <2>1
  <2>4. /\ {W[p].size : p \in Commons(W, n)} = {sym.size}
        /\ {W[p].align : p \in Commons(W, n)} = {sym.align}
    BY <1>3, <2>3
  <2>5. Largest(sym.size, {sym.size}) /\ Largest(sym.align, {sym.align})
    BY <1>4 DEF Largest
  <2>6. g.common # None
    <3>1. g.common \in Nat \X Nat
      BY <1>4, <2>2
    <3> QED BY <3>1, ResolveAssumption
  <2>7. g.common[1] = sym.size /\ g.common[2] = sym.align
    BY <2>2
  <2>8. \E p \in Commons(W, n) : First(p, Commons(W, n)) /\ g.defined_in = p[1]
    BY <1>5, <1>a, <2>2, <2>3
  <2>9. IsBlock(W, n, g)
    BY <2>2, <2>4, <2>5, <2>6, <2>7, <2>8 DEF IsBlock
  <2>10. StrongOf(W, n) = {} /\ Commons(W, n) # {}
    BY <1>2, <2>1 DEF StrongOf
  <2> QED BY <1>2, <2>1, <2>9, <2>10 DEF RefOf
<1> QED BY <1>6, <1>7, <1>8

(* What was merged, in the program.                                        *)
PositionsOf(s) == UNION {{o} \X DOMAIN s[o + 1].syms : o \in 0..(Len(s) - 1)}

LEMMA PositionFacts ==
  ASSUME NEW s, Len(s) \in Nat, \A o \in 1..Len(s) : DOMAIN s[o].syms \subseteq Nat, NEW p
  PROVE  p \in PositionsOf(s) <=>
           p \in Nat \X Nat /\ p[1] < Len(s) /\ p[2] \in DOMAIN s[p[1] + 1].syms
<1>1. ASSUME p \in PositionsOf(s)
      PROVE  p \in Nat \X Nat /\ p[1] < Len(s) /\ p[2] \in DOMAIN s[p[1] + 1].syms
  <2>1. PICK o \in 0..(Len(s) - 1) : p \in {o} \X DOMAIN s[o + 1].syms
    BY <1>1 DEF PositionsOf
  <2>2. o \in Nat /\ o + 1 \in 1..Len(s) /\ o < Len(s)
    OBVIOUS
  <2>3. p[1] = o /\ p[2] \in DOMAIN s[o + 1].syms /\ p = <<p[1], p[2]>>
    BY <2>1
  <2>4. p[2] \in Nat
    BY <2>2, <2>3
  <2> QED BY <2>2, <2>3, <2>4
<1>2. ASSUME p \in Nat \X Nat, p[1] < Len(s), p[2] \in DOMAIN s[p[1] + 1].syms
      PROVE  p \in PositionsOf(s)
  <2>1. PICK o, i : o = p[1] /\ i = p[2]
    OBVIOUS
  <2>2. p = <<o, i>> /\ o \in 0..(Len(s) - 1) /\ i \in DOMAIN s[o + 1].syms
    BY <1>2, <2>1
  <2>3. p \in {o} \X DOMAIN s[o + 1].syms
    BY <2>2
  <2> QED BY <2>2, <2>3 DEF PositionsOf
<1> QED BY <1>1, <1>2

LEMMA MergedIs ==
  ASSUME TypeOK
  PROVE  \A p : p \in Merged <=>
           /\ p \in Nat \X Nat /\ p[1] < Len(objects) /\ p[2] \in DOMAIN objects[p[1] + 1].syms
           /\ Kept(p[1], p[2]) /\ Past(p)
<1>1. Len(objects) \in Nat /\ \A o \in 1..Len(objects) : DOMAIN objects[o].syms \subseteq Nat
  BY ObjectFacts, InputFacts
<1>2. Merged = {p \in PositionsOf(objects) : Kept(p[1], p[2]) /\ Past(p)}
  BY DEF Merged, PositionsOf
<1>3. \A p : p \in PositionsOf(objects) <=>
               p \in Nat \X Nat /\ p[1] < Len(objects) /\ p[2] \in DOMAIN objects[p[1] + 1].syms
  BY <1>1, PositionFacts
<1> QED BY <1>2, <1>3

(* The same in the next state.                                             *)
LEMMA MergedIsNext ==
  ASSUME TypeOK'
  PROVE  \A p : p \in Merged' <=>
           /\ p \in Nat \X Nat /\ p[1] < Len(objects') /\ p[2] \in DOMAIN objects'[p[1] + 1].syms
           /\ Kept(p[1], p[2])' /\ Past(p)'
<1>1. link' \in Links /\ objects' \in Seq(ObjectsOf(link'))
  BY DEF TypeOK, Inputs
<1>2. ObjectsOf(link') \subseteq Objects
  BY <1>1, LinkFacts
<1>3. Len(objects') \in Nat /\ \A o \in 1..Len(objects') : objects'[o] \in Objects
  BY <1>1, <1>2
<1>4. \A obj \in Objects : obj.syms \in Seq(Syms)
  BY DEF Objects
<1>5. \A x \in Seq(Syms) : DOMAIN x \subseteq Nat
  OBVIOUS
<1>6. \A o \in 1..Len(objects') : DOMAIN objects'[o].syms \subseteq Nat
  BY <1>3, <1>4, <1>5
<1>7. Merged' = {p \in PositionsOf(objects') : Kept(p[1], p[2])' /\ Past(p)'}
  BY DEF Merged, PositionsOf
<1>8. \A p : p \in PositionsOf(objects') <=>
               p \in Nat \X Nat /\ p[1] < Len(objects') /\ p[2] \in DOMAIN objects'[p[1] + 1].syms
  BY <1>3, <1>6, PositionFacts
<1> QED BY <1>7, <1>8

View == [p \in Merged |-> At(p)]

LEMMA ViewFacts ==
  ASSUME TypeOK
  PROVE  /\ DOMAIN View = Merged /\ Merged \subseteq Nat \X Nat
         /\ \A p \in Merged : /\ View[p] = At(p) /\ At(p) \in Syms
                              /\ p[1] < Len(objects) /\ p[1] \in Nat /\ p[2] \in Nat
                              /\ Kept(p[1], p[2]) /\ Past(p)
<1>1. \A p \in Merged : /\ p \in Nat \X Nat /\ p[1] < Len(objects)
                        /\ p[2] \in DOMAIN objects[p[1] + 1].syms
                        /\ Kept(p[1], p[2]) /\ Past(p)
  BY MergedIs
<1>2. ASSUME NEW p \in Merged
      PROVE  At(p) \in Syms /\ p[1] \in Nat /\ p[2] \in Nat
  <2>1. p[1] \in Nat /\ p[2] \in Nat /\ p[1] + 1 \in 1..Len(objects)
    BY <1>1, ObjectFacts
  <2>2. objects[p[1] + 1] \in Inputs
    BY <2>1, ObjectFacts
  <2>3. \A i \in DOMAIN objects[p[1] + 1].syms : objects[p[1] + 1].syms[i] \in Syms
    BY <2>2, InputFacts
  <2> QED BY <1>1, <2>1, <2>3 DEF At, Sym
<1> QED BY <1>1, <1>2 DEF View

LEMMA ViewFrame ==
  ASSUME UNCHANGED <<objects, excluded, cur>>
  PROVE  View' = View
BY DEF View, Merged, At, Sym, Kept, Past, Resolving

LEMMA ViewEnd ==
  ASSUME Base, TypeOK', Finished, cur' = None, UNCHANGED <<objects, excluded>>
  PROVE  View' = View
<1>1. \A o, i : (Kept(o, i)' <=> Kept(o, i)) /\ Sym(o, i)' = Sym(o, i)
  BY DEF Kept, Sym
<1>2. ASSUME NEW p, p \in Nat \X Nat, p[1] < Len(objects), p[2] \in DOMAIN objects[p[1] + 1].syms
      PROVE  Past(p) /\ Past(p)'
  <2>1. Past(p)'
    BY DEF Past, Resolving
  <2>2. CASE cur.oid # p[1]
    BY <2>1, <2>2 DEF Past
  <2>3. CASE cur.oid = p[1]
    <3>1. /\ Input = objects[p[1] + 1] /\ DOMAIN Input.syms = 1..Len(Input.syms)
          /\ cur.at = Len(Input.syms) + 1 /\ Len(Input.syms) \in Nat
      BY <2>3, CurFacts DEF Base, Finished, Input
    <3>2. p[2] \in 1..Len(Input.syms)
      BY <1>2, <3>1
    <3>3. p[2] < cur.at
      BY <3>1, <3>2
    <3> QED BY <2>1, <3>3 DEF Past
  <2> QED BY <2>1, <2>2, <2>3
<1>3. Merged' = Merged
  <2>1. \A p : p \in Merged' <=> p \in Merged
    BY <1>1, <1>2, MergedIs, MergedIsNext DEF Base
  <2> QED BY <2>1 DEF Merged
<1>4. \A p : At(p)' = At(p)
  BY <1>1 DEF At
<1> QED BY <1>3, <1>4 DEF View

LEMMA ViewBegin ==
  ASSUME Base, TypeOK', cur = None, NEW obj \in Inputs, NEW touched \in SUBSET Names,
         Begin(obj, touched)
  PROVE  View' = View
<1> USE DEF Base
<1>1. /\ Len(objects) \in Nat /\ Len(objects') = Len(objects) + 1
      /\ \A o \in 1..Len(objects) : objects'[o] = objects[o]
      /\ cur'.oid = Len(objects) /\ cur'.at = 1
  BY BeginFacts, ObjectFacts
<1>2. excluded' = excluded \cup {<<Len(objects), s>> : s \in DroppedSections(obj)}
  BY DEF Begin
<1>3. ASSUME NEW p, p \in Nat \X Nat, p[1] < Len(objects)
      PROVE  /\ objects'[p[1] + 1] = objects[p[1] + 1] /\ At(p)' = At(p)
             /\ Kept(p[1], p[2])' <=> Kept(p[1], p[2])
             /\ Past(p)' <=> Past(p)
  <2>1. p[1] + 1 \in 1..Len(objects) /\ p[1] # Len(objects)
    BY <1>1, <1>3
  <2>2. objects'[p[1] + 1] = objects[p[1] + 1]
    BY <1>1, <2>1
  <2>3. Sym(p[1], p[2])' = Sym(p[1], p[2])
    BY <2>2 DEF Sym
  <2>4. \A s : <<p[1], s>> \in excluded' <=> <<p[1], s>> \in excluded
    BY <1>2, <2>1
  <2>5. Past(p)' <=> Past(p)
    BY <1>1, <2>1 DEF Past, Resolving
  <2> QED BY <2>2, <2>3, <2>4, <2>5 DEF Kept, At
<1>4. ASSUME NEW p \in Merged'
      PROVE  p[1] < Len(objects)
  <2>1. /\ p \in Nat \X Nat /\ p[1] < Len(objects') /\ Past(p)'
        /\ p[2] \in DOMAIN objects'[p[1] + 1].syms
    BY MergedIsNext
  <2>2. CASE p[1] = Len(objects)
    <3>1. objects'[p[1] + 1] = obj /\ cur' # None
      BY <2>2, BeginFacts
    <3>2. p[2] \in 1..Len(obj.syms)
      BY <2>1, <3>1, InputFacts
    <3>3. p[2] < 1
      BY <1>1, <2>1, <2>2, <3>1 DEF Past, Resolving
    <3> QED BY <3>2, <3>3, InputFacts
  <2> QED BY <1>1, <2>1, <2>2
<1>5. \A p : p \in Merged' <=> p \in Merged
  <2>1. ASSUME NEW p \in Merged'
        PROVE  p \in Merged
    BY <1>3, <1>4, MergedIs, MergedIsNext
  <2>2. ASSUME NEW p \in Merged
        PROVE  p \in Merged'
    BY <1>1, <1>3, MergedIs, MergedIsNext
  <2> QED BY <2>1, <2>2
<1>6. Merged' = Merged
  BY <1>5 DEF Merged
<1>7. \A p \in Merged : At(p)' = At(p)
  BY <1>3, MergedIs
<1> QED BY <1>6, <1>7 DEF View

LEMMA ViewMerge ==
  ASSUME Base, TypeOK', Merge
  PROVE  /\ Kept(cur.oid, cur.at) => Extends1(View, View', <<cur.oid, cur.at>>, Symbol)
         /\ ~Kept(cur.oid, cur.at) => View' = View
<1> USE DEF Base
<1>1. /\ cur.oid \in Nat /\ cur.at \in Nat /\ Len(objects) = cur.oid + 1 /\ Resolving
      /\ cur.at \in DOMAIN objects[cur.oid + 1].syms
  BY CurFacts DEF Merge, Unfinished
<1>2. UNCHANGED <<objects, excluded>> /\ cur'.oid = cur.oid /\ cur'.at = cur.at + 1 /\ cur' # None
  <2>1. cur \in Currents /\ cur' = [cur EXCEPT !.at = cur.at + 1]
    BY <1>1 DEF Merge, TypeOK, Resolving
  <2>2. cur' \in Currents /\ cur'.oid = cur.oid /\ cur'.at = cur.at + 1
    BY <2>1 DEF Currents
  <2> QED BY <2>2, ResolveAssumption DEF Merge
<1>3. \A o, i : (Kept(o, i)' <=> Kept(o, i)) /\ Sym(o, i)' = Sym(o, i)
  BY <1>2 DEF Kept, Sym
<1>4. \A p : At(p)' = At(p)
  BY <1>3 DEF At
<1> DEFINE p0 == <<cur.oid, cur.at>>
<1>5. p0 \in Nat \X Nat /\ p0[1] = cur.oid /\ p0[2] = cur.at
  BY <1>1
<1>6. \A p \in Nat \X Nat : p[1] = cur.oid /\ p[2] = cur.at => p = p0
  OBVIOUS
<1>7. \A p \in Nat \X Nat : Past(p)' <=> (Past(p) \/ p = p0)
  <2>1. SUFFICES ASSUME NEW p \in Nat \X Nat
                 PROVE  Past(p)' <=> (Past(p) \/ p = p0)
    OBVIOUS
  <2>2. p[1] \in Nat /\ p[2] \in Nat
    OBVIOUS
  <2>3. Past(p)' <=> (cur.oid = p[1] => p[2] < cur.at + 1)
    BY <1>2 DEF Past, Resolving
  <2>4. Past(p) <=> (cur.oid = p[1] => p[2] < cur.at)
    BY <1>1 DEF Past
  <2> QED BY <1>1, <1>5, <1>6, <2>2, <2>3, <2>4
<1>8. ~Past(p0)
  BY <1>1, <1>5 DEF Past
<1> HIDE DEF p0
<1>9. p0 \notin Merged
  BY <1>8, MergedIs
<1>10. \A p : p \in Merged' <=> p \in Merged \/ (p = p0 /\ Kept(cur.oid, cur.at))
  BY <1>1, <1>2, <1>3, <1>5, <1>7, MergedIs, MergedIsNext
<1>11. CASE ~Kept(cur.oid, cur.at)
  <2>1. Merged' = Merged
    BY <1>10, <1>11 DEF Merged
  <2> QED BY <1>4, <1>11, <2>1 DEF View
<1>12. CASE Kept(cur.oid, cur.at)
  <2>1. Merged' = Merged \cup {p0}
    BY <1>10, <1>12
  <2>2. DOMAIN View' = DOMAIN View \cup {p0} /\ p0 \notin DOMAIN View
    BY <1>9, <2>1 DEF View
  <2>3. \A p \in DOMAIN View : View'[p] = View[p]
    BY <1>4, <2>1 DEF View
  <2>4. View'[p0] = Symbol
    BY <1>4, <1>5, <2>1 DEF View, At, Symbol
  <2>5. ASSUME NEW p \in DOMAIN View
        PROVE  Before(p, p0) /\ View[p] \in Syms
    <3>1. p[1] < Len(objects) /\ Past(p) /\ p[1] \in Nat /\ p[2] \in Nat /\ View[p] \in Syms
      BY ViewFacts
    <3>2. p[1] < cur.oid \/ (p[1] = cur.oid /\ p[2] < cur.at)
      BY <1>1, <3>1 DEF Past
    <3> QED BY <1>1, <1>5, <3>1, <3>2 DEF Before
  <2>6. DOMAIN View \subseteq Nat \X Nat
    BY ViewFacts
  <2>7. Extends1(View, View', p0, Symbol)
    BY <1>5, <2>2, <2>3, <2>4, <2>5, <2>6 DEF Extends1
  <2> QED BY <1>12, <2>7 DEF p0
<1> QED BY <1>11, <1>12

Forced(n) == n \in link.forced /\ pc # "bare"

RefInv == ~Final /\ pc # "duplicate" => \A n \in Names : RefOf(View, Forced(n), n, table.res[n])

LEMMA RefFrame ==
  ASSUME RefInv, View' = View, link' = link, pc' = "bare" <=> pc = "bare", pc' # "duplicate",
         ~Final' => ~Final /\ pc # "duplicate",
         \A n \in Names : \/ table.res[n] = None /\ table'.res[n] = None
                          \/ table.res[n] # None /\ SameTarget(table.res[n], table'.res[n])
  PROVE  RefInv'
<1>1. SUFFICES ASSUME ~Final', pc' # "duplicate", NEW n \in Names
               PROVE  RefOf(View', Forced(n)', n, table'.res[n])
  BY DEF RefInv
<1>2. PICK f : f = Forced(n) /\ f = Forced(n)'
  BY DEF Forced
<1>3. RefOf(View, f, n, table.res[n])
  BY <1>1, <1>2 DEF RefInv
<1>4. Agree(View, View, n)
  BY DEF Agree
<1>5. RefOf(View, f, n, table'.res[n])
  BY <1>3, <1>4, RefSame
<1> QED BY <1>2, <1>5

LEMMA RefFrameSame ==
  ASSUME RefInv, View' = View, link' = link, pc' = "bare" <=> pc = "bare", pc' # "duplicate",
         ~Final' => ~Final /\ pc # "duplicate",
         table' = table
  PROVE  RefInv'
<1>1. \A n \in Names : \/ table.res[n] = None /\ table'.res[n] = None
                       \/ table.res[n] # None /\ SameTarget(table.res[n], table'.res[n])
  BY DEF SameTarget
<1> QED BY <1>1, RefFrame

LEMMA RefEmpty ==
  ASSUME NEW V, DOMAIN V = {}, NEW n
  PROVE  RefOf(V, FALSE, n, None)
<1>1. Defs(V, n) = {} /\ Commons(V, n) = {} /\ Refs(V, n) = {} /\ StrongOf(V, n) = {}
  BY DEF Defs, Commons, Refs, StrongOf, For
<1> QED BY <1>1 DEF RefOf

LEMMA Ref_Init ==
  ASSUME Init
  PROVE  RefInv
<1>1. DOMAIN View = {}
  <2>1. Merged = {}
    BY DEF Init, Merged
  <2> QED BY <2>1 DEF View
<1>2. \A n \in Names : Forced(n) = FALSE /\ table.res[n] = None
  BY InitFacts DEF Init, Forced
<1>3. \A n \in Names : RefOf(View, FALSE, n, None)
  BY <1>1, RefEmpty
<1> QED BY <1>2, <1>3 DEF RefInv

LEMMA Ref_Retry ==
  ASSUME RetryWithoutCrt
  PROVE  RefInv'
<1>1. DOMAIN View' = {}
  <2>1. Merged' = {}
    BY DEF RetryWithoutCrt, Merged
  <2> QED BY <2>1 DEF View
<1>2. \A n \in Names : Forced(n)' = FALSE /\ table'.res[n] = None
  BY InitFacts DEF RetryWithoutCrt, Forced
<1>3. \A n \in Names : RefOf(View', FALSE, n, None)
  BY <1>1, RefEmpty
<1> QED BY <1>2, <1>3 DEF RefInv

LEMMA Ref_Merge ==
  ASSUME Base, RefInv, TypeOK', Merge
  PROVE  RefInv'
<1> USE DEF Base
<1>0. Resolving /\ ~Final /\ pc # "duplicate" /\ cur.oid \in Nat /\ cur.at \in Nat /\ table \in Tables
  BY CurFacts DEF Merge, Unfinished, CurOK, Final, TypeOK
<1>1. CASE ~Kept(cur.oid, cur.at)
  <2>1. View' = View /\ table' = table
    BY <1>1, ViewMerge DEF Merge
  <2> QED BY <1>0, <2>1, RefFrameSame DEF Merge, Final
<1>2. CASE Kept(cur.oid, cur.at)
  <2>1. PICK o \in Nat, i \in Nat : o = cur.oid /\ i = cur.at
    BY <1>0
  <2>2. PICK V, W, sym : V = View /\ W = View' /\ sym = Symbol
    OBVIOUS
  <2>3. Extends1(V, W, <<o, i>>, sym)
    BY <1>2, <2>1, <2>2, ViewMerge
  <2>4. /\ sym \in Syms /\ sym.binding # "Local" /\ sym.name \in Names /\ pc \in Merging
        /\ MergesTo(table, o, sym, table.res[sym.name], table')
        /\ \A m \in Names : m # sym.name => table'.res[m] = table.res[m]
    BY <1>2, <2>1, <2>2, MergeStep
  <2>5. SUFFICES ASSUME NEW n \in Names
                 PROVE  RefOf(W, Forced(n)', n, table'.res[n])
    BY <2>2 DEF RefInv
  <2>6. PICK f \in BOOLEAN : f = Forced(n) /\ f = Forced(n)'
    BY DEF Forced, Merge
  <2>7. RefOf(V, f, n, table.res[n])
    BY <1>0, <2>2, <2>6 DEF RefInv
  <2>8. CASE n # sym.name
    <3>1. RefOf(W, f, n, table.res[n])
      BY <2>3, <2>7, <2>8, RefOther
    <3> QED BY <2>4, <2>6, <2>8, <3>1
  <2>9. CASE n = sym.name
    <3>1. PICK e, g : e = table.res[n] /\ g = table'.res[n]
      OBVIOUS
    <3>2. e \in Entries \cup {None} /\ MergedEntry(e)
      BY <1>0, <2>4, <3>1 DEF Tables, IdInv
    <3>3. EntryTo(o, sym, e, g)
      BY <1>0, <2>4, <2>9, <3>1, <3>2, EntryCases
    <3>4. ~Duplicate(table, sym)
      BY <1>2, <2>2 DEF Merge, Conflict
    <3>5. RefOf(V, f, n, e)
      BY <2>7, <3>1
    <3>6. CASE sym.kind = "defined"
      <4>1. ~(sym.binding = "Global" /\ e # None /\ e.common = None /\ e.defined_in # None
              /\ e.binding = "Global")
        BY <2>9, <3>1, <3>4, <3>6 DEF Duplicate
      <4>2. RefOf(W, f, n, g)
        BY <2>3, <2>4, <2>9, <3>2, <3>3, <3>5, <3>6, <4>1, RefMergeDefined
      <4> QED BY <2>6, <3>1, <4>2
    <3>7. CASE sym.kind = "undefined"
      <4>1. RefOf(W, f, n, g)
        BY <2>3, <2>4, <2>9, <3>2, <3>3, <3>5, <3>7, RefMergeUndefined
      <4> QED BY <2>6, <3>1, <4>1
    <3>8. CASE sym.kind = "common"
      <4>1. RefOf(W, f, n, g)
        BY <2>3, <2>4, <2>9, <3>2, <3>3, <3>5, <3>8, RefMergeCommon
      <4> QED BY <2>6, <3>1, <4>1
    <3> QED BY <2>4, <3>6, <3>7, <3>8 DEF Syms
  <2> QED BY <2>8, <2>9
<1> QED BY <1>1, <1>2

(* -u makes a reference of a name that nothing mentions, and a strong one  *)
(* of a weak one.                                                          *)
LEMMA RefForce ==
  ASSUME NEW V, NEW n, NEW e, NEW g, RefOf(V, FALSE, n, e), DOMAIN V \subseteq Nat \X Nat,
         e = None => g = Undefined("Global"),
         e # None => /\ g # None /\ g.defined_in = e.defined_in
                     /\ g.common = e.common /\ g.section = e.section
                     /\ g.binding = IF e.defined_in = None THEN "Global" ELSE e.binding
  PROVE  RefOf(V, TRUE, n, g)
<1>1. CASE e # None /\ e.defined_in # None
  <2>1. SameTarget(e, g)
    BY <1>1 DEF SameTarget
  <2>2. Defs(V, n) # {} \/ Commons(V, n) # {}
    BY <1>1, RefKinds
  <2>3. RefOf(V, FALSE, n, g)
    <3>1. Agree(V, V, n)
      BY DEF Agree
    <3> QED BY <1>1, <2>1, <3>1, RefSame
  <2> QED BY <2>2, <2>3 DEF RefOf
<1>2. CASE e = None \/ e.defined_in = None
  <2>1. Defs(V, n) = {} /\ Commons(V, n) = {} /\ (e # None => e.common = None)
    <3>1. CASE e = None
      BY <3>1, RefKinds
    <3>2. CASE e # None /\ e.defined_in = None
      <4>1. Defs(V, n) # {} => \E p \in Defs(V, n) : Holds(V, e, p)
        BY DEF RefOf, StrongOf
      <4>2. Defs(V, n) \subseteq DOMAIN V /\ Commons(V, n) \subseteq DOMAIN V
        BY DEF Defs, Commons, For
      <4>3. Defs(V, n) = {}
        BY <3>2, <4>1, <4>2, ResolveAssumption DEF Holds
      <4>4. Commons(V, n) = {}
        BY <3>2, <4>2, <4>3, ResolveAssumption DEF RefOf, IsBlock
      <4>5. IsOpen(V, n, FALSE, e)
        BY <3>2, <4>3, <4>4 DEF RefOf
      <4> QED BY <4>3, <4>4, <4>5 DEF IsOpen
    <3> QED BY <1>2, <3>1, <3>2
  <2>2. StrongOf(V, n) = {}
    BY <2>1 DEF StrongOf
  <2>3. g # None /\ g.defined_in = None /\ g.common = None /\ g.binding = "Global"
    <3>1. CASE e = None
      BY <3>1, UndefinedFacts
    <3>2. CASE e # None
      BY <1>2, <2>1, <3>2
    <3> QED BY <3>1, <3>2
  <2>4. IsOpen(V, n, TRUE, g)
    BY <2>3 DEF IsOpen, Demanded
  <2> QED BY <2>1, <2>2, <2>4 DEF RefOf
<1> QED BY <1>1, <1>2

LEMMA Ref_BareDone ==
  ASSUME Base, RefInv, BareDone
  PROVE  RefInv'
<1> USE DEF Base
<1>1. table \in Tables /\ pc = "bare" /\ pc' = "whole" /\ ~Final
  BY DEF TypeOK, BareDone, Idle, Final
<1>2. table' = ForceUndefined(table, link.forced)
  BY DEF BareDone
<1>3. View' = View
  BY ViewFrame DEF BareDone
<1>4. SUFFICES ASSUME NEW n \in Names
               PROVE  RefOf(View, Forced(n)', n, table'.res[n])
  BY <1>3 DEF RefInv
<1>5. /\ Forced(n) = FALSE
      /\ n \in link.forced => Forced(n)' = TRUE
      /\ n \notin link.forced => Forced(n)' = FALSE
  BY <1>1 DEF Forced, BareDone
<1>6. PICK e, g : e = table.res[n] /\ g = table'.res[n]
  OBVIOUS
<1>7. RefOf(View, FALSE, n, e)
  BY <1>1, <1>5, <1>6 DEF RefInv
<1>8. /\ n \in link.forced /\ e = None => g = Undefined("Global")
      /\ n \notin link.forced => g = e
      /\ e # None =>
           /\ g # None /\ g.defined_in = e.defined_in
           /\ g.common = e.common /\ g.section = e.section
           /\ g.binding = IF n \in link.forced /\ ~IsDefined(e) THEN "Global" ELSE e.binding
  BY <1>1, <1>2, <1>6, ForceFacts
<1>9. e # None => (IsDefined(e) <=> e.defined_in # None)
  BY <1>1, <1>6 DEF IdInv, Merging, MergedEntry, IsDefined
<1>10. CASE n \notin link.forced
  <2>1. g = e
    BY <1>8, <1>10
  <2>2. Forced(n)' = FALSE
    BY <1>5, <1>10
  <2> QED BY <1>6, <1>7, <2>1, <2>2
<1>11. CASE n \in link.forced
  <2>1. Forced(n)' = TRUE
    BY <1>5, <1>11
  <2>2. DOMAIN View \subseteq Nat \X Nat
    BY ViewFacts
  <2>3. RefOf(View, TRUE, n, g)
    BY <1>7, <1>8, <1>9, <1>11, <2>2, RefForce
  <2> QED BY <1>6, <2>1, <2>3
<1> QED BY <1>10, <1>11

LEMMA Ref_Register ==
  ASSUME Base, RefInv, Register
  PROVE  RefInv'
<1>1. PICK n \in Names : n = Exports[shared.at]
  BY RegisterFacts
<1>2. View' = View
  BY ViewFrame DEF Register
<1>3. pc = "shared" /\ pc' = "shared" /\ link' = link
  BY RegisterFacts DEF Register
<1>4. ~Satisfies(table, n) => table'.res[n] = table.res[n]
  BY <1>1, RegisterFacts
<1>5. ASSUME Satisfies(table, n)
      PROVE  table.res[n] # None /\ SameTarget(table.res[n], table'.res[n])
  <2>1. /\ table.res[n] # None /\ table'.res[n] # None
        /\ table'.res[n].binding = table.res[n].binding
        /\ table'.res[n].section = table.res[n].section
        /\ table'.res[n].defined_in = table.res[n].defined_in
        /\ table'.res[n].common = table.res[n].common
    BY <1>1, <1>5, RegisterFacts DEF Satisfies
  <2> QED BY <2>1 DEF SameTarget
<1>6. \A m \in Names : \/ table.res[m] = None /\ table'.res[m] = None
                       \/ table.res[m] # None /\ SameTarget(table.res[m], table'.res[m])
  <2>1. \A m \in Names : m # n => table'.res[m] = table.res[m]
    BY <1>1, RegisterFacts
  <2> QED BY <1>4, <1>5, <2>1 DEF SameTarget
<1> QED BY <1>2, <1>3, <1>6, RefFrame DEF Final

LEMMA Ref_AssignWeakGotId ==
  ASSUME Base, RefInv, AssignWeakGotId
  PROVE  RefInv'
<1>1. View' = View
  BY ViewFrame DEF AssignWeakGotId
<1>2. \A m \in Names : \/ table.res[m] = None /\ table'.res[m] = None
                       \/ table.res[m] # None /\ SameTarget(table.res[m], table'.res[m])
  BY WeakGotFacts DEF SameTarget
<1>3. pc = "weakgot" /\ pc' = "weakgot" /\ link' = link
  BY DEF AssignWeakGotId
<1> QED BY <1>1, <1>2, <1>3, RefFrame DEF Final

LEMMA Ref_Next ==
  ASSUME Base, RefInv, Base', [Next]_rvars
  PROVE  RefInv'
<1>1. CASE Merge
  BY <1>1, Ref_Merge DEF Base
<1>2. CASE RetryWithoutCrt
  BY <1>2, Ref_Retry
<1>3. CASE FailDuplicate
  BY <1>3 DEF FailDuplicate, RefInv
<1>4. CASE ResolveNext
  <2>1. Head(queue) \in Inputs /\ cur = None /\ {} \in SUBSET Names
    BY <1>4, TailFacts DEF Base, TypeOK, ResolveNext, Idle
  <2>2. View' = View
    BY <1>4, <2>1, ViewBegin DEF ResolveNext, Base
  <2> QED BY <1>4, <2>2, RefFrameSame DEF ResolveNext, Idle, Final
<1>5. CASE PassOver
  <2>1. View' = View
    BY <1>5, ViewFrame DEF PassOver
  <2> QED BY <1>5, <2>1, RefFrameSame DEF PassOver, Idle, Final
<1>6. CASE Resolved
  <2>1. View' = View
    BY <1>6, ViewEnd DEF Resolved, Base
  <2> QED BY <1>6, <2>1, RefFrameSame DEF Resolved, Final
<1>7. CASE BareDone
  BY <1>7, Ref_BareDone
<1>8. CASE WholeDone
  <2>1. View' = View
    BY <1>8, ViewFrame DEF WholeDone
  <2> QED BY <1>8, <2>1, RefFrameSame DEF WholeDone, Idle, Final
<1>9. CASE SkipMember
  <2>1. View' = View
    BY <1>9, ViewFrame DEF SkipMember
  <2> QED BY <1>9, <2>1, RefFrameSame DEF SkipMember, Pulling, Final
<1>10. CASE PullMember
  <2>1. PICK obj : obj = lazy.members[lazy.at]
    OBVIOUS
  <2>2. obj \in Inputs /\ cur = None
    BY <1>10, <2>1, LazyFacts DEF Base, PullMember, Wanted, Pulling
  <2>3. MemberDefines(obj) \cup MemberRefers(obj) \in SUBSET Names
    BY <2>2, MentionFacts DEF Base
  <2>4. View' = View
    BY <1>10, <2>1, <2>2, <2>3, ViewBegin DEF PullMember, Base
  <2> QED BY <1>10, <2>4, RefFrameSame DEF PullMember, Pulling, Final
<1>11. CASE Reconcile
  <2>1. View' = View
    BY <1>11, ViewEnd DEF Reconcile, Base
  <2> QED BY <1>11, <2>1, RefFrameSame DEF Reconcile, Final
<1>12. CASE StartLibAgain
  <2>1. View' = View
    BY <1>12, ViewFrame DEF StartLibAgain
  <2> QED BY <1>12, <2>1, RefFrameSame DEF StartLibAgain, Final
<1>13. CASE StartLibDone
  <2>1. View' = View
    BY <1>13, ViewFrame DEF StartLibDone
  <2> QED BY <1>13, <2>1, RefFrameSame DEF StartLibDone, Final
<1>14. CASE Round
  <2>1. View' = View
    BY <1>14, ViewFrame DEF Round
  <2> QED BY <1>14, <2>1, RefFrameSame DEF Round, Final
<1>15. CASE SkipArchive
  <2>1. View' = View
    BY <1>15, ViewFrame DEF SkipArchive
  <2> QED BY <1>15, <2>1, RefFrameSame DEF SkipArchive, Final
<1>16. CASE ParseMatching
  <2>1. View' = View
    BY <1>16, ViewFrame DEF ParseMatching
  <2> QED BY <1>16, <2>1, RefFrameSame DEF ParseMatching, Final
<1>17. CASE ParseAll
  <2>1. View' = View
    BY <1>17, ViewFrame DEF ParseAll
  <2> QED BY <1>17, <2>1, RefFrameSame DEF ParseAll, Final
<1>18. CASE ScanDone
  <2>1. View' = View
    BY <1>18, ViewFrame DEF ScanDone
  <2> QED BY <1>18, <2>1, RefFrameSame DEF ScanDone, Final
<1>19. CASE RoundDone
  <2>1. View' = View
    BY <1>19, ViewFrame DEF RoundDone
  <2> QED BY <1>19, <2>1, RefFrameSame DEF RoundDone, Final
<1>20. CASE ArchivesDone
  <2>1. View' = View
    BY <1>20, ViewFrame DEF ArchivesDone
  <2> QED BY <1>20, <2>1, RefFrameSame DEF ArchivesDone, Final
<1>21. CASE Register
  BY <1>21, Ref_Register
<1>22. CASE LibraryDone
  <2>1. View' = View
    BY <1>22, ViewFrame DEF LibraryDone
  <2> QED BY <1>22, <2>1, RefFrameSame DEF LibraryDone, Reading, Final
<1>23. CASE SharedDone
  <2>1. View' = View
    BY <1>23, ViewFrame DEF SharedDone
  <2> QED BY <1>23, <2>1, RefFrameSame DEF SharedDone, Final
<1>24. CASE AssignWeakGotId
  BY <1>24, Ref_AssignWeakGotId
<1>25. CASE Predefine \/ Check
  BY <1>25 DEF Predefine, Check, RefInv, Final
<1>26. CASE UNCHANGED rvars
  <2>1. View' = View
    BY <1>26, ViewFrame DEF rvars
  <2>2. \A n : Forced(n)' = Forced(n)
    BY <1>26 DEF rvars, Forced
  <2> QED BY <1>26, <2>1, <2>2 DEF rvars, RefInv, Final
<1> QED BY <1>1, <1>2, <1>3, <1>4, <1>5, <1>6, <1>7, <1>8, <1>9, <1>10, <1>11, <1>12, <1>13,
           <1>14, <1>15, <1>16, <1>17, <1>18, <1>19, <1>20, <1>21, <1>22, <1>23, <1>24, <1>25,
           <1>26 DEF Next

(* What a step may do to the objects and the groups.                       *)
LEMMA StepKinds ==
  ASSUME Base, [Next]_rvars
  PROVE  \/ RetryWithoutCrt
         \/ \E obj \in Inputs, touched \in SUBSET Names :
              Begin(obj, touched) /\ cur = None /\ pc \notin {"duplicate"} /\ link' = link
         \/ UNCHANGED <<objects, seen_comdat, excluded, link>>
<1>1. CASE ResolveNext
  <2>1. Head(queue) \in Inputs /\ cur = None /\ {} \in SUBSET Names
    BY <1>1, TailFacts DEF Base, TypeOK, ResolveNext, Idle
  <2> QED BY <1>1, <2>1 DEF ResolveNext, Idle
<1>2. CASE PullMember
  <2>1. PICK obj : obj = lazy.members[lazy.at]
    OBVIOUS
  <2>2. obj \in Inputs /\ cur = None
    BY <1>2, <2>1, LazyFacts DEF Base, PullMember, Wanted, Pulling
  <2>3. MemberDefines(obj) \cup MemberRefers(obj) \in SUBSET Names
    BY <2>2, MentionFacts DEF Base
  <2> QED BY <1>2, <2>1, <2>2, <2>3 DEF PullMember, Pulling
<1>3. CASE \/ Merge \/ FailDuplicate \/ PassOver \/ Resolved \/ BareDone \/ WholeDone
           \/ SkipMember \/ Reconcile \/ StartLibAgain \/ StartLibDone
  BY <1>3 DEF Merge, FailDuplicate, PassOver, Resolved, BareDone, WholeDone, SkipMember,
     Reconcile, StartLibAgain, StartLibDone
<1>4. CASE \/ Round \/ SkipArchive \/ ParseMatching \/ ParseAll \/ ScanDone \/ RoundDone
           \/ ArchivesDone \/ Register \/ LibraryDone \/ SharedDone
           \/ AssignWeakGotId \/ Predefine \/ Check \/ UNCHANGED rvars
  BY <1>4 DEF Round, SkipArchive, ParseMatching, ParseAll, ScanDone, RoundDone, ArchivesDone,
     Register, LibraryDone, SharedDone, AssignWeakGotId, Predefine, Check, rvars
<1> QED BY <1>1, <1>2, <1>3, <1>4 DEF Next

(* And which steps end the link.                                           *)
LEMMA EndKinds ==
  ASSUME Base, [Next]_rvars
  PROVE  /\ pc' = "duplicate" => FailDuplicate \/ UNCHANGED rvars
         /\ Final' => Predefine \/ Check \/ UNCHANGED rvars
<1>0. CASE Merge
  <2>1. pc' = pc /\ pc # "duplicate" /\ ~Final
    BY <1>0 DEF Merge, Base, CurOK, Unfinished, Final
  <2> QED BY <2>1 DEF Final
<1>1. CASE RetryWithoutCrt \/ FailDuplicate
  BY <1>1 DEF RetryWithoutCrt, FailDuplicate, Final
<1>2. CASE \/ ResolveNext \/ PassOver \/ Resolved \/ BareDone \/ WholeDone
           \/ SkipMember \/ PullMember \/ Reconcile \/ StartLibAgain \/ StartLibDone
  BY <1>2 DEF ResolveNext, PassOver, Resolved, BareDone, WholeDone, SkipMember, PullMember,
     Reconcile, StartLibAgain, StartLibDone, Idle, Pulling, AllTried, Final
<1>3. CASE \/ Round \/ SkipArchive \/ ParseMatching \/ ParseAll \/ ScanDone \/ RoundDone
           \/ ArchivesDone \/ Register \/ LibraryDone \/ SharedDone \/ AssignWeakGotId
  BY <1>3 DEF Round, SkipArchive, ParseMatching, ParseAll, ScanDone, RoundDone, ArchivesDone,
     Register, LibraryDone, SharedDone, AssignWeakGotId, Reading, Final
<1>4. CASE Predefine \/ Check \/ UNCHANGED rvars
  BY <1>4 DEF Predefine, Check
<1> QED BY <1>0, <1>1, <1>2, <1>3, <1>4 DEF Next

-----------------------------------------------------------------------------
(* COMDAT groups.                                                          *)

LEMMA LeastNat ==
  ASSUME NEW T \in SUBSET Nat, T # {}
  PROVE  \E x \in T : \A y \in T : ~(y < x)
<1>1. \E x \in T : \A y \in T : ~(<<y, x>> \in OpToRel(<, Nat))
  BY NatLessThanWellFounded, WFMin
<1> QED BY <1>1 DEF OpToRel

(* Group i of object o is the copy that is kept of its groups.             *)
IsCopy(sig, o, i) ==
  /\ objects[o].groups[i].sig = sig
  /\ \A p \in DOMAIN objects : \A j \in DOMAIN objects[p].groups :
       objects[p].groups[j].sig = sig =>
         \A s \in objects[p].groups[j].members : <<p - 1, s>> \in excluded <=> <<p, j>> # <<o, i>>

GroupInv ==
  /\ \A sig \in seen_comdat :
       \E o \in DOMAIN objects : \E i \in DOMAIN objects[o].groups : IsCopy(sig, o, i)
  /\ \A o \in DOMAIN objects : \A i \in DOMAIN objects[o].groups :
       objects[o].groups[i].sig \in seen_comdat
  /\ \A q \in excluded : q[1] < Len(objects)

LEMMA Group_Begin ==
  ASSUME Base, GroupInv, NEW obj \in Inputs, NEW touched \in SUBSET Names, Begin(obj, touched)
  PROVE  GroupInv'
<1> USE DEF Base
<1>0. PICK N : N = Len(objects)
  OBVIOUS
<1> DEFINE drop == DroppedSections(obj)
           sigs == {obj.groups[i].sig : i \in DOMAIN obj.groups}
<1>1. /\ N \in Nat /\ Len(objects') = N + 1 /\ DOMAIN objects = 1..N
      /\ \A o \in 1..N : objects'[o] = objects[o]
      /\ objects'[N + 1] = obj
  BY <1>0, BeginFacts, ObjectFacts
<1>2. DOMAIN objects' = 1..(N + 1)
  BY <1>1, BeginFacts
<1>3. /\ seen_comdat' = seen_comdat \cup sigs
      /\ excluded' = excluded \cup {<<N, s>> : s \in drop}
  BY <1>0 DEF Begin
<1>4. /\ obj.groups \in Seq(Groups) /\ OneGroupEach(obj) /\ DOMAIN obj.groups \subseteq Nat
      /\ DOMAIN obj.groups = 1..Len(obj.groups) /\ Len(obj.groups) \in Nat
  BY InputFacts
<1>5. excluded \in SUBSET (Nat \X Nat)
  BY DEF TypeOK
<1>6. \A p \in 1..N : \A s : <<p - 1, s>> \in excluded' <=> <<p - 1, s>> \in excluded
  BY <1>1, <1>3
<1>7. \A s : <<N, s>> \in excluded' <=> s \in drop
  <2>1. \A s : <<N, s>> \notin excluded
    BY <1>0, <1>1 DEF GroupInv
  <2> QED BY <1>3, <2>1
<1>8. \A s : s \in drop <=> \E k \in DroppedGroups(obj) : s \in obj.groups[k].members
  BY DEF DroppedSections
<1>9. \A k : k \in DroppedGroups(obj) <=>
        /\ k \in DOMAIN obj.groups
        /\ \/ obj.groups[k].sig \in seen_comdat
           \/ \E j \in 1..(k - 1) : obj.groups[j].sig = obj.groups[k].sig
  BY DEF DroppedGroups
<1>10. \A o \in DOMAIN objects : \A i \in DOMAIN objects[o].groups :
         objects[o].groups[i].sig \in seen_comdat
  BY DEF GroupInv
<1> HIDE DEF drop, sigs
<1>11. ASSUME NEW sig \in seen_comdat
       PROVE  \E o \in DOMAIN objects' : \E i \in DOMAIN objects'[o].groups : IsCopy(sig, o, i)'
  <2>1. PICK o \in DOMAIN objects : \E i \in DOMAIN objects[o].groups : IsCopy(sig, o, i)
    BY DEF GroupInv
  <2>2. PICK i \in DOMAIN objects[o].groups : IsCopy(sig, o, i)
    BY <2>1
  <2>3. o \in DOMAIN objects' /\ objects'[o] = objects[o] /\ o # N + 1
    BY <1>1, <1>2
  <2>4. ASSUME NEW p \in DOMAIN objects', NEW j \in DOMAIN objects'[p].groups,
               objects'[p].groups[j].sig = sig, NEW s \in objects'[p].groups[j].members
        PROVE  <<p - 1, s>> \in excluded' <=> <<p, j>> # <<o, i>>
    <3>1. CASE p = N + 1
      <4>1. j \in DroppedGroups(obj)
        BY <1>1, <1>9, <2>4, <3>1
      <4>2. s \in drop
        BY <1>1, <1>8, <2>4, <3>1, <4>1
      <4>3. <<p - 1, s>> \in excluded'
        BY <1>1, <1>7, <3>1, <4>2
      <4> QED BY <2>3, <3>1, <4>3
    <3>2. CASE p # N + 1
      <4>1. p \in 1..N /\ objects'[p] = objects[p] /\ p \in DOMAIN objects
        BY <1>1, <1>2, <3>2
      <4>2. <<p - 1, s>> \in excluded <=> <<p, j>> # <<o, i>>
        BY <2>2, <2>4, <4>1 DEF IsCopy
      <4> QED BY <1>6, <4>1, <4>2
    <3> QED BY <3>1, <3>2
  <2>5. IsCopy(sig, o, i)'
    BY <2>2, <2>3, <2>4 DEF IsCopy
  <2> QED BY <2>3, <2>5
<1>12. ASSUME NEW sig \in sigs, sig \notin seen_comdat
       PROVE  \E o \in DOMAIN objects' : \E i \in DOMAIN objects'[o].groups : IsCopy(sig, o, i)'
  <2> DEFINE T == {i \in DOMAIN obj.groups : obj.groups[i].sig = sig}
  <2>1. T \in SUBSET Nat /\ T # {}
    BY <1>4, <1>12 DEF sigs
  <2>2. PICK i \in T : \A y \in T : ~(y < i)
    BY <2>1, LeastNat
  <2>3. i \in DOMAIN obj.groups /\ obj.groups[i].sig = sig /\ i \in Nat
    BY <2>1, <2>2
  <2>4. i \notin DroppedGroups(obj)
    <3>1. SUFFICES ASSUME NEW j \in 1..(i - 1), obj.groups[j].sig = sig
                   PROVE  FALSE
      BY <1>9, <1>12, <2>3
    <3>2. j \in DOMAIN obj.groups /\ j < i
      BY <1>4, <2>3
    <3> QED BY <2>2, <3>1, <3>2
  <2>5. ASSUME NEW p \in DOMAIN objects', NEW j \in DOMAIN objects'[p].groups,
               objects'[p].groups[j].sig = sig, NEW s \in objects'[p].groups[j].members
        PROVE  <<p - 1, s>> \in excluded' <=> <<p, j>> # <<N + 1, i>>
    <3>1. CASE p # N + 1
      <4>1. p \in DOMAIN objects /\ objects'[p] = objects[p]
        BY <1>1, <1>2, <3>1
      <4> QED BY <1>10, <1>12, <2>5, <4>1
    <3>2. CASE p = N + 1 /\ j = i
      <4>1. s \notin drop
        <5>1. SUFFICES ASSUME NEW k \in DroppedGroups(obj), s \in obj.groups[k].members
                       PROVE  FALSE
          BY <1>8
        <5>2. k \in DOMAIN obj.groups /\ k # i
          BY <1>9, <2>4
        <5>3. s \in obj.groups[i].members
          BY <1>1, <2>5, <3>2
        <5> QED BY <1>4, <2>3, <5>1, <5>2, <5>3 DEF OneGroupEach
      <4>2. <<p - 1, s>> \notin excluded'
        BY <1>1, <1>7, <3>2, <4>1
      <4> QED BY <3>2, <4>2
    <3>3. CASE p = N + 1 /\ j # i
      <4>1. j \in DOMAIN obj.groups /\ obj.groups[j].sig = sig /\ s \in obj.groups[j].members
            /\ j \in Nat
        BY <1>1, <1>4, <2>5, <3>3
      <4>2. i < j
        BY <2>2, <2>3, <3>3, <4>1
      <4>3. i \in 1..(j - 1)
        BY <1>4, <2>3, <4>1, <4>2
      <4>4. j \in DroppedGroups(obj)
        BY <1>9, <2>3, <4>1, <4>3
      <4>5. <<p - 1, s>> \in excluded'
        BY <1>1, <1>7, <1>8, <3>3, <4>1, <4>4
      <4> QED BY <3>3, <4>5
    <3> QED BY <3>1, <3>2, <3>3
  <2>6. N + 1 \in DOMAIN objects' /\ i \in DOMAIN objects'[N + 1].groups
    BY <1>1, <1>2, <2>3
  <2>7. IsCopy(sig, N + 1, i)'
    BY <1>1, <2>3, <2>5 DEF IsCopy
  <2> QED BY <2>6, <2>7
<1>13. \A sig \in seen_comdat' :
         \E o \in DOMAIN objects' : \E i \in DOMAIN objects'[o].groups : IsCopy(sig, o, i)'
  BY <1>3, <1>11, <1>12
<1>14. \A o \in DOMAIN objects' : \A i \in DOMAIN objects'[o].groups :
         objects'[o].groups[i].sig \in seen_comdat'
  <2>1. SUFFICES ASSUME NEW o \in DOMAIN objects', NEW i \in DOMAIN objects'[o].groups
                 PROVE  objects'[o].groups[i].sig \in seen_comdat'
    OBVIOUS
  <2>2. CASE o = N + 1
    BY <1>1, <1>3, <2>2 DEF sigs
  <2>3. CASE o # N + 1
    BY <1>1, <1>2, <1>3, <1>10, <2>3
  <2> QED BY <2>2, <2>3
<1>15. \A q \in excluded' : q[1] < Len(objects')
  <2>1. \A q \in excluded : q[1] < N /\ q[1] \in Nat
    BY <1>0, <1>5 DEF GroupInv
  <2> QED BY <1>1, <1>3, <2>1
<1> QED BY <1>13, <1>14, <1>15 DEF GroupInv

LEMMA Group_Init ==
  ASSUME Init
  PROVE  GroupInv
BY DEF Init, GroupInv

LEMMA Group_Next ==
  ASSUME Base, GroupInv, [Next]_rvars
  PROVE  GroupInv'
<1>1. CASE RetryWithoutCrt
  BY <1>1 DEF RetryWithoutCrt, GroupInv
<1>2. CASE UNCHANGED <<objects, seen_comdat, excluded, link>>
  BY <1>2 DEF GroupInv, IsCopy
<1> QED BY <1>1, <1>2, Group_Begin, StepKinds

(* No symbol resolves into a copy that was dropped.                        *)
NoneDropped ==
  \A n \in Names : table.res[n] # None =>
    <<table.res[n].defined_in, table.res[n].section>> \notin excluded

LEMMA RefNotDropped ==
  ASSUME TypeOK, RefInv, ~Final, pc # "duplicate"
  PROVE  NoneDropped
<1>1. SUFFICES ASSUME NEW n \in Names, table.res[n] # None
               PROVE  <<table.res[n].defined_in, table.res[n].section>> \notin excluded
  BY DEF NoneDropped
<1>2. PICK e : e = table.res[n]
  OBVIOUS
<1>3. RefOf(View, Forced(n), n, e)
  BY <1>2 DEF RefInv
<1>4. excluded \in SUBSET (Nat \X Nat) /\ None \notin Nat
  BY ResolveAssumption DEF TypeOK
<1>5. ASSUME NEW p \in Defs(View, n), Holds(View, e, p)
      PROVE  <<e.defined_in, e.section>> \notin excluded
  <2>1. p \in Merged
    BY ViewFacts DEF Defs, For
  <2>2. Kept(p[1], p[2]) /\ View[p] = Sym(p[1], p[2])
    BY <2>1, ViewFacts DEF At
  <2> QED BY <1>5, <2>2 DEF Holds, Kept
<1>6. CASE Defs(View, n) # {}
  <2>1. \E p \in Defs(View, n) : Holds(View, e, p)
    BY <1>3, <1>6 DEF RefOf, StrongOf
  <2> QED BY <1>2, <1>5, <2>1
<1>7. CASE Defs(View, n) = {} /\ Commons(View, n) # {}
  BY <1>2, <1>3, <1>4, <1>7 DEF RefOf, IsBlock
<1>8. CASE Defs(View, n) = {} /\ Commons(View, n) = {}
  <2>1. e.defined_in = None
    BY <1>1, <1>2, <1>3, <1>8 DEF RefOf, IsOpen
  <2> QED BY <1>2, <1>4, <2>1
<1> QED BY <1>6, <1>7, <1>8

(* The linker's own symbols and --defsym give absolute values.             *)
LEMMA PredefineFacts ==
  ASSUME Base, Predefine, NEW n \in Names
  PROVE  \/ table'.res[n] = table.res[n]
         \/ table'.res[n] # None /\ table'.res[n].defined_in = 0 /\ table'.res[n].section = None
<1>1. PICK wanted :
        table' = DefineAbsolute(DefineAbsolute(table, wanted), link.defsyms)
  BY DEF Predefine
<1>2. PICK t : t = DefineAbsolute(table, wanted)
  OBVIOUS
<1>3. table \in Tables
  BY DEF Base, TypeOK
<1>4. t \in Tables
  BY <1>2, <1>3, DefineFacts
<1>5. /\ n \notin wanted => t.res[n] = table.res[n]
      /\ n \in wanted => t.res[n] # None /\ t.res[n].defined_in = 0 /\ t.res[n].section = None
  BY <1>2, <1>3, DefineFacts
<1>6. table' = DefineAbsolute(t, link.defsyms)
  BY <1>1, <1>2
<1>7. /\ n \notin link.defsyms => table'.res[n] = t.res[n]
      /\ n \in link.defsyms => /\ table'.res[n] # None /\ table'.res[n].defined_in = 0
                               /\ table'.res[n].section = None
  BY <1>4, <1>6, DefineFacts
<1> QED BY <1>5, <1>7

(* In the last phases too.                                                 *)
EndDropped == Final \/ pc = "duplicate" => NoneDropped

LEMMA Dropped_Next ==
  ASSUME Base, RefInv, EndDropped, [Next]_rvars
  PROVE  EndDropped'
<1>1. NoneDropped
  BY RefNotDropped DEF EndDropped, Base
<1>2. CASE FailDuplicate \/ Check \/ UNCHANGED rvars
  BY <1>1, <1>2 DEF FailDuplicate, Check, rvars, NoneDropped, EndDropped
<1>3. CASE Predefine
  <2>1. excluded' = excluded /\ excluded \in SUBSET (Nat \X Nat) /\ None \notin Nat
    BY <1>3, ResolveAssumption DEF Predefine, Base, TypeOK
  <2>2. NoneDropped'
    BY <1>1, <1>3, <2>1, PredefineFacts DEF NoneDropped
  <2> QED BY <2>2 DEF EndDropped
<1> QED BY <1>2, <1>3, EndKinds DEF EndDropped

-----------------------------------------------------------------------------
(* What the properties say, from the invariants.                           *)

LEMMA FirstIs ==
  ASSUME NEW S, S \subseteq Nat \X Nat, NEW p, First(p, S)
  PROVE  FirstOf(S) = p
<1>1. p \in S /\ \A q \in S : p[1] < q[1] \/ (p[1] = q[1] /\ p[2] <= q[2])
  BY DEF First, Before
<1>2. /\ FirstOf(S) \in S
      /\ \A q \in S : FirstOf(S)[1] < q[1] \/ (FirstOf(S)[1] = q[1] /\ FirstOf(S)[2] <= q[2])
  BY <1>1 DEF FirstOf
<1>3. PICK c : c = FirstOf(S)
  OBVIOUS
<1>4. c \in Nat \X Nat /\ p \in Nat \X Nat
  BY <1>1, <1>2, <1>3
<1>5. c[1] \in Nat /\ c[2] \in Nat /\ p[1] \in Nat /\ p[2] \in Nat
  BY <1>4
<1>6. c[1] = p[1] /\ c[2] = p[2]
  BY <1>1, <1>2, <1>3, <1>5
<1>7. c = p
  BY <1>4, <1>6
<1> QED BY <1>3, <1>7

LEMMA LargestIs ==
  ASSUME NEW S, S \subseteq Nat, NEW k, Largest(k, S)
  PROVE  Max(S) = k
<1>1. k \in S /\ \A j \in S : k >= j
  BY DEF Largest
<1>2. Max(S) \in S /\ \A j \in S : Max(S) >= j
  BY <1>1 DEF Max
<1>3. PICK m : m = Max(S)
  OBVIOUS
<1>4. m \in Nat /\ k \in Nat /\ m >= k /\ k >= m
  BY <1>1, <1>2, <1>3
<1> QED BY <1>3, <1>4

LEMMA MergedForIs ==
  ASSUME TypeOK, NEW n
  PROVE  /\ MergedFor(n, "defined") = Defs(View, n) /\ MergedFor(n, "common") = Commons(View, n)
         /\ MergedFor(n, "undefined") = Refs(View, n) /\ Strong(n) = StrongOf(View, n)
         /\ StronglyReferred(n) <=> Demanded(View, n, Forced(n))
<1>1. \A k : MergedFor(n, k) = For(View, n, k)
  BY ViewFacts DEF MergedFor, For
<1>2. \A k : \A p \in For(View, n, k) : At(p) = View[p]
  BY ViewFacts DEF For
<1>3. Strong(n) = StrongOf(View, n)
  BY <1>1, <1>2 DEF Strong, StrongOf, Defs
<1>4. StronglyReferred(n) <=> Demanded(View, n, Forced(n))
  BY <1>1, <1>2 DEF StronglyReferred, Demanded, Refs, Forced
<1> QED BY <1>1, <1>3, <1>4 DEF Defs, Commons, Refs

LEMMA Inv_TableIsReference ==
  ASSUME TypeOK, RefInv
  PROVE  TableIsReference
<1>1. SUFFICES ASSUME ~Final, pc # "duplicate", NEW n \in Names
               PROVE  LET e == table.res[n]
                          defs == MergedFor(n, "defined")
                          commons == MergedFor(n, "common")
                          refs == MergedFor(n, "undefined")
                      IN CASE Strong(n) # {} -> \A p \in Strong(n) : DefinedAs(e, p)
                           [] Strong(n) = {} /\ defs # {} -> DefinedAs(e, FirstOf(defs))
                           [] defs = {} /\ commons # {} ->
                                /\ e.defined_in = FirstOf(commons)[1]
                                /\ e.common = <<Max({At(p).size : p \in commons}),
                                                Max({At(p).align : p \in commons})>>
                           [] defs = {} /\ commons = {} /\ (refs # {} \/ StronglyReferred(n)) ->
                                /\ e.defined_in = None
                                /\ e.binding = IF StronglyReferred(n) THEN "Global" ELSE "Weak"
                           [] OTHER -> e = None
  BY DEF TableIsReference
<1>2. PICK e, defs, commons, refs, strong, sref, f :
        /\ e = table.res[n] /\ defs = MergedFor(n, "defined") /\ commons = MergedFor(n, "common")
        /\ refs = MergedFor(n, "undefined") /\ strong = Strong(n) /\ sref = StronglyReferred(n)
        /\ f = Forced(n)
  OBVIOUS
<1>3. /\ defs = Defs(View, n) /\ commons = Commons(View, n) /\ refs = Refs(View, n)
      /\ strong = StrongOf(View, n) /\ (sref <=> Demanded(View, n, f))
  BY <1>2, MergedForIs
<1>4. RefOf(View, f, n, e)
  BY <1>1, <1>2 DEF RefInv
<1>5. /\ strong \subseteq defs /\ defs \subseteq Merged /\ commons \subseteq Merged
  BY <1>3, ViewFacts DEF StrongOf, Defs, Commons, For
<1>6. \A p \in Merged : View[p] = At(p) /\ At(p) \in Syms /\ p \in Nat \X Nat
  BY ViewFacts
<1>7. \A p \in defs : Holds(View, e, p) => DefinedAs(e, p)
  BY <1>5, <1>6 DEF Holds, DefinedAs
<1>8. CASE strong # {}
  <2>1. \A p \in strong : DefinedAs(e, p)
    BY <1>3, <1>4, <1>5, <1>7 DEF RefOf
  <2>2. defs # {}
    BY <1>5, <1>8
  <2> QED BY <1>2, <1>8, <2>1, <2>2
<1>9. CASE strong = {} /\ defs # {}
  <2>1. PICK p \in defs : First(p, defs) /\ Holds(View, e, p)
    BY <1>3, <1>4, <1>9 DEF RefOf
  <2>2. FirstOf(defs) = p
    BY <1>5, <1>6, <2>1, FirstIs
  <2>3. DefinedAs(e, FirstOf(defs))
    BY <1>7, <2>1, <2>2
  <2> QED BY <1>2, <1>9, <2>3
<1>10. CASE defs = {} /\ commons # {}
  <2>1. IsBlock(View, n, e)
    BY <1>3, <1>4, <1>10 DEF RefOf
  <2>2. PICK p \in commons : First(p, commons) /\ e.defined_in = p[1]
    BY <1>3, <2>1 DEF IsBlock
  <2>3. FirstOf(commons) = p
    BY <1>5, <1>6, <2>2, FirstIs
  <2>4. PICK S, A : S = {At(q).size : q \in commons} /\ A = {At(q).align : q \in commons}
    OBVIOUS
  <2>5. S = {View[q].size : q \in Commons(View, n)} /\ A = {View[q].align : q \in Commons(View, n)}
    BY <1>3, <1>5, <1>6, <2>4
  <2>6. Largest(e.common[1], S) /\ Largest(e.common[2], A)
    BY <2>1, <2>5 DEF IsBlock
  <2>7. S \subseteq Nat /\ A \subseteq Nat
    BY <1>5, <1>6, <2>4 DEF Syms
  <2>8. Max(S) = e.common[1] /\ Max(A) = e.common[2]
    BY <2>6, <2>7, LargestIs
  <2>9. e.common = <<e.common[1], e.common[2]>>
    <3>1. table \in Tables /\ e # None /\ e.common # None
      BY <2>1 DEF TypeOK, IsBlock
    <3>2. e \in Entries
      BY <1>2, <3>1 DEF Tables
    <3>3. e.common \in Nat \X Nat
      BY <3>1, <3>2 DEF Entries
    <3> QED BY <3>3
  <2>10. strong = {}
    BY <1>5, <1>10
  <2>11. e.defined_in = FirstOf(commons)[1] /\ e.common = <<Max(S), Max(A)>>
    BY <2>2, <2>3, <2>8, <2>9
  <2> QED BY <1>2, <1>10, <2>4, <2>10, <2>11
<1>11. CASE defs = {} /\ commons = {} /\ (refs # {} \/ sref)
  <2>1. refs # {} \/ f
    BY <1>3, <1>11 DEF Demanded
  <2>2. IsOpen(View, n, f, e)
    BY <1>3, <1>4, <1>11, <2>1 DEF RefOf
  <2>3. e.defined_in = None /\ e.binding = IF sref THEN "Global" ELSE "Weak"
    BY <1>3, <2>2 DEF IsOpen
  <2>4. strong = {}
    BY <1>5, <1>11
  <2> QED BY <1>2, <1>11, <2>3, <2>4
<1>12. CASE defs = {} /\ commons = {} /\ ~(refs # {} \/ sref)
  <2>1. refs = {} /\ ~f
    BY <1>3, <1>12 DEF Demanded
  <2>2. e = None
    BY <1>3, <1>4, <1>12, <2>1 DEF RefOf
  <2>3. strong = {}
    BY <1>5, <1>12
  <2> QED BY <1>2, <1>12, <2>2, <2>3
<1> QED BY <1>8, <1>9, <1>10, <1>11, <1>12

LEMMA Inv_IdsBijective ==
  ASSUME Base
  PROVE  IdsBijective
<1>1. \A i \in DOMAIN table.names : table.res[table.names[i]].id = i - 1
  BY DEF Base, IdInv, IdsOK
<1>2. ASSUME NEW n \in Names, table.res[n] # None, table.res[n].id # None
      PROVE  table.res[n].id < Len(table.names) /\ table.names[table.res[n].id + 1] = n
  BY <1>2 DEF Base, IdInv, IdsOK
<1>3. ASSUME NEW n \in Names, table.res[n] # None, ~Final, IsDefined(table.res[n])
      PROVE  table.res[n].id # None
  <2>1. pc \in Merging \/ pc = "shared" \/ pc = "weakgot"
    BY <1>3 DEF Final, Base, TypeOK, Phases
  <2>2. CASE pc \in Merging
    BY <1>3, <2>2 DEF Base, IdInv, MergedEntry, IsDefined
  <2>3. CASE pc = "shared"
    BY <1>3, <2>3 DEF Base, IdInv, NamedEntry
  <2>4. CASE pc = "weakgot"
    BY <1>3, <2>4 DEF Base, IdInv
  <2> QED BY <2>1, <2>2, <2>3, <2>4
<1> QED BY <1>1, <1>2, <1>3 DEF IdsBijective

LEMMA Inv_OneCopyPerGroup ==
  ASSUME TypeOK, RefInv, GroupInv, EndDropped
  PROVE  OneCopyPerGroup
<1>1. NoneDropped
  BY RefNotDropped DEF EndDropped
<1> QED BY <1>1 DEF OneCopyPerGroup, GroupInv, IsCopy, NoneDropped

(* A duplicate comes after a strong definition that was merged.            *)
DupInv == pc = "duplicate" => StrongOf(View, Symbol.name) # {}

(* A strong reference that the last checks see.                            *)
Demands(n) == table.res[n] # None /\ (IsDefined(table.res[n]) \/ table.res[n].binding = "Global")

EndInv ==
  Final =>
    /\ \A n \in Names : StronglyReferred(n) => Demands(n)
    /\ pc = "done" /\ link.enforce => GlobalUndefined(table) \subseteq {TlsGetAddr}

LEMMA RefDemands ==
  ASSUME TypeOK, RefInv, ~Final, pc # "duplicate", NEW n \in Names, StronglyReferred(n)
  PROVE  Demands(n)
<1>1. PICK e, f : e = table.res[n] /\ f = Forced(n)
  OBVIOUS
<1>2. RefOf(View, f, n, e) /\ Demanded(View, n, f)
  BY <1>1, MergedForIs DEF RefInv
<1>3. DOMAIN View \subseteq Nat \X Nat
  BY ViewFacts
<1>4. Refs(View, n) # {} \/ f
  BY <1>2 DEF Demanded
<1>5. e # None
  BY <1>2, <1>3, <1>4, RefKinds
<1>6. CASE e.defined_in # None
  BY <1>1, <1>5, <1>6 DEF Demands, IsDefined
<1>7. CASE e.defined_in = None
  <2>1. Defs(View, n) = {} /\ Commons(View, n) = {}
    <3>1. Defs(View, n) # {} => \E p \in Defs(View, n) : Holds(View, e, p)
      BY <1>2 DEF RefOf, StrongOf
    <3>2. Defs(View, n) \subseteq DOMAIN View /\ Commons(View, n) \subseteq DOMAIN View
      BY DEF Defs, Commons, For
    <3>3. Defs(View, n) = {}
      BY <1>3, <1>7, <3>1, <3>2, ResolveAssumption DEF Holds
    <3> QED BY <1>2, <1>3, <1>7, <3>2, <3>3, ResolveAssumption DEF RefOf, IsBlock
  <2>2. IsOpen(View, n, f, e)
    BY <1>2, <1>4, <2>1 DEF RefOf
  <2>3. e.binding = "Global"
    BY <1>2, <2>2 DEF IsOpen
  <2> QED BY <1>1, <1>5, <2>3 DEF Demands
<1> QED BY <1>6, <1>7

LEMMA ReferredFrame ==
  ASSUME UNCHANGED <<objects, excluded, cur, link>>, pc # "bare", NEW n
  PROVE  StronglyReferred(n)' => StronglyReferred(n)
<1>1. Merged' = Merged
  BY DEF Merged, Kept, Sym, Past, Resolving
<1>2. \A p : At(p)' = At(p)
  BY DEF At, Sym
<1>3. MergedFor(n, "undefined")' = MergedFor(n, "undefined")
  BY <1>1, <1>2 DEF MergedFor
<1> QED BY <1>2, <1>3 DEF StronglyReferred

LEMMA Dup_Next ==
  ASSUME Base, RefInv, DupInv, [Next]_rvars
  PROVE  DupInv'
<1>1. CASE FailDuplicate
  <2>1. View' = View
    BY <1>1, ViewFrame DEF FailDuplicate
  <2>2. Symbol' = Symbol
    BY <1>1 DEF FailDuplicate, Symbol, Sym
  <2>3. ~Final /\ pc # "duplicate"
    BY <1>1 DEF FailDuplicate, Unfinished, Base, CurOK, Final
  <2>4. Symbol \in Syms /\ Duplicate(table, Symbol)
    BY <1>1, CurFacts DEF Base, FailDuplicate, Unfinished, Conflict
  <2>5. PICK n \in Names : n = Symbol.name
    BY <2>4 DEF Syms
  <2>6. PICK e : e = table.res[n]
    OBVIOUS
  <2>7. e # None /\ e.common = None /\ e.defined_in # None /\ e.binding = "Global"
    BY <2>4, <2>5, <2>6 DEF Duplicate
  <2>8. RefOf(View, Forced(n), n, e) /\ DOMAIN View \subseteq Nat \X Nat
    BY <2>3, <2>6, ViewFacts DEF RefInv, Base
  <2>9. StrongOf(View, n) # {}
    BY <2>7, <2>8, RefKinds
  <2> QED BY <2>1, <2>2, <2>5, <2>9 DEF DupInv
<1>2. CASE UNCHANGED rvars
  <2>1. View' = View /\ Symbol' = Symbol
    BY <1>2, ViewFrame DEF rvars, Symbol, Sym
  <2> QED BY <1>2, <2>1 DEF rvars, DupInv
<1> QED BY <1>1, <1>2, EndKinds DEF DupInv

LEMMA End_Next ==
  ASSUME Base, RefInv, EndInv, Base', [Next]_rvars
  PROVE  EndInv'
<1>1. CASE Predefine
  <2>1. View' = View /\ pc = "weakgot" /\ pc' = "check" /\ link' = link
    BY <1>1, ViewFrame DEF Predefine
  <2>2. \A n \in Names : StronglyReferred(n)' => StronglyReferred(n)
    BY <1>1, <2>1, ReferredFrame DEF Predefine
  <2>3. \A n \in Names : StronglyReferred(n) => Demands(n)
    BY <2>1, RefDemands DEF Base, Final
  <2>4. \A n \in Names : Demands(n) => Demands(n)'
    <3>1. None \notin Nat
      BY ResolveAssumption
    <3> QED BY <1>1, <3>1, PredefineFacts DEF Demands, IsDefined
  <2> QED BY <2>1, <2>2, <2>3, <2>4 DEF EndInv
<1>2. CASE Check
  <2>1. /\ UNCHANGED <<objects, excluded, cur, link, table>> /\ pc = "check" /\ pc' # "bare"
    BY <1>2 DEF Check
  <2>2. \A n \in Names : StronglyReferred(n)' => StronglyReferred(n)
    BY <2>1, ReferredFrame
  <2>3. \A n \in Names : StronglyReferred(n) => Demands(n)
    BY <2>1 DEF EndInv, Final
  <2>4. \A n \in Names : Demands(n)' <=> Demands(n)
    BY <2>1 DEF Demands
  <2>5. pc' = "done" => ~Unresolved
    BY <1>2 DEF Check
  <2>6. pc' = "done" /\ link'.enforce => GlobalUndefined(table') \subseteq {TlsGetAddr}
    BY <2>1, <2>5 DEF Unresolved, GlobalUndefined
  <2> QED BY <2>2, <2>3, <2>4, <2>6 DEF EndInv
<1>3. CASE UNCHANGED rvars
  BY <1>3 DEF EndInv, Final, rvars, StronglyReferred, MergedFor, Merged, At, Sym, Kept, Past,
              Resolving, Demands, GlobalUndefined
<1> QED BY <1>1, <1>2, <1>3, EndKinds DEF EndInv

LEMMA Inv_NoFalseDuplicate ==
  ASSUME Base, DupInv
  PROVE  NoFalseDuplicate
<1>1. SUFFICES ASSUME pc = "duplicate"
               PROVE  /\ Kept(cur.oid, cur.at) /\ Symbol.kind = "defined"
                      /\ Symbol.binding = "Global" /\ Strong(Symbol.name) # {}
  BY DEF NoFalseDuplicate
<1>2. Kept(cur.oid, cur.at) /\ Symbol.kind = "defined" /\ Symbol.binding = "Global"
  BY <1>1 DEF Base, CurOK, Conflict, Duplicate
<1>3. Strong(Symbol.name) # {}
  BY <1>1, MergedForIs DEF DupInv, Base
<1> QED BY <1>2, <1>3

LEMMA Inv_StrongReferencesResolved ==
  ASSUME EndInv
  PROVE  StrongReferencesResolved
<1>1. SUFFICES ASSUME pc = "done", link.enforce, NEW n \in Names \ {TlsGetAddr},
                      StronglyReferred(n)
               PROVE  IsDefined(table.res[n])
  BY DEF StrongReferencesResolved
<1>2. Demands(n) /\ n \notin GlobalUndefined(table)
  BY <1>1 DEF EndInv, Final
<1> QED BY <1>2 DEF Demands, GlobalUndefined

(* Everything about the table.                                             *)
TableInv == Base /\ RefInv /\ GroupInv /\ EndDropped /\ DupInv /\ EndInv

THEOREM TableInvariant == Spec => []TableInv
<1>1. Init => TableInv
  BY Base_Init, Ref_Init, Group_Init DEF TableInv, EndDropped, DupInv, EndInv, Init, Final
<1>2. TableInv /\ [Next]_rvars => TableInv'
  BY Base_Next, Ref_Next, Group_Next, Dropped_Next, Dup_Next, End_Next DEF TableInv
<1> QED BY <1>1, <1>2, PTL DEF Spec

(* In every order of objects and members the table is the reference        *)
(* resolution (merge_symbol, merge_common, conflict_action), its ids are a *)
(* bijection (mint), and it never leads into a COMDAT copy that was        *)
(* dropped (Resolver::resolve).                                            *)
THEOREM TableIsSound == Spec => []TableSound
<1>1. TableInv => TableSound
  BY Inv_TableIsReference, Inv_IdsBijective, Inv_OneCopyPerGroup DEF TableInv, Base, TableSound
<1> QED BY <1>1, TableInvariant, PTL

-----------------------------------------------------------------------------
(* The set that pull_lazy_members keeps up to date.                        *)
Hunting == pc \in {"startlib", "round", "scan", "pull"}

(* While a member is resolved the set is out of date, but only for names   *)
(* that will be looked up again.                                           *)
UndefInv ==
  Hunting =>
    /\ cur = None => lazy.undefined = GlobalUndefined(table)
    /\ cur # None =>
         /\ lazy.undefined \ cur.touched = GlobalUndefined(table) \ cur.touched
         /\ \A i \in DOMAIN Input.syms :
              Input.syms[i].binding # "Local" => Input.syms[i].name \in cur.touched

LEMMA UndefFrame ==
  ASSUME UndefInv, UNCHANGED <<table, objects, cur>>, lazy'.undefined = lazy.undefined,
         Hunting' => Hunting
  PROVE  UndefInv'
BY DEF UndefInv, Input

LEMMA Undef_Merge ==
  ASSUME Base, UndefInv, Merge
  PROVE  UndefInv'
<1> USE DEF Base
<1>1. /\ Resolving /\ cur' # None /\ cur'.oid = cur.oid /\ cur'.touched = cur.touched
      /\ UNCHANGED <<objects, lazy, pc>>
  <2>1. Resolving /\ cur \in Currents /\ cur' = [cur EXCEPT !.at = cur.at + 1]
    BY CurFacts DEF Merge, Unfinished
  <2>2. cur' \in Currents /\ cur'.oid = cur.oid /\ cur'.touched = cur.touched
    BY <2>1 DEF Currents
  <2> QED BY <2>1, <2>2, ResolveAssumption DEF Merge
<1>2. SUFFICES ASSUME Hunting
               PROVE  lazy.undefined \ cur.touched = GlobalUndefined(table') \ cur.touched
  BY <1>1 DEF UndefInv, Resolving, Hunting, Input, GlobalUndefined
<1>3. /\ lazy.undefined \ cur.touched = GlobalUndefined(table) \ cur.touched
      /\ \A i \in DOMAIN Input.syms :
           Input.syms[i].binding # "Local" => Input.syms[i].name \in cur.touched
  BY <1>1, <1>2 DEF UndefInv, Resolving
<1>4. CASE ~Kept(cur.oid, cur.at)
  BY <1>3, <1>4 DEF Merge
<1>5. CASE Kept(cur.oid, cur.at)
  <2>1. \A m \in Names : m # Symbol.name => table'.res[m] = table.res[m]
    BY <1>5, MergeStep
  <2>2. cur.at \in DOMAIN Input.syms /\ Symbol = Input.syms[cur.at] /\ Symbol.binding # "Local"
    BY <1>5 DEF Merge, Unfinished, Input, Symbol, Sym, Kept
  <2>3. Symbol.name \in cur.touched
    BY <1>3, <2>2
  <2>4. \A m \in Names : m \notin cur.touched => table'.res[m] = table.res[m]
    BY <2>1, <2>3
  <2>5. GlobalUndefined(table') \ cur.touched = GlobalUndefined(table) \ cur.touched
    BY <2>4 DEF GlobalUndefined
  <2> QED BY <1>3, <2>5
<1> QED BY <1>4, <1>5

LEMMA Undef_PullMember ==
  ASSUME Base, UndefInv, PullMember
  PROVE  UndefInv'
<1> USE DEF Base
<1>1. PICK obj : obj = lazy.members[lazy.at]
  OBVIOUS
<1>2. obj \in Inputs /\ cur = None /\ lazy.undefined = GlobalUndefined(table)
  BY <1>1, LazyFacts DEF PullMember, Wanted, Pulling, UndefInv, Hunting
<1>3. PICK touched : touched = MemberDefines(obj) \cup MemberRefers(obj)
  OBVIOUS
<1>4. touched \in SUBSET Names /\ Begin(obj, touched)
  BY <1>1, <1>2, <1>3, MentionFacts DEF PullMember
<1>5. /\ objects'[Len(objects) + 1] = obj /\ cur' # None
      /\ cur'.oid = Len(objects) /\ cur'.touched = touched
  BY <1>2, <1>4, BeginFacts
<1>6. Input' = obj
  BY <1>5 DEF Input
<1>7. lazy'.undefined = lazy.undefined /\ table' = table
  BY LazyFacts DEF PullMember
<1>8. \A i \in DOMAIN obj.syms : obj.syms[i].binding # "Local" => obj.syms[i].name \in touched
  BY <1>3 DEF MemberDefines, MemberRefers
<1> QED BY <1>2, <1>5, <1>6, <1>7, <1>8 DEF UndefInv

LEMMA Undef_Reconcile ==
  ASSUME Base, UndefInv, Reconcile
  PROVE  UndefInv'
<1>1. /\ Hunting /\ cur # None /\ cur' = None /\ table' = table
      /\ lazy'.undefined = StillUndefined
  BY LazyFacts DEF Base, Reconcile, Hunting, Finished, Resolving
<1>2. lazy.undefined \ cur.touched = GlobalUndefined(table) \ cur.touched
  BY <1>1 DEF UndefInv
<1>3. StillUndefined = GlobalUndefined(table)
  BY <1>2 DEF StillUndefined
<1> QED BY <1>1, <1>3 DEF UndefInv

LEMMA Undef_Next ==
  ASSUME Base, UndefInv, [Next]_rvars
  PROVE  UndefInv'
<1> USE DEF Base
<1>1. CASE Merge
  BY <1>1, Undef_Merge
<1>2. CASE RetryWithoutCrt \/ FailDuplicate
  BY <1>2 DEF RetryWithoutCrt, FailDuplicate, UndefInv, Hunting
<1>3. CASE ResolveNext \/ PassOver \/ Resolved \/ BareDone
  BY <1>3 DEF ResolveNext, PassOver, Resolved, BareDone, Idle, UndefInv, Hunting
<1>4. CASE WholeDone
  <2>1. cur' = None /\ table' = table /\ lazy'.undefined = GlobalUndefined(table)
    BY <1>4 DEF WholeDone, Idle, NoMembers
  <2> QED BY <2>1 DEF UndefInv
<1>5. CASE SkipMember
  <2>1. lazy'.undefined = lazy.undefined
    BY <1>5, LazyFacts DEF SkipMember
  <2> QED BY <1>5, <2>1, UndefFrame DEF SkipMember, Hunting
<1>6. CASE PullMember
  BY <1>6, Undef_PullMember
<1>7. CASE Reconcile
  BY <1>7, Undef_Reconcile
<1>8. CASE StartLibAgain
  <2>1. lazy'.undefined = lazy.undefined
    BY <1>8, LazyFacts DEF StartLibAgain
  <2> QED BY <1>8, <2>1, UndefFrame DEF StartLibAgain, Hunting
<1>9. CASE StartLibDone
  <2>1. cur' = None /\ table' = table /\ lazy'.undefined = GlobalUndefined(table)
    BY <1>9 DEF StartLibDone, AllTried, Pulling, NoMembers
  <2> QED BY <2>1 DEF UndefInv
<1>10. CASE Round
  BY <1>10, UndefFrame DEF Round, Hunting
<1>11. CASE SkipArchive
  BY <1>11, UndefFrame DEF SkipArchive, Hunting
<1>12. CASE ParseMatching
  <2>1. lazy'.undefined = lazy.undefined
    BY <1>12, LazyFacts DEF ParseMatching
  <2> QED BY <1>12, <2>1, UndefFrame DEF ParseMatching, Hunting
<1>13. CASE ParseAll
  <2>1. lazy'.undefined = lazy.undefined
    BY <1>13, LazyFacts DEF ParseAll
  <2> QED BY <1>13, <2>1, UndefFrame DEF ParseAll, Hunting
<1>14. CASE ScanDone
  <2>1. lazy'.undefined = lazy.undefined
    BY <1>14, LazyFacts DEF ScanDone
  <2> QED BY <1>14, <2>1, UndefFrame DEF ScanDone, Hunting
<1>15. CASE RoundDone
  BY <1>15, UndefFrame DEF RoundDone, Hunting
<1>16. CASE ArchivesDone \/ Register \/ LibraryDone \/ SharedDone
  BY <1>16 DEF ArchivesDone, Register, LibraryDone, SharedDone, Reading, UndefInv, Hunting
<1>17. CASE AssignWeakGotId \/ Predefine \/ Check
  BY <1>17 DEF AssignWeakGotId, Predefine, Check, UndefInv, Hunting
<1>18. CASE UNCHANGED rvars
  BY <1>18, UndefFrame DEF rvars, Hunting
<1> QED BY <1>1, <1>2, <1>3, <1>4, <1>5, <1>6, <1>7, <1>8, <1>9, <1>10, <1>11, <1>12, <1>13,
           <1>14, <1>15, <1>16, <1>17, <1>18 DEF Next

(* What is reported is what is wrong: a duplicate is two strong            *)
(* definitions (conflict_action), the set that pull_lazy_members keeps by  *)
(* hand is the set of open references, and a link that succeeds leaves     *)
(* none without a definition or an import (check_undefined).               *)
THEOREM ErrorsAreExact == Spec => []ErrorsExact
<1>1. Init => UndefInv
  BY DEF Init, UndefInv, Hunting
<1>2. TableInv /\ UndefInv /\ [Next]_rvars => UndefInv'
  BY Undef_Next DEF TableInv
<1>3. TableInv /\ UndefInv => ErrorsExact
  <2>1. UndefInv => UndefinedExact
    BY DEF UndefInv, Hunting, UndefinedExact
  <2> QED BY <2>1, Inv_NoFalseDuplicate, Inv_StrongReferencesResolved DEF TableInv, ErrorsExact
<1> QED BY <1>1, <1>2, <1>3, TableInvariant, PTL DEF Spec

-----------------------------------------------------------------------------
(* The loop over the shared libraries.                                     *)

Exported(k, i) == link.libs[k].exports[i]

(* The i-th export of the k-th library was looked at.                      *)
LookedAt(k, i) ==
  /\ k \in DOMAIN link.libs /\ i \in DOMAIN link.libs[k].exports
  /\ k < shared.lib \/ (k = shared.lib /\ i < shared.at)

Import(n) == table.res[n] # None /\ table.res[n].import

ExportedBefore(n, k) == \E j \in 1..(k - 1) : n \in ToSet(link.libs[j].exports)

(* The k-th library is the first to export an import, at i.                *)
ImportsAt(k, i) == Import(Exported(k, i)) /\ ~ExportedBefore(Exported(k, i), k)

Recorded(k) == ~link.libs[k].as_needed \/ Provides(k) # {}

(* An import was exported by a library that was looked at, and what such a *)
(* library exports is not open any more; so the first library with an      *)
(* export is the one that satisfied it.                                    *)
ImportsLooked ==
  \A n \in Names : Import(n) => \E k, i \in Nat : LookedAt(k, i) /\ Exported(k, i) = n

LookedSettled == \A k, i \in Nat : LookedAt(k, i) => ~Satisfies(table, Exported(k, i))

SatisfiedExact ==
  shared.satisfied <=> \E i \in Nat : LookedAt(shared.lib, i) /\ ImportsAt(shared.lib, i)

RecordedNow == {k \in DOMAIN link.libs : k < shared.lib /\ Recorded(k)}
NeededSoFar == shared.needed = {link.libs[k].soname : k \in RecordedNow}

LoopInv == ImportsLooked /\ LookedSettled /\ SatisfiedExact /\ NeededSoFar

NeededInv ==
  /\ pc \in Merging => shared = NoLibs
  /\ pc \in {"shared", "weakgot"} => LoopInv
  /\ pc = "weakgot" => shared.lib \notin DOMAIN link.libs

LEMMA ProvidesIs ==
  ASSUME TypeOK, NEW k \in DOMAIN link.libs
  PROVE  Provides(k) # {} <=> \E i \in DOMAIN link.libs[k].exports : ImportsAt(k, i)
BY DEF Provides, ImportsAt, Import, Exported, ExportedBefore, ToSet

LEMMA Needed_ArchivesDone ==
  ASSUME Base, NeededInv, ArchivesDone
  PROVE  NeededInv'
<1> USE DEF Base
<1>1. pc \in Merging /\ pc' = "shared" /\ shared' = NoLibs /\ table' = table /\ link' = link
  BY DEF ArchivesDone, NeededInv, Merging
<1>2. shared'.lib = 1 /\ shared'.at = 1 /\ shared'.satisfied = FALSE /\ shared'.needed = {}
  BY <1>1 DEF NoLibs
<1>3. \A n \in Names : ~Import(n)'
  BY <1>1 DEF Import, IdInv, MergedEntry
<1>4. \A k, i : ~LookedAt(k, i)'
  BY <1>1, <1>2, LibsFacts, LibFacts DEF LookedAt
<1>5. RecordedNow' = {}
  BY <1>1, <1>2, LibsFacts DEF RecordedNow
<1>6. LoopInv'
  BY <1>2, <1>3, <1>4, <1>5
     DEF LoopInv, ImportsLooked, LookedSettled, SatisfiedExact, NeededSoFar
<1> QED BY <1>1, <1>6 DEF NeededInv, Merging

(* What was recorded only depends on what is imported.                     *)
LEMMA RecordedFrame ==
  ASSUME TypeOK, UNCHANGED link, NEW k \in DOMAIN link.libs,
         \A i \in DOMAIN link.libs[k].exports : Import(Exported(k, i))' <=> Import(Exported(k, i))
  PROVE  Recorded(k)' <=> Recorded(k)
<1>1. Provides(k)' = Provides(k)
  <2>1. \A n \in ToSet(link.libs[k].exports) : Import(n)' <=> Import(n)
    BY DEF Exported, ToSet
  <2> QED BY <2>1 DEF Provides, Import
<1> QED BY <1>1 DEF Recorded

(* The positions from before are kept, and one is added.                   *)
LEMMA RegisterLooks ==
  ASSUME Base, Register
  PROVE  /\ shared'.lib = shared.lib /\ shared'.needed = shared.needed /\ link' = link
         /\ shared'.satisfied <=> shared.satisfied \/ Satisfies(table, Exports[shared.at])
         /\ Exports[shared.at] = Exported(shared.lib, shared.at)
         /\ \A k, i \in Nat :
              LookedAt(k, i)' <=> LookedAt(k, i) \/ (k = shared.lib /\ i = shared.at)
<1>1. /\ shared \in Loops /\ shared.lib \in Nat /\ shared.at \in Nat
      /\ shared.lib \in DOMAIN link.libs /\ shared.at \in DOMAIN Exports
  BY LoopFacts, RegisterFacts DEF Base, TypeOK
<1>2. /\ shared' = [shared EXCEPT !.at = shared.at + 1,
                                  !.satisfied = shared.satisfied \/ Satisfies(table, Exports[shared.at])]
      /\ link' = link
  BY DEF Register
<1>3. /\ shared'.lib = shared.lib /\ shared'.needed = shared.needed /\ shared'.at = shared.at + 1
      /\ shared'.satisfied <=> shared.satisfied \/ Satisfies(table, Exports[shared.at])
  BY <1>1, <1>2 DEF Loops
<1>4. \A k, i \in Nat :
        LookedAt(k, i)' <=> LookedAt(k, i) \/ (k = shared.lib /\ i = shared.at)
  BY <1>1, <1>2, <1>3 DEF LookedAt, Exports
<1> QED BY <1>2, <1>3, <1>4 DEF Exports, Exported

(* An export that satisfies nothing adds nothing.                          *)
LEMMA Loop_RegisterIdle ==
  ASSUME Base, LoopInv, Register, ~Satisfies(table, Exports[shared.at])
  PROVE  LoopInv'
<1> USE DEF Base, LoopInv
<1>1. PICK L, i0 \in Nat : L = shared.lib /\ i0 = shared.at
  BY LoopFacts
<1>2. /\ L \in DOMAIN link.libs /\ Exported(L, i0) \in Names
      /\ i0 \in DOMAIN link.libs[L].exports /\ ~Satisfies(table, Exported(L, i0))
  BY <1>1, RegisterFacts, RegisterLooks DEF Exports
<1>3. /\ table' = table /\ link' = link /\ shared'.lib = L /\ shared'.needed = shared.needed
      /\ shared'.satisfied <=> shared.satisfied
  BY <1>1, RegisterLooks DEF Register, RegisterExport
<1>4. \A k, i \in Nat : LookedAt(k, i)' <=> LookedAt(k, i) \/ (k = L /\ i = i0)
  BY <1>1, RegisterLooks
<1>5. ImportsLooked'
  BY <1>3, <1>4 DEF ImportsLooked, Import, Exported
<1>6. LookedSettled'
  BY <1>2, <1>3, <1>4 DEF LookedSettled, Exported
<1>7. \A k, i : ImportsAt(k, i)' <=> ImportsAt(k, i)
  BY <1>3 DEF ImportsAt, Import, Exported, ExportedBefore
<1>8. ImportsAt(L, i0) => \E i \in Nat : LookedAt(L, i) /\ ImportsAt(L, i)
  <2>1. SUFFICES ASSUME ImportsAt(L, i0)
                 PROVE  \E i \in Nat : LookedAt(L, i) /\ ImportsAt(L, i)
    OBVIOUS
  <2>2. PICK k, i \in Nat : LookedAt(k, i) /\ Exported(k, i) = Exported(L, i0)
    BY <2>1, <1>2 DEF ImportsLooked, ImportsAt
  <2>3. k \in DOMAIN link.libs /\ i \in DOMAIN link.libs[k].exports /\ (k < L \/ k = L)
    BY <2>2, <1>1 DEF LookedAt
  <2>4. ~(k < L)
    <3>1. SUFFICES ASSUME k < L PROVE FALSE
      OBVIOUS
    <3>2. k \in 1..(L - 1)
      BY <3>1, <2>3, <1>1, LibsFacts
    <3>3. Exported(L, i0) \in ToSet(link.libs[k].exports)
      BY <2>2, <2>3 DEF Exported, ToSet
    <3> QED BY <3>2, <3>3, <2>1 DEF ImportsAt, ExportedBefore
  <2> QED BY <2>1, <2>2, <2>3, <2>4 DEF ImportsAt
<1>9. SatisfiedExact'
  <2>1. shared.satisfied <=> \E i \in Nat : LookedAt(L, i) /\ ImportsAt(L, i)
    BY <1>1 DEF SatisfiedExact
  <2>2. shared'.satisfied <=> \E i \in Nat : LookedAt(L, i)' /\ ImportsAt(L, i)'
    BY <1>1, <1>3, <1>4, <1>7, <1>8, <2>1
  <2> QED BY <1>3, <2>2 DEF SatisfiedExact, LookedAt, ImportsAt, Exported, ExportedBefore, Import
<1>10. NeededSoFar'
  <2>1. RecordedNow' = RecordedNow
    BY <1>1, <1>3 DEF RecordedNow, Recorded, Provides
  <2> QED BY <1>3, <2>1 DEF NeededSoFar
<1> QED BY <1>5, <1>6, <1>9, <1>10

(* One that does is new: no export like it was looked at.                  *)
LEMMA Loop_RegisterHit ==
  ASSUME Base, LoopInv, Register, Satisfies(table, Exports[shared.at])
  PROVE  LoopInv'
<1> USE DEF Base, LoopInv
<1>1. PICK L, i0 \in Nat, n0 \in Names : L = shared.lib /\ i0 = shared.at /\ n0 = Exports[shared.at]
  BY LoopFacts, RegisterFacts
<1>2. /\ L \in DOMAIN link.libs /\ n0 = Exported(L, i0)
      /\ i0 \in DOMAIN link.libs[L].exports /\ Satisfies(table, n0)
  BY <1>1, RegisterFacts, RegisterLooks DEF Exports
<1>3. /\ link' = link /\ shared'.lib = L /\ shared'.needed = shared.needed /\ shared'.satisfied
      /\ \A k, i \in Nat : LookedAt(k, i)' <=> LookedAt(k, i) \/ (k = L /\ i = i0)
  BY <1>1, RegisterLooks
<1>4. /\ \A m \in Names : m # n0 => table'.res[m] = table.res[m]
      /\ table'.res[n0] # None /\ table'.res[n0].import
  BY <1>1, <1>2, RegisterFacts
<1>5. /\ Import(n0)' /\ ~Satisfies(table', n0)
      /\ \A m \in Names : m # n0 => /\ Import(m)' <=> Import(m)
                                    /\ Satisfies(table', m) <=> Satisfies(table, m)
  BY <1>4 DEF Import, Satisfies, IsDefined
<1>6. \A k, i \in Nat : LookedAt(k, i) => Exported(k, i) # n0 /\ Exported(k, i) \in Names
  BY <1>2, LibFacts DEF LookedSettled, LookedAt, Exported
<1>7. ImportsLooked'
  <2>1. SUFFICES ASSUME NEW n \in Names, Import(n)'
                 PROVE  \E k, i \in Nat : LookedAt(k, i)' /\ Exported(k, i) = n
    BY <1>3 DEF Exported, ImportsLooked
  <2>2. CASE n = n0
    BY <2>2, <1>2, <1>3
  <2>3. CASE n # n0
    <3>1. PICK k, i \in Nat : LookedAt(k, i) /\ Exported(k, i) = n
      BY <2>1, <2>3, <1>5 DEF ImportsLooked
    <3> QED BY <3>1, <1>3
  <2> QED BY <2>2, <2>3
<1>8. LookedSettled'
  <2>1. \A k, i \in Nat : LookedAt(k, i) => ~Satisfies(table', Exported(k, i))
    BY <1>5, <1>6 DEF LookedSettled
  <2> QED BY <2>1, <1>2, <1>3, <1>5 DEF LookedSettled, Exported
<1>9. ~ExportedBefore(n0, L)
  <2>1. SUFFICES ASSUME NEW j \in 1..(L - 1), n0 \in ToSet(link.libs[j].exports)
                 PROVE  FALSE
    BY DEF ExportedBefore
  <2>2. j \in DOMAIN link.libs /\ j \in Nat /\ j < L
    BY <1>2, LibsFacts
  <2>3. PICK i \in DOMAIN link.libs[j].exports : link.libs[j].exports[i] = n0
    BY <2>1 DEF ToSet
  <2>4. i \in Nat
    BY <2>2, LibFacts
  <2> QED BY <2>2, <2>3, <2>4, <1>1, <1>6 DEF LookedAt, Exported
<1>10. SatisfiedExact'
  <2>1. ImportsAt(L, i0)' /\ LookedAt(L, i0)'
    BY <1>2, <1>3, <1>5, <1>9 DEF ImportsAt, Exported, ExportedBefore, Import
  <2> QED BY <1>3, <2>1 DEF SatisfiedExact, LookedAt, ImportsAt, Exported, ExportedBefore, Import
<1>11. NeededSoFar'
  <2>1. \A k \in DOMAIN link.libs : k < L => (Recorded(k)' <=> Recorded(k))
    <3>1. SUFFICES ASSUME NEW k \in DOMAIN link.libs, k < L
                   PROVE  Recorded(k)' <=> Recorded(k)
      OBVIOUS
    <3>2. k \in Nat /\ \A i \in DOMAIN link.libs[k].exports : i \in Nat /\ LookedAt(k, i)
      BY <3>1, <1>1, LibsFacts, LibFacts DEF LookedAt
    <3>3. \A i \in DOMAIN link.libs[k].exports : Exported(k, i) # n0 /\ Exported(k, i) \in Names
      BY <3>2, <1>6
    <3>4. \A i \in DOMAIN link.libs[k].exports : Import(Exported(k, i))' <=> Import(Exported(k, i))
      BY <3>3, <1>3, <1>4 DEF Import, Exported
    <3> QED BY <3>4, <1>3, RecordedFrame
  <2>2. RecordedNow' = RecordedNow
    BY <2>1, <1>1, <1>3 DEF RecordedNow
  <2> QED BY <2>2, <1>3 DEF NeededSoFar
<1> QED BY <1>7, <1>8, <1>10, <1>11

(* The library that was gone through joins those that are recorded.        *)
LEMMA Loop_LibraryDone ==
  ASSUME Base, LoopInv, LibraryDone
  PROVE  LoopInv'
<1> USE DEF Base, LoopInv
<1>1. PICK L, i0 \in Nat \ {0} : L = shared.lib /\ i0 = shared.at
  BY LoopFacts
<1>2. L \in DOMAIN link.libs /\ i0 \notin DOMAIN link.libs[L].exports
  BY <1>1 DEF LibraryDone, Reading, Exports
<1>3. \A i \in DOMAIN link.libs[L].exports : i \in Nat /\ i < i0
  BY <1>2, LibFacts
<1>4. /\ link' = link /\ table' = table /\ shared'.lib = L + 1 /\ shared'.at = 1
      /\ ~shared'.satisfied
      /\ shared'.needed = shared.needed \cup (IF Needed(link.libs[L]) THEN {link.libs[L].soname} ELSE {})
  BY <1>1 DEF LibraryDone
<1>5. \A k, i \in Nat : LookedAt(k, i)' <=> LookedAt(k, i)
  <2>1. \A k, i \in Nat : k \in DOMAIN link.libs /\ i \in DOMAIN link.libs[k].exports => i >= 1
    BY LibFacts
  <2>2. SUFFICES ASSUME NEW k \in Nat, NEW i \in Nat, k \in DOMAIN link.libs,
                        i \in DOMAIN link.libs[k].exports
                 PROVE  k < L + 1 \/ (k = L + 1 /\ i < 1) <=> k < L \/ (k = L /\ i < i0)
    BY <1>1, <1>4 DEF LookedAt
  <2> QED BY <2>1, <2>2, <1>3
<1>6. ImportsLooked'
  BY <1>4, <1>5 DEF ImportsLooked, Import, Exported
<1>7. LookedSettled'
  BY <1>4, <1>5 DEF LookedSettled, Exported
<1>8. SatisfiedExact'
  <2>1. \A i \in Nat : ~LookedAt(shared.lib, i)'
    BY <1>4, LibFacts DEF LookedAt
  <2> QED BY <2>1, <1>4 DEF SatisfiedExact
<1>9. Needed(link.libs[L]) <=> Recorded(L)
  <2>1. shared.satisfied <=> \E i \in DOMAIN link.libs[L].exports : ImportsAt(L, i)
    BY <1>1, <1>2, <1>3 DEF SatisfiedExact, LookedAt
  <2> QED BY <2>1, <1>2, ProvidesIs DEF Needed, Recorded
<1>10. NeededSoFar'
  <2>1. RecordedNow' = RecordedNow \cup (IF Needed(link.libs[L]) THEN {L} ELSE {})
    <3>1. \A k : Recorded(k)' <=> Recorded(k)
      BY <1>4 DEF Recorded, Provides
    <3>2. \A k \in DOMAIN link.libs : k < L + 1 <=> k < L \/ k = L
      BY LibsFacts
    <3> QED BY <3>1, <3>2, <1>1, <1>2, <1>4, <1>9 DEF RecordedNow
  <2> QED BY <2>1, <1>4 DEF NeededSoFar
<1> QED BY <1>6, <1>7, <1>8, <1>10

(* An id for a weak reference changes no import.                           *)
LEMMA Loop_AssignWeakGotId ==
  ASSUME Base, LoopInv, AssignWeakGotId
  PROVE  LoopInv'
<1> USE DEF Base, LoopInv
<1>1. link' = link /\ shared' = shared
  BY DEF AssignWeakGotId
<1>2. \A n \in Names : /\ Import(n)' <=> Import(n)
                       /\ Satisfies(table', n) <=> Satisfies(table, n)
  BY WeakGotFacts DEF Import, Satisfies, IsDefined
<1>3. \A k, i \in Nat : /\ LookedAt(k, i)' <=> LookedAt(k, i)
                        /\ LookedAt(k, i) => Exported(k, i) \in Names
  BY <1>1, LibFacts DEF LookedAt, Exported
<1>4. ImportsLooked'
  BY <1>1, <1>2, <1>3 DEF ImportsLooked, Exported
<1>5. LookedSettled'
  BY <1>1, <1>2, <1>3 DEF LookedSettled, Exported
<1>6. \A k, i \in Nat : LookedAt(k, i) => (ImportsAt(k, i)' <=> ImportsAt(k, i))
  <2>1. SUFFICES ASSUME NEW k \in Nat, NEW i \in Nat, LookedAt(k, i)
                 PROVE  ImportsAt(k, i)' <=> ImportsAt(k, i)
    OBVIOUS
  <2>2. PICK n \in Names : n = Exported(k, i)
    BY <2>1, <1>3
  <2>3. Exported(k, i)' = n /\ (ExportedBefore(n, k)' <=> ExportedBefore(n, k))
    BY <2>2, <1>1 DEF Exported, ExportedBefore
  <2>4. Import(n)' <=> Import(n)
    BY <1>2
  <2> QED BY <2>2, <2>3, <2>4 DEF ImportsAt, Import, ExportedBefore
<1>7. SatisfiedExact'
  <2>1. PICK L \in Nat : L = shared.lib
    BY LoopFacts
  <2>2. shared'.satisfied <=> \E i \in Nat : LookedAt(L, i)' /\ ImportsAt(L, i)'
    BY <2>1, <1>1, <1>3, <1>6 DEF SatisfiedExact
  <2> QED BY <2>1, <2>2, <1>1
          DEF SatisfiedExact, LookedAt, ImportsAt, Exported, ExportedBefore, Import
<1>8. NeededSoFar'
  <2>1. \A k \in DOMAIN link.libs : Recorded(k)' <=> Recorded(k)
    <3>1. SUFFICES ASSUME NEW k \in DOMAIN link.libs
                   PROVE  Recorded(k)' <=> Recorded(k)
      OBVIOUS
    <3>2. \A n \in ToSet(link.libs[k].exports) : Import(n)' <=> Import(n)
      BY <1>2, LibFacts DEF ToSet
    <3>3. Provides(k)' = Provides(k)
      BY <3>2, <1>1 DEF Provides, Import
    <3> QED BY <3>3, <1>1 DEF Recorded
  <2>2. RecordedNow' = RecordedNow
    BY <2>1, <1>1 DEF RecordedNow
  <2> QED BY <2>2, <1>1 DEF NeededSoFar
<1> QED BY <1>4, <1>5, <1>7, <1>8

LEMMA LoopFrame ==
  ASSUME LoopInv, UNCHANGED <<link, table, shared>>
  PROVE  LoopInv'
BY DEF LoopInv, ImportsLooked, LookedSettled, SatisfiedExact, NeededSoFar, RecordedNow, LookedAt,
       Import, Exported, ImportsAt, ExportedBefore, Recorded, Provides

LEMMA Needed_Next ==
  ASSUME Base, NeededInv, [Next]_rvars
  PROVE  NeededInv'
<1> USE DEF Base
<1>1. CASE RetryWithoutCrt
  BY <1>1 DEF RetryWithoutCrt, NeededInv, Merging
<1>2. CASE \/ Merge \/ FailDuplicate \/ ResolveNext \/ PassOver \/ Resolved \/ BareDone
           \/ WholeDone \/ SkipMember \/ PullMember \/ Reconcile \/ StartLibAgain \/ StartLibDone
           \/ Round \/ SkipArchive \/ ParseMatching \/ ParseAll \/ ScanDone \/ RoundDone
  <2>1. pc \in Merging /\ pc' \in Merging /\ shared' = shared
    <3>1. CASE Merge \/ FailDuplicate
      <4>1. Resolving /\ shared' = shared /\ (pc' = pc \/ pc' = "duplicate")
        BY <3>1 DEF Merge, FailDuplicate, Unfinished
      <4> QED BY <4>1 DEF CurOK, Merging
    <3>2. CASE ResolveNext \/ PassOver \/ Resolved \/ BareDone \/ WholeDone
      BY <3>2 DEF ResolveNext, PassOver, Resolved, BareDone, WholeDone, Idle, Merging
    <3>3. CASE SkipMember \/ PullMember \/ Reconcile \/ StartLibAgain \/ StartLibDone
      BY <3>3 DEF SkipMember, PullMember, Reconcile, StartLibAgain, StartLibDone, AllTried,
                  Pulling, Merging
    <3>4. CASE Round \/ SkipArchive \/ ParseMatching \/ ParseAll \/ ScanDone \/ RoundDone
      BY <3>4 DEF Round, SkipArchive, ParseMatching, ParseAll, ScanDone, RoundDone, Merging
    <3> QED BY <1>2, <3>1, <3>2, <3>3, <3>4
  <2> QED BY <2>1 DEF NeededInv, Merging
<1>3. CASE ArchivesDone
  BY <1>3, Needed_ArchivesDone
<1>4. CASE Register
  <2>1. pc = "shared" /\ pc' = "shared"
    BY <1>4, RegisterFacts
  <2>2. LoopInv'
    BY <1>4, <2>1, Loop_RegisterIdle, Loop_RegisterHit DEF NeededInv
  <2> QED BY <2>1, <2>2 DEF NeededInv, Merging
<1>5. CASE LibraryDone
  <2>1. pc = "shared" /\ pc' = "shared"
    BY <1>5 DEF LibraryDone, Reading
  <2>2. LoopInv'
    BY <1>5, <2>1, Loop_LibraryDone DEF NeededInv
  <2> QED BY <2>1, <2>2 DEF NeededInv, Merging
<1>6. CASE SharedDone
  BY <1>6, LoopFrame DEF SharedDone, NeededInv, Merging
<1>7. CASE AssignWeakGotId
  <2>1. pc = "weakgot" /\ pc' = "weakgot" /\ UNCHANGED <<link, shared>>
    BY <1>7 DEF AssignWeakGotId
  <2>2. LoopInv'
    BY <1>7, <2>1, Loop_AssignWeakGotId DEF NeededInv
  <2> QED BY <2>1, <2>2 DEF NeededInv, Merging
<1>8. CASE Predefine \/ Check
  BY <1>8 DEF Predefine, Check, NeededInv, Merging
<1>9. CASE UNCHANGED rvars
  BY <1>9, LoopFrame DEF rvars, NeededInv
<1> QED BY <1>1, <1>2, <1>3, <1>4, <1>5, <1>6, <1>7, <1>8, <1>9 DEF Next

(* DT_NEEDED is exact (load_and_resolve's loop over the shared objects):   *)
(* the libraries that are not --as-needed, and those that are the first to *)
(* export an import.                                                       *)
THEOREM NeededIsExact == Spec => []NeededExact
<1>1. Init => NeededInv
  BY DEF Init, NeededInv, Merging
<1>2. Base /\ NeededInv /\ [Next]_rvars => NeededInv'
  BY Needed_Next
<1>3. Base /\ NeededInv => NeededExact
  <2>1. SUFFICES ASSUME Base, NeededInv, pc = "weakgot"
                 PROVE  shared.needed =
                          {link.libs[k].soname : k \in {k \in DOMAIN link.libs :
                             ~link.libs[k].as_needed \/ Provides(k) # {}}}
    BY DEF NeededExact
  <2>2. LoopInv /\ shared.lib \notin DOMAIN link.libs
    BY <2>1 DEF NeededInv
  <2>3. \A k \in DOMAIN link.libs : k < shared.lib
    BY <2>1, <2>2, LibsFacts, LoopFacts DEF Base
  <2>4. RecordedNow = {k \in DOMAIN link.libs : ~link.libs[k].as_needed \/ Provides(k) # {}}
    BY <2>3 DEF RecordedNow, Recorded
  <2> QED BY <2>2, <2>4 DEF LoopInv, NeededSoFar
<1> QED BY <1>1, <1>2, <1>3, BaseInvariant, PTL DEF Spec

-----------------------------------------------------------------------------
(* The rounds over the archives.                                           *)

LEMMA ListFacts ==
  ASSUME NEW S, NEW s \in Seq(S)
  PROVE  /\ ToSet(<<>>) = {}
         /\ s # <<>> => ToSet(s) = {Head(s)} \cup ToSet(Tail(s))
         /\ \A x \in S : ToSet(Append(s, x)) = ToSet(s) \cup {x}
         /\ \A t \in Seq(S) : ToSet(s \o t) = ToSet(s) \cup ToSet(t)
<1>1. s # <<>> => ToSet(s) = {Head(s)} \cup ToSet(Tail(s))
  <2>1. SUFFICES ASSUME s # <<>> PROVE ToSet(s) = {Head(s)} \cup ToSet(Tail(s))
    OBVIOUS
  <2>2. /\ Len(s) \in Nat \ {0} /\ Head(s) = s[1] /\ DOMAIN s = 1..Len(s)
        /\ DOMAIN Tail(s) = 1..(Len(s) - 1) /\ \A i \in 1..(Len(s) - 1) : Tail(s)[i] = s[i + 1]
    BY <2>1
  <2>3. ASSUME NEW i \in DOMAIN s PROVE s[i] \in {Head(s)} \cup ToSet(Tail(s))
    <3>1. CASE i = 1
      BY <2>2, <3>1
    <3>2. CASE i # 1
      <4>1. i - 1 \in DOMAIN Tail(s) /\ Tail(s)[i - 1] = s[i]
        BY <2>2, <3>2
      <4> QED BY <4>1 DEF ToSet
    <3> QED BY <3>1, <3>2
  <2>4. ASSUME NEW i \in DOMAIN Tail(s) PROVE Tail(s)[i] \in ToSet(s)
    <3>1. i + 1 \in DOMAIN s /\ Tail(s)[i] = s[i + 1]
      BY <2>2
    <3> QED BY <3>1 DEF ToSet
  <2>5. Head(s) \in ToSet(s)
    BY <2>2 DEF ToSet
  <2> QED BY <2>3, <2>4, <2>5 DEF ToSet
<1>2. ASSUME NEW x \in S PROVE ToSet(Append(s, x)) = ToSet(s) \cup {x}
  <2>1. /\ DOMAIN s = 1..Len(s) /\ DOMAIN Append(s, x) = 1..(Len(s) + 1) /\ Len(s) \in Nat
        /\ Append(s, x)[Len(s) + 1] = x /\ \A i \in 1..Len(s) : Append(s, x)[i] = s[i]
    OBVIOUS
  <2>2. \A i \in 1..(Len(s) + 1) : i \in 1..Len(s) \/ i = Len(s) + 1
    BY <2>1
  <2> QED BY <2>1, <2>2 DEF ToSet
<1>3. ASSUME NEW t \in Seq(S) PROVE ToSet(s \o t) = ToSet(s) \cup ToSet(t)
  <2>1. /\ DOMAIN s = 1..Len(s) /\ DOMAIN t = 1..Len(t) /\ Len(s) \in Nat /\ Len(t) \in Nat
        /\ DOMAIN (s \o t) = 1..(Len(s) + Len(t))
        /\ \A i \in 1..Len(s) : (s \o t)[i] = s[i]
        /\ \A i \in 1..Len(t) : (s \o t)[Len(s) + i] = t[i]
    OBVIOUS
  <2>2. ASSUME NEW i \in DOMAIN (s \o t) PROVE (s \o t)[i] \in ToSet(s) \cup ToSet(t)
    <3>1. CASE i <= Len(s)
      BY <2>1, <3>1 DEF ToSet
    <3>2. CASE i > Len(s)
      <4>1. i - Len(s) \in 1..Len(t) /\ i = Len(s) + (i - Len(s))
        BY <2>1, <3>2
      <4> QED BY <2>1, <4>1 DEF ToSet
    <3> QED BY <2>1, <3>1, <3>2
  <2>3. ASSUME NEW i \in DOMAIN s PROVE s[i] \in ToSet(s \o t)
    <3>1. i \in DOMAIN (s \o t)
      BY <2>1
    <3> QED BY <2>1, <3>1 DEF ToSet
  <2>4. ASSUME NEW i \in DOMAIN t PROVE t[i] \in ToSet(s \o t)
    <3>1. Len(s) + i \in DOMAIN (s \o t)
      BY <2>1
    <3> QED BY <2>1, <3>1 DEF ToSet
  <2> QED BY <2>2, <2>3, <2>4 DEF ToSet
<1>4. ToSet(<<>>) = {}
  BY DEF ToSet
<1> QED BY <1>1, <1>2, <1>3, <1>4

Archiving == pc \in {"round", "scan", "pull"}

(* A member that was collected waits in the list or was pulled.            *)
Have(m) == m \in ToSet(lazy.members) \cup ToSet(objects)
Full(a) == \A i \in DOMAIN a.members : a.members[i].parses => Have(a.members[i])

SeenHeld ==
  \A a \in Named : \A i \in DOMAIN a.members :
    <<a.name, i>> \in arch.seen /\ a.members[i].parses => Have(a.members[i])

Aside == ToSet(arch.skipped) \cup ToSet(arch.indexed)
Listed(a) == a \in ToSet(arch.pending) \/ (pc # "round" /\ a \in Aside)

(* Nothing is left to do: no member is wanted, and no archive has another. *)
Quiet ==
  /\ cur = None
  /\ \A m \in ToSet(lazy.members) : ~Wanted(m)
  /\ \A a \in Named : IF a.indexed THEN Matching(a) = {}
                                   ELSE Full(a) /\ a \notin ToSet(arch.pending)

(* An archive with more to give is looked at again, unless nothing is left *)
(* to do.                                                                  *)
Covered == Quiet \/ \A a \in Named : Listed(a) \/ (~a.indexed /\ Full(a))

(* Archives that were gone through have no match, until a member is        *)
(* pulled.                                                                 *)
AsideUnmatched ==
  pc \in {"scan", "pull"} =>
    \A a \in Aside : a # None =>
      a.indexed /\ (pc = "scan" \/ lazy.pulled = 0 => Matching(a) = {})

(* Members that were tried are not wanted, until one is pulled.            *)
Tried ==
  pc = "pull" =>
    /\ arch.pending = <<>>
    /\ lazy.pulled = 0 /\ cur = None =>
         \A j \in DOMAIN lazy.members : j < lazy.at => ~Wanted(lazy.members[j])

RoundInv == SeenHeld /\ Covered /\ AsideUnmatched /\ Tried
ArchInv == (Archiving => RoundInv) /\ ArchivesExhausted

LEMMA HaveFrame ==
  ASSUME TypeOK, link' = link, \A m \in Inputs : Have(m) => Have(m)'
  PROVE  /\ \A a \in Named : Full(a) => Full(a)'
         /\ SeenHeld /\ arch'.seen = arch.seen => SeenHeld'
<1>1. \A a \in Named : \A i \in DOMAIN a.members : Have(a.members[i]) => Have(a.members[i])'
  BY NamedFacts
<1> QED BY <1>1 DEF Full, SeenHeld, Named

LEMMA QuietFrame ==
  ASSUME TypeOK, Quiet, link' = link, \A m \in Inputs : Have(m) => Have(m)', cur' = None,
         ToSet(lazy'.members) = ToSet(lazy.members), lazy'.undefined = lazy.undefined,
         arch'.seen = arch.seen,
         \A a \in Named : a \in ToSet(arch'.pending) => a.indexed \/ a \in ToSet(arch.pending)
  PROVE  Quiet'
<1>1. \A a \in Named : Full(a) => Full(a)'
  BY HaveFrame
<1>2. \A a : Matching(a)' = Matching(a)
  BY DEF Matching
<1>3. \A m : Wanted(m)' <=> Wanted(m)
  BY DEF Wanted
<1>4. Named' = Named
  BY DEF Named
<1> QED BY <1>1, <1>2, <1>3, <1>4 DEF Quiet

LEMMA OnlyHas ==
  ASSUME NEW S, NEW s \in Seq(S), NEW T, NEW i \in DOMAIN s, i \in T
  PROVE  s[i] \in ToSet(Only(s, T))
BY OnlyFacts DEF ToSet

(* Dropping the archives that are named again drops none.                  *)
LEMMA UniqueHas ==
  ASSUME NEW S, NEW s \in Seq(S)
  PROVE  ToSet(s) \subseteq ToSet(Unique(s))
<1>1. SUFFICES ASSUME NEW k \in DOMAIN s
               PROVE  s[k] \in ToSet(Unique(s))
  BY DEF ToSet
<1>2. DOMAIN s = 1..Len(s) /\ Len(s) \in Nat
  OBVIOUS
<1>3. PICK j \in {i \in DOMAIN s : s[i] = s[k]} : \A y \in {i \in DOMAIN s : s[i] = s[k]} : ~(y < j)
  <2>1. {i \in DOMAIN s : s[i] = s[k]} \in SUBSET Nat
    BY <1>2
  <2>2. k \in {i \in DOMAIN s : s[i] = s[k]}
    BY <1>1
  <2> QED BY <2>1, <2>2, LeastNat
<1>4. j \in {i \in DOMAIN s : \A p \in 1..(i - 1) : s[p] # s[i]}
  BY <1>2, <1>3
<1>5. j \in DOMAIN Unique(s) /\ Unique(s)[j] = s[j]
  BY <1>3, <1>4, OnlyFacts DEF Unique
<1> QED BY <1>3, <1>5 DEF ToSet

LEMMA Arch_StartLibDone ==
  ASSUME Base, StartLibDone
  PROVE  RoundInv'
<1> USE DEF Base
<1>1. pc' = "round" /\ link' = link /\ arch'.seen = {} /\ arch'.pending = Unique(link.archives)
  BY DEF StartLibDone, NoArchives
<1>2. link.archives \in Seq(Named) /\ Named' = Named
  BY <1>1, LinkFacts DEF TypeOK, Named
<1>3. \A a \in Named : a \in ToSet(arch'.pending)
  BY <1>1, <1>2, UniqueHas DEF Named
<1> QED BY <1>1, <1>2, <1>3 DEF RoundInv, SeenHeld, Covered, Listed, AsideUnmatched, Tried

LEMMA Arch_Round ==
  ASSUME Base, RoundInv, Round
  PROVE  RoundInv'
<1> USE DEF Base, RoundInv
<1>1. /\ pc = "round" /\ pc' = "scan" /\ UNCHANGED <<link, objects, lazy, cur>>
      /\ arch'.seen = arch.seen /\ arch'.pending = arch.pending
      /\ arch'.skipped = <<>> /\ arch'.indexed = <<>>
  BY ArchFacts DEF Round
<1>2. /\ \A m : Have(m) <=> Have(m)'
      /\ Named' = Named /\ Aside' = {}
  BY <1>1 DEF Have, Aside, ToSet, Named
<1>3. SeenHeld' /\ \A a \in Named : Full(a) => Full(a)'
  BY <1>1, <1>2, HaveFrame
<1>4. Covered'
  <2>1. CASE Quiet
    <3>1. cur' = None
      BY <2>1, <1>1 DEF Quiet
    <3> QED BY <2>1, <3>1, <1>1, <1>2, QuietFrame DEF Covered
  <2>2. CASE \A a \in Named : Listed(a) \/ (~a.indexed /\ Full(a))
    BY <2>2, <1>1, <1>2, <1>3 DEF Covered, Listed
  <2> QED BY <2>1, <2>2 DEF Covered
<1>5. AsideUnmatched' /\ Tried'
  BY <1>1, <1>2 DEF AsideUnmatched, Tried
<1> QED BY <1>3, <1>4, <1>5

LEMMA Arch_SkipArchive ==
  ASSUME Base, RoundInv, SkipArchive
  PROVE  RoundInv'
<1> USE DEF Base, RoundInv
<1>1. PICK a0 : a0 = Head(arch.pending)
  OBVIOUS
<1>2. /\ pc = "scan" /\ pc' = "scan" /\ UNCHANGED <<link, objects, lazy, cur>>
      /\ arch.pending # <<>>
      /\ a0 # None => a0.indexed /\ Matching(a0) = {}
      /\ arch'.seen = arch.seen /\ arch'.pending = Tail(arch.pending)
      /\ arch'.skipped = Append(arch.skipped, a0) /\ arch'.indexed = arch.indexed
  BY <1>1, ArchFacts DEF SkipArchive
<1>3. /\ ToSet(arch.pending) = {a0} \cup ToSet(arch'.pending)
      /\ Aside' = Aside \cup {a0}
  <2>1. a0 \in Named \cup {None}
    BY <1>1, <1>2, ScanFacts
  <2> QED BY <2>1, <1>1, <1>2, ArchFacts, ListFacts DEF Aside
<1>4. /\ \A m : Have(m) <=> Have(m)'
      /\ Named' = Named /\ \A a : Matching(a)' = Matching(a)
  BY <1>2 DEF Have, Named, Matching
<1>5. SeenHeld' /\ \A a \in Named : Full(a) => Full(a)'
  BY <1>2, <1>4, HaveFrame
<1>6. Covered'
  <2>1. CASE Quiet
    <3>1. cur' = None
      BY <2>1, <1>2 DEF Quiet
    <3> QED BY <2>1, <3>1, <1>2, <1>3, <1>4, QuietFrame DEF Covered
  <2>2. CASE \A a \in Named : Listed(a) \/ (~a.indexed /\ Full(a))
    BY <2>2, <1>2, <1>3, <1>4, <1>5 DEF Covered, Listed
  <2> QED BY <2>1, <2>2 DEF Covered
<1>7. AsideUnmatched' /\ Tried'
  BY <1>2, <1>3, <1>4 DEF AsideUnmatched, Tried
<1> QED BY <1>5, <1>6, <1>7

LEMMA Arch_ParseMatching ==
  ASSUME Base, RoundInv, ParseMatching
  PROVE  RoundInv'
<1> USE DEF Base, RoundInv
<1>1. PICK a0, is, col : a0 = Head(arch.pending) /\ is = Matching(a0) /\ col = Collected(a0, is)
  OBVIOUS
<1>2. /\ pc = "scan" /\ pc' = "scan" /\ UNCHANGED <<link, objects, cur>>
      /\ arch.pending # <<>> /\ a0 # None /\ a0.indexed /\ is # {}
      /\ arch'.seen = arch.seen \cup {<<a0.name, i>> : i \in is}
      /\ arch'.pending = Tail(arch.pending)
      /\ arch'.skipped = arch.skipped /\ arch'.indexed = Append(arch.indexed, a0)
      /\ lazy'.members = lazy.members \o col /\ lazy'.undefined = lazy.undefined
      /\ lazy'.pulled = lazy.pulled
  BY <1>1, ArchFacts, LazyFacts DEF ParseMatching
<1>3. a0 \in Named
  BY <1>1, <1>2, ScanFacts
<1>4. /\ ToSet(arch.pending) = {a0} \cup ToSet(arch'.pending)
      /\ Aside' = Aside \cup {a0}
  BY <1>1, <1>2, <1>3, ArchFacts, ListFacts DEF Aside
<1>5. ToSet(lazy'.members) = ToSet(lazy.members) \cup ToSet(col)
  <2>1. col \in Seq(Inputs \cup {None}) /\ lazy.members \in Seq(Inputs \cup {None})
    BY <1>1, <1>3, CollectedFacts, LazyFacts
  <2> QED BY <2>1, <1>2, ListFacts
<1>6. /\ \A m : Have(m) => Have(m)'
      /\ Named' = Named
  BY <1>2, <1>5 DEF Have, Named
<1>7. \A a \in Named : Full(a) => Full(a)'
  BY <1>2, <1>6, HaveFrame
<1>8. SeenHeld'
  <2>1. SUFFICES ASSUME NEW a \in Named, NEW i \in DOMAIN a.members,
                        <<a.name, i>> \in arch'.seen, a.members[i].parses
                 PROVE  Have(a.members[i])'
    BY <1>6 DEF SeenHeld
  <2>2. CASE <<a.name, i>> \in arch.seen
    BY <2>1, <2>2, <1>6 DEF SeenHeld
  <2>3. CASE <<a.name, i>> \notin arch.seen
    <3>1. a.name = a0.name /\ i \in is
      BY <2>1, <2>3, <1>2
    <3>2. a = a0
      BY <3>1, <1>3, ResolveAssumption DEF Named, TypeOK
    <3>3. a0.members \in Seq(Inputs)
      BY <1>3, NamedFacts
    <3>4. PICK T : T = {k \in is : a0.members[k].parses}
      OBVIOUS
    <3>5. col = Only(a0.members, T) /\ i \in T /\ i \in DOMAIN a0.members
      BY <3>1, <3>2, <3>4, <2>1, <1>1 DEF Collected
    <3>6. a.members[i] \in ToSet(col)
      BY <3>2, <3>3, <3>5, OnlyHas
    <3> QED BY <3>6, <1>5 DEF Have
  <2> QED BY <2>2, <2>3
<1>9. Covered'
  <2>1. ~Quiet
    BY <1>1, <1>2, <1>3 DEF Quiet
  <2> QED BY <2>1, <1>2, <1>4, <1>6, <1>7 DEF Covered, Listed
<1>10. AsideUnmatched' /\ Tried'
  <2>1. \A a : Matching(a)' \subseteq Matching(a)
    BY <1>2 DEF Matching
  <2>2. Matching(a0)' = {}
    BY <1>1, <1>2 DEF Matching
  <2> QED BY <2>1, <2>2, <1>2, <1>4 DEF AsideUnmatched, Tried
<1> QED BY <1>8, <1>9, <1>10

LEMMA Arch_ParseAll ==
  ASSUME Base, RoundInv, ParseAll
  PROVE  RoundInv'
<1> USE DEF Base, RoundInv
<1>1. PICK a0, col : a0 = Head(arch.pending) /\ col = Parsable(a0.members)
  OBVIOUS
<1>2. /\ pc = "scan" /\ pc' = "scan" /\ UNCHANGED <<link, objects, cur>>
      /\ arch.pending # <<>> /\ a0 # None /\ ~a0.indexed
      /\ arch'.seen = arch.seen /\ arch'.pending = Tail(arch.pending)
      /\ arch'.skipped = arch.skipped /\ arch'.indexed = arch.indexed
      /\ lazy'.members = lazy.members \o col /\ lazy'.undefined = lazy.undefined
      /\ lazy'.pulled = lazy.pulled
  BY <1>1, ArchFacts, LazyFacts DEF ParseAll
<1>3. a0 \in Named
  BY <1>1, <1>2, ScanFacts
<1>4. /\ ToSet(arch.pending) = {a0} \cup ToSet(arch'.pending)
      /\ Aside' = Aside
  BY <1>1, <1>2, <1>3, ArchFacts, ListFacts DEF Aside
<1>5. ToSet(lazy'.members) = ToSet(lazy.members) \cup ToSet(col)
  <2>1. col \in Seq(Inputs \cup {None}) /\ lazy.members \in Seq(Inputs \cup {None})
    BY <1>1, <1>3, CollectedFacts, LazyFacts
  <2> QED BY <2>1, <1>2, ListFacts
<1>6. /\ \A m : Have(m) => Have(m)'
      /\ Named' = Named
  BY <1>2, <1>5 DEF Have, Named
<1>7. SeenHeld' /\ \A a \in Named : Full(a) => Full(a)'
  BY <1>2, <1>6, HaveFrame
<1>8. Full(a0)'
  <2>1. SUFFICES ASSUME NEW i \in DOMAIN a0.members, a0.members[i].parses
                 PROVE  Have(a0.members[i])'
    BY DEF Full
  <2>2. a0.members \in Seq(Inputs)
    BY <1>3, NamedFacts
  <2>3. PICK T : T = {k \in DOMAIN a0.members : a0.members[k].parses}
    OBVIOUS
  <2>4. col = Only(a0.members, T) /\ i \in T
    BY <2>1, <2>3, <1>1 DEF Parsable
  <2>5. a0.members[i] \in ToSet(col)
    BY <2>2, <2>4, OnlyHas
  <2> QED BY <2>5, <1>5 DEF Have
<1>9. Covered'
  <2>1. ~Quiet
    BY <1>2, <1>3, <1>4 DEF Quiet
  <2> QED BY <2>1, <1>2, <1>4, <1>6, <1>7, <1>8 DEF Covered, Listed
<1>10. AsideUnmatched' /\ Tried'
  <2>1. \A a : Matching(a)' = Matching(a)
    BY <1>2 DEF Matching
  <2> QED BY <2>1, <1>2, <1>4 DEF AsideUnmatched, Tried
<1> QED BY <1>7, <1>9, <1>10

LEMMA Arch_ScanDone ==
  ASSUME Base, RoundInv, ScanDone
  PROVE  RoundInv'
<1> USE DEF Base, RoundInv
<1>1. /\ pc = "scan" /\ pc' = "pull" /\ UNCHANGED <<link, objects, arch, cur>>
      /\ arch.pending = <<>>
      /\ lazy'.members = lazy.members /\ lazy'.undefined = lazy.undefined
      /\ lazy'.at = 1 /\ lazy'.pulled = 0
  BY LazyFacts DEF ScanDone
<1>2. /\ \A m : Have(m) <=> Have(m)'
      /\ Named' = Named /\ Aside' = Aside /\ \A a : Matching(a)' = Matching(a)
  BY <1>1 DEF Have, Named, Matching, Aside
<1>3. SeenHeld' /\ \A a \in Named : Full(a) => Full(a)'
  BY <1>1, <1>2, HaveFrame
<1>4. Covered'
  <2>1. CASE Quiet
    <3>1. cur' = None
      BY <2>1, <1>1 DEF Quiet
    <3> QED BY <2>1, <3>1, <1>1, <1>2, QuietFrame DEF Covered
  <2>2. CASE \A a \in Named : Listed(a) \/ (~a.indexed /\ Full(a))
    BY <2>2, <1>1, <1>2, <1>3 DEF Covered, Listed
  <2> QED BY <2>1, <2>2 DEF Covered
<1>5. AsideUnmatched'
  BY <1>1, <1>2 DEF AsideUnmatched
<1>6. Tried'
  <2>1. \A j \in DOMAIN lazy.members : ~(j < 1)
    BY LazyFacts
  <2> QED BY <2>1, <1>1 DEF Tried
<1> QED BY <1>3, <1>4, <1>5, <1>6

LEMMA Arch_SkipMember ==
  ASSUME Base, RoundInv, SkipMember, pc = "pull"
  PROVE  RoundInv'
<1> USE DEF Base, RoundInv
<1>1. /\ pc' = "pull" /\ UNCHANGED <<link, objects, arch, cur>> /\ cur = None
      /\ lazy'.members = lazy.members /\ lazy'.undefined = lazy.undefined
      /\ lazy'.at = lazy.at + 1 /\ lazy'.pulled = lazy.pulled
      /\ ~Wanted(lazy.members[lazy.at])
  BY LazyFacts DEF SkipMember, Pulling
<1>2. /\ \A m : Have(m) <=> Have(m)'
      /\ Named' = Named /\ Aside' = Aside /\ \A a : Matching(a)' = Matching(a)
      /\ \A m : Wanted(m)' <=> Wanted(m)
  BY <1>1 DEF Have, Named, Matching, Aside, Wanted
<1>3. SeenHeld' /\ \A a \in Named : Full(a) => Full(a)'
  BY <1>1, <1>2, HaveFrame
<1>4. Covered'
  <2>1. CASE Quiet
    BY <2>1, <1>1, <1>2, QuietFrame DEF Covered
  <2>2. CASE \A a \in Named : Listed(a) \/ (~a.indexed /\ Full(a))
    BY <2>2, <1>1, <1>2, <1>3 DEF Covered, Listed
  <2> QED BY <2>1, <2>2 DEF Covered
<1>5. AsideUnmatched'
  BY <1>1, <1>2 DEF AsideUnmatched
<1>6. Tried'
  <2>1. \A j \in DOMAIN lazy.members : j < lazy.at + 1 => j < lazy.at \/ j = lazy.at
    BY LazyFacts
  <2> QED BY <2>1, <1>1, <1>2 DEF Tried
<1> QED BY <1>3, <1>4, <1>5, <1>6

(* A member that is pulled moves from the list to the objects.             *)
LEMMA Arch_PullMember ==
  ASSUME Base, RoundInv, PullMember, pc = "pull"
  PROVE  RoundInv'
<1> USE DEF Base, RoundInv
<1>1. PICK obj, k : k = lazy.at /\ obj = lazy.members[k]
  OBVIOUS
<1>2. /\ pc' = "pull" /\ UNCHANGED <<link, arch>>
      /\ k \in DOMAIN lazy.members /\ Wanted(obj) /\ obj \in Inputs
      /\ lazy'.members = [lazy.members EXCEPT ![k] = None] /\ lazy'.undefined = lazy.undefined
      /\ lazy'.pulled = lazy.pulled
  BY <1>1, LazyFacts DEF PullMember, Wanted
<1>3. objects' = Append(objects, obj) /\ cur' # None
  <2>1. PICK touched : touched = MemberDefines(obj) \cup MemberRefers(obj)
    OBVIOUS
  <2>2. touched \in SUBSET Names /\ Begin(obj, touched)
    BY <1>1, <1>2, <2>1, MentionFacts DEF PullMember
  <2> QED BY <1>2, <2>2, BeginFacts DEF Begin
<1>4. /\ \A m \in Inputs : Have(m) => Have(m)'
      /\ Named' = Named /\ Aside' = Aside /\ \A a : Matching(a)' = Matching(a)
  <2>1. ToSet(objects') = ToSet(objects) \cup {obj}
    BY <1>2, <1>3, ListFacts DEF TypeOK
  <2>2. \A m \in ToSet(lazy.members) : m = obj \/ m \in ToSet(lazy'.members)
    BY <1>1, <1>2 DEF ToSet
  <2> QED BY <2>1, <2>2, <1>2 DEF Have, Named, Matching, Aside
<1>5. SeenHeld' /\ \A a \in Named : Full(a) => Full(a)'
  BY <1>2, <1>4, HaveFrame
<1>6. Covered'
  <2>1. ~Quiet
    BY <1>1, <1>2 DEF Quiet, ToSet
  <2> QED BY <2>1, <1>2, <1>4, <1>5 DEF Covered, Listed
<1>7. AsideUnmatched' /\ Tried'
  BY <1>2, <1>3, <1>4 DEF AsideUnmatched, Tried
<1> QED BY <1>5, <1>6, <1>7

(* While a member is resolved, and when it was.                            *)
LEMMA Arch_Inside ==
  ASSUME Base, RoundInv, Merge \/ Reconcile, pc = "pull"
  PROVE  RoundInv'
<1> USE DEF Base, RoundInv
<1>1. /\ cur # None /\ pc' = "pull" /\ UNCHANGED <<link, objects, arch>>
      /\ lazy'.members = lazy.members
      /\ (cur' # None /\ lazy' = lazy) \/ (lazy'.pulled # 0)
  <2>1. CASE Merge
    <3>1. Resolving /\ cur \in Currents /\ cur' = [cur EXCEPT !.at = cur.at + 1]
      BY <2>1, CurFacts DEF Merge, Unfinished
    <3>2. cur' \in Currents
      BY <3>1 DEF Currents
    <3> QED BY <2>1, <3>1, <3>2, ResolveAssumption DEF Merge, Resolving
  <2>2. CASE Reconcile
    BY <2>2, LazyFacts DEF Reconcile, Finished, Resolving
  <2> QED BY <2>1, <2>2
<1>2. /\ \A m : Have(m) <=> Have(m)'
      /\ Named' = Named /\ Aside' = Aside
  BY <1>1 DEF Have, Named, Aside
<1>3. SeenHeld' /\ \A a \in Named : Full(a) => Full(a)'
  BY <1>1, <1>2, HaveFrame
<1>4. Covered'
  <2>1. ~Quiet
    BY <1>1 DEF Quiet
  <2> QED BY <2>1, <1>1, <1>2, <1>3 DEF Covered, Listed
<1>5. AsideUnmatched'
  <2>1. lazy' = lazy => \A a : Matching(a)' = Matching(a)
    BY <1>1 DEF Matching
  <2> QED BY <2>1, <1>1, <1>2 DEF AsideUnmatched
<1>6. Tried'
  BY <1>1 DEF Tried
<1> QED BY <1>3, <1>4, <1>5, <1>6

(* A round in which nothing is pulled leaves nothing to do.                *)
LEMMA QuietRound ==
  ASSUME Base, RoundInv, RoundDone, lazy.pulled = 0
  PROVE  Quiet
<1> USE DEF Base, RoundInv
<1>1. cur = None /\ pc = "pull" /\ arch.pending = <<>> /\ lazy.at > Len(lazy.members)
  BY DEF RoundDone, AllTried, Pulling, Tried
<1>2. \A m \in ToSet(lazy.members) : ~Wanted(m)
  <2>1. \A j \in DOMAIN lazy.members : j < lazy.at
    BY <1>1, LazyFacts
  <2> QED BY <2>1, <1>1 DEF Tried, ToSet
<1>3. ToSet(arch.pending) = {}
  BY <1>1 DEF ToSet
<1>4. CASE Quiet
  BY <1>4
<1>5. CASE \A a \in Named : Listed(a) \/ (~a.indexed /\ Full(a))
  <2>1. \A a \in Named : a \in Aside => a.indexed /\ Matching(a) = {}
    BY <1>1, NamedFacts DEF AsideUnmatched
  <2>2. \A a \in Named : IF a.indexed THEN Matching(a) = {}
                                      ELSE Full(a) /\ a \notin ToSet(arch.pending)
    BY <1>3, <1>5, <2>1 DEF Listed
  <2> QED BY <1>1, <1>2, <2>2 DEF Quiet
<1> QED BY <1>4, <1>5 DEF Covered

(* Then every member that could help was taken in.                         *)
LEMMA QuietExhausts ==
  ASSUME Base, SeenHeld, Quiet, lazy.undefined = GlobalUndefined(table),
         NEW k \in DOMAIN link.archives, NEW i \in DOMAIN link.archives[k].members,
         link.archives[k].members[i].parses,
         MemberDefines(link.archives[k].members[i]) \cap GlobalUndefined(table) # {}
  PROVE  link.archives[k].members[i] \in ToSet(objects)
<1> USE DEF Base
<1>1. PICK a \in Named : a = link.archives[k]
  BY DEF Named, ToSet
<1>2. PICK m : m = a.members[i]
  OBVIOUS
<1>3. m \in Inputs /\ m # None /\ a.indexed \in BOOLEAN
  BY <1>1, <1>2, NamedFacts, InputFacts
<1>4. Wanted(m)
  BY <1>1, <1>2, <1>3 DEF Wanted
<1>5. Have(m)
  <2>1. CASE a.indexed
    <3>1. Matching(a) = {}
      BY <2>1 DEF Quiet
    <3>2. <<a.name, i>> \in arch.seen
      BY <3>1, <1>1, <1>2 DEF Matching
    <3> QED BY <3>2, <1>1, <1>2 DEF SeenHeld
  <2>2. CASE ~a.indexed
    BY <2>2, <1>1, <1>2 DEF Quiet, Full
  <2> QED BY <2>1, <2>2
<1>6. m \notin ToSet(lazy.members)
  BY <1>4 DEF Quiet
<1> QED BY <1>1, <1>2, <1>5, <1>6 DEF Have

LEMMA Arch_RoundDone ==
  ASSUME Base, RoundInv, UndefInv, RoundDone
  PROVE  (Archiving' => RoundInv') /\ ArchivesExhausted'
<1> USE DEF Base, RoundInv
<1>1. /\ pc = "pull" /\ cur = None /\ UNCHANGED <<link, objects, table, lazy, cur>>
      /\ pc' = IF NoProgress THEN "archived" ELSE "round"
      /\ arch'.pending = NextPending /\ arch'.seen = arch.seen /\ arch.pending = <<>>
  BY ArchFacts DEF RoundDone, AllTried, Pulling, Tried
<1>2. /\ ToSet(NextPending) \subseteq Aside
      /\ lazy.pulled # 0 => ToSet(NextPending) = Aside
  <2>1. /\ arch.skipped \in Seq(Named \cup {None}) /\ arch.indexed \in Seq(Named \cup {None})
        /\ <<>> \in Seq(Named \cup {None}) /\ lazy.pulled \in Nat
    BY ArchFacts, LazyFacts
  <2>2. CASE lazy.pulled # 0
    <3>1. NextPending = arch.skipped \o arch.indexed
      <4>1. lazy.pulled > 0
        BY <2>1, <2>2
      <4> QED BY <4>1 DEF NextPending
    <3> QED BY <3>1, <2>1, ListFacts DEF Aside
  <2>3. CASE lazy.pulled = 0
    <3>1. NextPending = arch.skipped \o <<>>
      BY <2>1, <2>3 DEF NextPending
    <3> QED BY <3>1, <2>1, <2>3, ListFacts DEF Aside
  <2> QED BY <2>2, <2>3
<1>3. \A a \in Named : a \in ToSet(arch'.pending) => a.indexed
  BY <1>1, <1>2, NamedFacts DEF AsideUnmatched
<1>4. \A m : Have(m) <=> Have(m)'
  BY <1>1 DEF Have
<1>5. SeenHeld' /\ (\A a \in Named : Full(a) => Full(a)') /\ Named' = Named
  BY <1>1, <1>4, HaveFrame DEF Named
<1>6. Quiet => Quiet'
  BY <1>1, <1>3, <1>4, QuietFrame
<1>7. Archiving' => RoundInv'
  <2>1. SUFFICES ASSUME pc' = "round" PROVE RoundInv'
    BY <1>1 DEF Archiving
  <2>2. Covered'
    <3>1. CASE Quiet
      BY <3>1, <1>6 DEF Covered
    <3>2. CASE ~Quiet
      <4>1. lazy.pulled # 0
        BY <3>2, QuietRound
      <4>2. ToSet(arch.pending) = {} /\ ToSet(arch'.pending) = Aside
        BY <4>1, <1>1, <1>2 DEF ToSet
      <4> QED BY <3>2, <4>2, <1>5 DEF Covered, Listed
    <3> QED BY <3>1, <3>2
  <2> QED BY <2>1, <2>2, <1>5 DEF AsideUnmatched, Tried
<1>8. ArchivesExhausted'
  <2>1. SUFFICES ASSUME pc' = "archived" PROVE ArchivesExhausted'
    BY <1>1 DEF ArchivesExhausted
  <2>2. lazy.pulled = 0
    BY <2>1, <1>1 DEF NoProgress
  <2>3. Quiet /\ lazy.undefined = GlobalUndefined(table)
    BY <1>1, <2>2, QuietRound DEF UndefInv, Hunting
  <2> QED BY <2>3, <1>1, QuietExhausts DEF ArchivesExhausted
<1> QED BY <1>7, <1>8

(* Libraries and ids close references and open none.                       *)
LEMMA ExhaustedFrame ==
  ASSUME ArchivesExhausted, pc \in {"archived", "shared", "weakgot"}, UNCHANGED <<link, objects>>,
         GlobalUndefined(table') \subseteq GlobalUndefined(table)
  PROVE  ArchivesExhausted'
<1>1. SUFFICES ASSUME NEW k \in DOMAIN link.archives, NEW i \in DOMAIN link.archives[k].members,
                      link.archives[k].members[i].parses,
                      MemberDefines(link.archives[k].members[i]) \cap GlobalUndefined(table') # {}
               PROVE  link.archives[k].members[i] \in ToSet(objects)
  BY DEF ArchivesExhausted
<1>2. MemberDefines(link.archives[k].members[i]) \cap GlobalUndefined(table) # {}
  BY <1>1
<1> QED BY <1>1, <1>2 DEF ArchivesExhausted

LEMMA Arch_Next ==
  ASSUME Base, UndefInv, ArchInv, [Next]_rvars
  PROVE  ArchInv'
<1> USE DEF Base, ArchInv
<1>1. CASE RetryWithoutCrt \/ FailDuplicate
  BY <1>1 DEF RetryWithoutCrt, FailDuplicate, Archiving, ArchivesExhausted
<1>2. CASE ResolveNext \/ PassOver \/ Resolved \/ BareDone \/ WholeDone
  BY <1>2 DEF ResolveNext, PassOver, Resolved, BareDone, WholeDone, Idle, Archiving,
              ArchivesExhausted
<1>3. CASE StartLibAgain
  BY <1>3 DEF StartLibAgain, Archiving, ArchivesExhausted
<1>4. CASE StartLibDone
  BY <1>4, Arch_StartLibDone DEF StartLibDone, ArchivesExhausted
<1>5. CASE Merge \/ Reconcile
  <2>1. pc' = pc /\ Resolving
    BY <1>5 DEF Merge, Reconcile, Unfinished, Finished
  <2>2. pc # "archived" /\ pc # "shared" /\ pc # "weakgot" /\ pc # "round" /\ pc # "scan"
    BY <2>1 DEF CurOK
  <2> QED BY <1>5, <2>1, <2>2, Arch_Inside DEF Archiving, ArchivesExhausted
<1>6. CASE SkipMember
  <2>1. pc' = pc /\ pc \in {"startlib", "pull"}
    BY <1>6 DEF SkipMember, Pulling
  <2> QED BY <1>6, <2>1, Arch_SkipMember DEF Archiving, ArchivesExhausted
<1>7. CASE PullMember
  <2>1. pc' = pc /\ pc \in {"startlib", "pull"}
    BY <1>7 DEF PullMember, Pulling
  <2> QED BY <1>7, <2>1, Arch_PullMember DEF Archiving, ArchivesExhausted
<1>8. CASE Round
  BY <1>8, Arch_Round DEF Round, Archiving, ArchivesExhausted
<1>9. CASE SkipArchive \/ ParseMatching \/ ParseAll
  <2>1. pc = "scan" /\ pc' = "scan"
    BY <1>9 DEF SkipArchive, ParseMatching, ParseAll
  <2> QED BY <1>9, <2>1, Arch_SkipArchive, Arch_ParseMatching, Arch_ParseAll
          DEF Archiving, ArchivesExhausted
<1>10. CASE ScanDone
  BY <1>10, Arch_ScanDone DEF ScanDone, Archiving, ArchivesExhausted
<1>11. CASE RoundDone
  BY <1>11, Arch_RoundDone DEF RoundDone, Archiving
<1>12. CASE ArchivesDone
  <2>1. pc' = "shared" /\ UNCHANGED <<link, objects, table>>
    BY <1>12 DEF ArchivesDone
  <2>2. CASE pc = "archived"
    BY <2>1, <2>2, ExhaustedFrame DEF Archiving
  <2>3. CASE pc = "round" /\ lazy.undefined = {}
    <3>1. cur = None
      BY <2>3 DEF CurOK, Resolving
    <3>2. GlobalUndefined(table) = {}
      BY <2>3, <3>1 DEF UndefInv, Hunting
    <3> QED BY <2>1, <3>2 DEF Archiving, ArchivesExhausted
  <2> QED BY <1>12, <2>2, <2>3 DEF ArchivesDone
<1>13. CASE Register
  <2>1. pc = "shared" /\ pc' = "shared" /\ UNCHANGED <<link, objects>>
    BY <1>13, RegisterFacts DEF Register
  <2>2. GlobalUndefined(table') \subseteq GlobalUndefined(table)
    BY <1>13, RegisterFacts DEF GlobalUndefined, IsDefined
  <2> QED BY <2>1, <2>2, ExhaustedFrame DEF Archiving
<1>14. CASE LibraryDone \/ SharedDone
  <2>1. pc = "shared" /\ pc' \in {"shared", "weakgot"} /\ UNCHANGED <<link, objects, table>>
    BY <1>14 DEF LibraryDone, SharedDone, Reading
  <2> QED BY <2>1, ExhaustedFrame DEF Archiving
<1>15. CASE AssignWeakGotId
  <2>1. pc = "weakgot" /\ pc' = "weakgot" /\ UNCHANGED <<link, objects>>
    BY <1>15 DEF AssignWeakGotId
  <2>2. GlobalUndefined(table') \subseteq GlobalUndefined(table)
    BY <1>15, WeakGotFacts DEF GlobalUndefined, IsDefined
  <2> QED BY <2>1, <2>2, ExhaustedFrame DEF Archiving
<1>16. CASE Predefine \/ Check
  BY <1>16 DEF Predefine, Check, Archiving, ArchivesExhausted
<1>17. CASE UNCHANGED rvars
  <2>1. Archiving' <=> Archiving
    BY <1>17 DEF rvars, Archiving
  <2>2. RoundInv => RoundInv'
    BY <1>17 DEF rvars, RoundInv, SeenHeld, Covered, AsideUnmatched, Tried, Have, Full, Aside,
                 Listed, Quiet, Named, Wanted, Matching
  <2>3. ArchivesExhausted'
    BY <1>17 DEF rvars, ArchivesExhausted
  <2> QED BY <2>1, <2>2, <2>3
<1> QED BY <1>1, <1>2, <1>3, <1>4, <1>5, <1>6, <1>7, <1>8, <1>9, <1>10, <1>11, <1>12, <1>13,
           <1>14, <1>15, <1>16, <1>17 DEF Next

(* The fixpoint of include_archive_members, for any archives in any order: *)
(* a round in which nothing is pulled is the last, and leaves no member    *)
(* out that defines a symbol still open.  Rounds look again at every       *)
(* archive with an index as long as members are pulled, keep what they     *)
(* read of it, and read the others once.                                   *)
THEOREM ArchivesAreExhausted == Spec => []ArchivesExhausted
<1>1. Init => UndefInv /\ ArchInv
  BY DEF Init, UndefInv, Hunting, ArchInv, Archiving, ArchivesExhausted
<1>2. Base /\ UndefInv /\ ArchInv /\ [Next]_rvars => UndefInv' /\ ArchInv'
  BY Undef_Next, Arch_Next
<1>3. ArchInv => ArchivesExhausted
  BY DEF ArchInv
<1> QED BY <1>1, <1>2, <1>3, BaseInvariant, PTL DEF Spec
=============================================================================
