-------------------------- MODULE InputFilesProofs --------------------------
(***************************************************************************)
(* The key of the cache stands for the command line: reading the arguments *)
(* and reading those that cache_key_args keeps go in step, argument by     *)
(* argument.                                                               *)
(***************************************************************************)
EXTENDS InputFiles, WellFoundedInduction, TLAPS

(* Every set of naturals that is not empty has a least member.             *)
LEMMA LeastNat ==
  ASSUME NEW S \in SUBSET Nat, S # {}
  PROVE  \E n \in S : \A m \in S : n <= m
<1>1. \E n \in S : \A m \in S : ~(<<m, n>> \in OpToRel(<, Nat))
  BY NatLessThanWellFounded, WFMin
<1>2. \E n \in S : \A m \in S : ~(m < n)
  BY <1>1 DEF OpToRel
<1> QED BY <1>2

(* A computation that takes one step after another has a result: the       *)
(* function that the definitions of the parser and of the key choose       *)
(* exists.                                                                 *)
Closed(N, S, step) == \A n \in 1..N : \A x \in S : step[n][x] \in S
IsRun(N, S, first, step, f) ==
  f \in [0..N -> S] /\ f[0] = first /\ \A n \in 1..N : f[n] = step[n][f[n - 1]]

LEMMA StepsExist ==
  ASSUME NEW N \in Nat, NEW S, NEW first \in S, NEW step, Closed(N, S, step)
  PROVE  \E f : IsRun(N, S, first, step, f)
<1> DEFINE Good(n) == \E f \in [0..n -> S] : f[0] = first /\ \A m \in 1..n : f[m] = step[m][f[m - 1]]
           Bad == {n \in 0..N : ~Good(n)}
<1>1. SUFFICES ASSUME Bad # {} PROVE FALSE
  <2>1. N \in 0..N /\ (N \notin Bad => Good(N))
    OBVIOUS
  <2> QED BY <2>1 DEF IsRun
<1>2. PICK n \in Bad : \A m \in Bad : n <= m
  <2>1. Bad \in SUBSET Nat
    OBVIOUS
  <2> HIDE DEF Bad
  <2> QED BY <1>1, <2>1, LeastNat
<1>3. n # 0
  <2>1. Good(0)
    <3> DEFINE z == [k \in 0..0 |-> first]
    <3>1. z \in [0..0 -> S] /\ z[0] = first /\ \A m \in 1..0 : FALSE
      OBVIOUS
    <3> HIDE DEF z
    <3> QED BY <3>1
  <2> QED BY <2>1
<1>4. Good(n - 1)
  <2>1. n - 1 \in 0..N /\ ~(n <= n - 1)
    BY <1>3
  <2>2. n - 1 \notin Bad
    BY <1>2, <2>1
  <2> HIDE DEF Good
  <2> QED BY <2>1, <2>2
<1>5. PICK f \in [0..(n - 1) -> S] : f[0] = first /\ \A m \in 1..(n - 1) : f[m] = step[m][f[m - 1]]
  BY <1>4
<1> DEFINE g == [k \in 0..n |-> IF k = n THEN step[n][f[n - 1]] ELSE f[k]]
<1>6. g \in [0..n -> S]
  BY <1>3, <1>5 DEF Closed
<1>7. g[0] = first /\ \A m \in 1..n : g[m] = step[m][g[m - 1]]
  BY <1>3, <1>5
<1> QED BY <1>6, <1>7

(* What holds of 0, and of a number when it holds of the one before it,    *)
(* holds up to N.                                                          *)
LEMMA UpTo ==
  ASSUME NEW N \in Nat, NEW G, 0 \in G, \A n \in 1..N : n - 1 \in G => n \in G
  PROVE  \A n \in 0..N : n \in G
<1> DEFINE Bad == {n \in 0..N : n \notin G}
<1>1. SUFFICES ASSUME Bad # {} PROVE FALSE
  OBVIOUS
<1>2. PICK n \in Bad : \A m \in Bad : n <= m
  <2>1. Bad \in SUBSET Nat
    OBVIOUS
  <2> HIDE DEF Bad
  <2> QED BY <1>1, <2>1, LeastNat
<1>3. n \in 1..N /\ n - 1 \in 0..N /\ ~(n <= n - 1)
  OBVIOUS
<1>4. n - 1 \notin Bad
  BY <1>2, <1>3
<1> QED BY <1>3, <1>4
-----------------------------------------------------------------------------
(* The parser's state.                                                     *)
ModeSet == [whole : BOOLEAN, needed : BOOLEAN, library : {"any", "static", "dynamic"}]
SpecSet(W) ==
  [kind : {"path", "library"}, name : W, whole : BOOLEAN, needed : BOOLEAN,
   library : {"any", "static", "dynamic"}, start_lib : BOOLEAN]
Errors == {"none", "pop-state", "start-lib", "end-lib"}
Parsers(W) ==
  [modes : ModeSet, start_lib : BOOLEAN, stack : Seq(ModeSet), pending : W, specs : Seq(SpecSet(W)),
   error : Errors, unsupported : SUBSET {"--wrap"}, on : [DOMAIN Settings -> BOOLEAN],
   single : [DOMAIN Singles -> W], given : SUBSET DOMAIN Singles, list : [DOMAIN Lists -> Seq(W)]]

(* Words with the ones the parser begins with.                             *)
IsWords(W) == {"", "a.out", "_start", "0x400000"} \subseteq W /\ ValueFlags \subseteq W

(* What the key leaves out.                                                *)
QuietOn == {"stats", "incremental", "daemon"}
QuietSingle == {"threads", "cache_report"}

(* Two parsers that differ in nothing the output depends on, but for the   *)
(* flag that waits for its value.                                          *)
Same(a, b) ==
  /\ a.modes = b.modes /\ a.start_lib = b.start_lib /\ a.stack = b.stack /\ a.specs = b.specs
  /\ a.error = b.error /\ a.unsupported = b.unsupported /\ a.list = b.list
  /\ \A f \in DOMAIN Settings \ QuietOn : a.on[f] = b.on[f]
  /\ \A f \in DOMAIN Singles \ QuietSingle : a.single[f] = b.single[f]
  /\ a.given \ QuietSingle = b.given \ QuietSingle

LEMMA EmptyIsSeq == ASSUME NEW S PROVE << >> \in Seq(S)
  OBVIOUS

LEMMA StartTyped == ASSUME NEW W, IsWords(W) PROVE Start \in Parsers(W)
<1>1. [f \in DOMAIN Singles |-> CASE f = "output" -> "a.out" [] f = "entry" -> "_start"
                                  [] f = "base" -> "0x400000" [] OTHER -> ""] \in [DOMAIN Singles -> W]
  BY DEF IsWords
<1>2. [f \in DOMAIN Settings |-> f = "incremental"] \in [DOMAIN Settings -> BOOLEAN]
  OBVIOUS
<1>3. [f \in DOMAIN Lists |-> << >>] \in [DOMAIN Lists -> Seq(W)]
  OBVIOUS
<1>4. PICK si, on, li :
        /\ si = [f \in DOMAIN Singles |-> CASE f = "output" -> "a.out" [] f = "entry" -> "_start"
                                          [] f = "base" -> "0x400000" [] OTHER -> ""]
        /\ on = [f \in DOMAIN Settings |-> f = "incremental"]
        /\ li = [f \in DOMAIN Lists |-> << >>]
  OBVIOUS
<1>5. Start = [modes |-> [whole |-> FALSE, needed |-> FALSE, library |-> "any"],
               start_lib |-> FALSE, stack |-> << >>,
               pending |-> "", specs |-> << >>, error |-> "none", unsupported |-> {},
               on |-> on, single |-> si, given |-> {}, list |-> li]
  BY <1>4, Zenon DEF Start
<1>6. si \in [DOMAIN Singles -> W] /\ on \in [DOMAIN Settings -> BOOLEAN] /\ li \in [DOMAIN Lists -> Seq(W)]
  BY <1>1, <1>2, <1>3, <1>4
<1>7. [whole |-> FALSE, needed |-> FALSE, library |-> "any"] \in ModeSet
  BY DEF ModeSet
<1>8. << >> \in Seq(ModeSet) /\ << >> \in Seq(SpecSet(W))
  BY EmptyIsSeq
<1>9. "" \in W /\ "none" \in Errors
  BY DEF IsWords, Errors
<1> QED BY <1>5, <1>6, <1>7, <1>8, <1>9 DEF Parsers

(* Which flag is what.                                                     *)
LEMMA FlagKinds ==
  /\ Values(Singles) = {"-o", "-e", "--base-address", "--threads", "--cache-report", "-soname"}
  /\ Values(Lists) = {"-L", "-T", "--defsym", "-u"}
  /\ \A flag \in Values(Singles) : NameOf(Singles, flag) \in DOMAIN Singles /\ Singles[NameOf(Singles, flag)] = flag
  /\ \A flag \in Values(Lists) : NameOf(Lists, flag) \in DOMAIN Lists
<1>1. Values(Singles) = {"-o", "-e", "--base-address", "--threads", "--cache-report", "-soname"}
  BY DEF Values, Singles
<1>2. Values(Lists) = {"-L", "-T", "--defsym", "-u"}
  BY DEF Values, Lists
<1>3. \A flag \in Values(Singles) : NameOf(Singles, flag) \in DOMAIN Singles /\ Singles[NameOf(Singles, flag)] = flag
  BY DEF Values, NameOf
<1>4. \A flag \in Values(Lists) : NameOf(Lists, flag) \in DOMAIN Lists
  BY DEF Values, NameOf
<1> QED BY <1>1, <1>2, <1>3, <1>4

LEMMA TakeValueCases ==
  ASSUME NEW s, NEW flag, NEW v
  PROVE  /\ flag \in Values(Singles) => TakeValue(s, flag, v) = SetSingle(s, NameOf(Singles, flag), v)
         /\ flag \in Values(Lists) => TakeValue(s, flag, v) = AddToList(s, NameOf(Lists, flag), v)
         /\ flag = "-l" => TakeValue(s, flag, v) = Spec1(s, "library", v)
         /\ flag = "--wrap" => TakeValue(s, flag, v) = [s EXCEPT !.unsupported = @ \cup {"--wrap"}]
         /\ flag \notin Values(Singles) \cup Values(Lists) \cup {"-l", "--wrap"} => TakeValue(s, flag, v) = s
<1>1. PICK u : u = [s EXCEPT !.unsupported = @ \cup {"--wrap"}]
  OBVIOUS
<1> QED BY FlagKinds, <1>1 DEF TakeValue

(* The fields after each kind of update.                                   *)
LEMMA SetSingleFields ==
  ASSUME NEW W, NEW s \in Parsers(W), NEW f \in DOMAIN Singles, NEW v \in W,
         NEW r, r = SetSingle(s, f, v)
  PROVE  /\ r \in Parsers(W)
         /\ r.modes = s.modes /\ r.start_lib = s.start_lib /\ r.stack = s.stack /\ r.specs = s.specs
         /\ r.error = s.error /\ r.unsupported = s.unsupported /\ r.list = s.list /\ r.on = s.on
         /\ r.pending = s.pending /\ r.single = [s.single EXCEPT ![f] = v] /\ r.given = s.given \cup {f}
  BY DEF Parsers, SetSingle

LEMMA AddToListFields ==
  ASSUME NEW W, NEW s \in Parsers(W), NEW f \in DOMAIN Lists, NEW v \in W,
         NEW r, r = AddToList(s, f, v)
  PROVE  /\ r \in Parsers(W)
         /\ r.modes = s.modes /\ r.start_lib = s.start_lib /\ r.stack = s.stack /\ r.specs = s.specs
         /\ r.error = s.error /\ r.unsupported = s.unsupported /\ r.single = s.single /\ r.on = s.on
         /\ r.pending = s.pending /\ r.given = s.given
         /\ r.list = [s.list EXCEPT ![f] = Append(@, v)]
<1>1. PICK l : l = s.list
  OBVIOUS
<1>2. l \in [DOMAIN Lists -> Seq(W)]
  BY <1>1 DEF Parsers
<1>3. PICK m : m = [l EXCEPT ![f] = Append(@, v)]
  OBVIOUS
<1>4. m \in [DOMAIN Lists -> Seq(W)]
  BY <1>2, <1>3
<1>5. AddToList(s, f, v) = [s EXCEPT !.list = m]
  BY <1>1, <1>3 DEF AddToList
<1> QED BY <1>1, <1>3, <1>4, <1>5 DEF Parsers

SpecOf(s, k, v) ==
  [kind |-> k, name |-> v, whole |-> s.modes.whole, needed |-> s.modes.needed,
   library |-> s.modes.library, start_lib |-> s.start_lib]
LEMMA Spec1Fields ==
  ASSUME NEW W, NEW s \in Parsers(W), NEW k \in {"path", "library"}, NEW v \in W,
         NEW r, r = Spec1(s, k, v)
  PROVE  /\ r \in Parsers(W)
         /\ r.modes = s.modes /\ r.start_lib = s.start_lib /\ r.stack = s.stack /\ r.list = s.list
         /\ r.error = s.error /\ r.unsupported = s.unsupported /\ r.single = s.single /\ r.on = s.on
         /\ r.pending = s.pending /\ r.given = s.given
         /\ r.specs = Append(s.specs, SpecOf(s, k, v))
<1>1. PICK l, e : l = s.specs /\ e = SpecOf(s, k, v)
  OBVIOUS
<1>2. l \in Seq(SpecSet(W)) /\ e \in SpecSet(W)
  BY <1>1 DEF Parsers, SpecSet, ModeSet, SpecOf
<1>3. PICK m : m = Append(l, e)
  OBVIOUS
<1>4. m \in Seq(SpecSet(W))
  BY <1>2, <1>3
<1>5. Spec1(s, k, v) = [s EXCEPT !.specs = m]
  BY <1>1, <1>3 DEF Spec1, SpecOf
<1> QED BY <1>1, <1>3, <1>4, <1>5 DEF Parsers

LEMMA TakeValueTyped ==
  ASSUME NEW W, NEW s \in Parsers(W), NEW flag, NEW v \in W
  PROVE  LET r == TakeValue(s, flag, v) IN r \in Parsers(W) /\ r.pending = s.pending /\ r.error = s.error
<1>1. CASE flag \in Values(Singles)
  <2>1. PICK f \in DOMAIN Singles : TakeValue(s, flag, v) = SetSingle(s, f, v)
    BY <1>1, FlagKinds, TakeValueCases
  <2>2. PICK r : r = SetSingle(s, f, v)
    OBVIOUS
  <2>3. r \in Parsers(W)
    BY <2>2, SetSingleFields
  <2>4. /\ r.pending = s.pending /\ r.error = s.error
        /\ r.single = [s.single EXCEPT ![f] = v] /\ r.given = s.given \cup {f}
    BY <2>2, SetSingleFields
  <2> QED BY <2>1, <2>2, <2>3, <2>4
<1>2. CASE flag \in Values(Lists)
  <2>1. PICK f \in DOMAIN Lists : TakeValue(s, flag, v) = AddToList(s, f, v)
    BY <1>2, FlagKinds, TakeValueCases
  <2>2. PICK r : r = AddToList(s, f, v)
    OBVIOUS
  <2>3. r \in Parsers(W)
    BY <2>2, AddToListFields
  <2>4. r.pending = s.pending /\ r.error = s.error /\ r.list = [s.list EXCEPT ![f] = Append(@, v)]
    BY <2>2, AddToListFields
  <2> QED BY <2>1, <2>2, <2>3, <2>4
<1>3. CASE flag = "-l"
  <2>1. TakeValue(s, flag, v) = Spec1(s, "library", v)
    BY <1>3, TakeValueCases
  <2> QED BY <2>1, Spec1Fields
<1>4. CASE flag = "--wrap"
  <2>1. TakeValue(s, flag, v) = [s EXCEPT !.unsupported = @ \cup {"--wrap"}]
    BY <1>4, TakeValueCases
  <2> QED BY <2>1 DEF Parsers
<1>5. CASE flag \notin Values(Singles) \cup Values(Lists) \cup {"-l", "--wrap"}
  <2>1. TakeValue(s, flag, v) = s
    BY <1>5, TakeValueCases
  <2> QED BY <2>1
<1> QED BY <1>1, <1>2, <1>3, <1>4, <1>5

(* Parsers that are the same stay so when a flag gets its value.           *)
LEMMA SetSingleSame ==
  ASSUME NEW W, NEW a \in Parsers(W), NEW b \in Parsers(W), Same(a, b), NEW f \in DOMAIN Singles, NEW v \in W
  PROVE  Same(SetSingle(a, f, v), SetSingle(b, f, v))
<1>1. PICK x, y : x = SetSingle(a, f, v) /\ y = SetSingle(b, f, v)
  OBVIOUS
<1>2. /\ x.modes = a.modes /\ x.start_lib = a.start_lib /\ x.stack = a.stack /\ x.specs = a.specs
      /\ x.error = a.error /\ x.unsupported = a.unsupported /\ x.list = a.list /\ x.on = a.on
      /\ x.single = [a.single EXCEPT ![f] = v] /\ x.given = a.given \cup {f}
  BY <1>1, SetSingleFields
<1>3. /\ y.modes = b.modes /\ y.start_lib = b.start_lib /\ y.stack = b.stack /\ y.specs = b.specs
      /\ y.error = b.error /\ y.unsupported = b.unsupported /\ y.list = b.list /\ y.on = b.on
      /\ y.single = [b.single EXCEPT ![f] = v] /\ y.given = b.given \cup {f}
  BY <1>1, SetSingleFields
<1>4. a.single \in [DOMAIN Singles -> W] /\ b.single \in [DOMAIN Singles -> W]
  BY DEF Parsers
<1>5. \A g \in DOMAIN Singles \ QuietSingle : x.single[g] = y.single[g]
  BY <1>2, <1>3, <1>4 DEF Same
<1>6. x.given \ QuietSingle = y.given \ QuietSingle
  BY <1>2, <1>3 DEF Same
<1>7. Same(x, y)
  BY <1>2, <1>3, <1>5, <1>6, Zenon DEF Same
<1> QED BY <1>1, <1>7

LEMMA AddToListSame ==
  ASSUME NEW W, NEW a \in Parsers(W), NEW b \in Parsers(W), Same(a, b), NEW f \in DOMAIN Lists, NEW v \in W
  PROVE  Same(AddToList(a, f, v), AddToList(b, f, v))
<1>1. PICK x, y : x = AddToList(a, f, v) /\ y = AddToList(b, f, v)
  OBVIOUS
<1>2. /\ x.modes = a.modes /\ x.start_lib = a.start_lib /\ x.stack = a.stack /\ x.specs = a.specs
      /\ x.error = a.error /\ x.unsupported = a.unsupported /\ x.single = a.single /\ x.on = a.on
      /\ x.given = a.given /\ x.list = [a.list EXCEPT ![f] = Append(@, v)]
  BY <1>1, AddToListFields
<1>3. /\ y.modes = b.modes /\ y.start_lib = b.start_lib /\ y.stack = b.stack /\ y.specs = b.specs
      /\ y.error = b.error /\ y.unsupported = b.unsupported /\ y.single = b.single /\ y.on = b.on
      /\ y.given = b.given /\ y.list = [b.list EXCEPT ![f] = Append(@, v)]
  BY <1>1, AddToListFields
<1>4. x.list = y.list
  BY <1>2, <1>3, Zenon DEF Same
<1>5. Same(x, y)
  BY <1>2, <1>3, <1>4, Zenon DEF Same
<1> QED BY <1>1, <1>5

LEMMA Spec1Same ==
  ASSUME NEW W, NEW a \in Parsers(W), NEW b \in Parsers(W), Same(a, b), NEW k \in {"path", "library"}, NEW v \in W
  PROVE  Same(Spec1(a, k, v), Spec1(b, k, v))
<1>1. PICK x, y : x = Spec1(a, k, v) /\ y = Spec1(b, k, v)
  OBVIOUS
<1>2. /\ x.modes = a.modes /\ x.start_lib = a.start_lib /\ x.stack = a.stack /\ x.list = a.list
      /\ x.error = a.error /\ x.unsupported = a.unsupported /\ x.single = a.single /\ x.on = a.on
      /\ x.given = a.given /\ x.specs = Append(a.specs, SpecOf(a, k, v))
  BY <1>1, Spec1Fields
<1>3. /\ y.modes = b.modes /\ y.start_lib = b.start_lib /\ y.stack = b.stack /\ y.list = b.list
      /\ y.error = b.error /\ y.unsupported = b.unsupported /\ y.single = b.single /\ y.on = b.on
      /\ y.given = b.given /\ y.specs = Append(b.specs, SpecOf(b, k, v))
  BY <1>1, Spec1Fields
<1>4. SpecOf(a, k, v) = SpecOf(b, k, v)
  BY Zenon DEF SpecOf, Same
<1>5. Same(x, y)
  BY <1>2, <1>3, <1>4, Zenon DEF Same
<1> QED BY <1>1, <1>5

LEMMA TakeValueSame ==
  ASSUME NEW W, NEW a \in Parsers(W), NEW b \in Parsers(W), Same(a, b), NEW flag, NEW v \in W
  PROVE  Same(TakeValue(a, flag, v), TakeValue(b, flag, v))
<1>1. CASE flag \in Values(Singles)
  <2>1. NameOf(Singles, flag) \in DOMAIN Singles
    BY <1>1, FlagKinds
  <2>2. Same(SetSingle(a, NameOf(Singles, flag), v), SetSingle(b, NameOf(Singles, flag), v))
    BY <2>1, SetSingleSame
  <2> QED BY <1>1, <2>2, TakeValueCases
<1>2. CASE flag \in Values(Lists)
  <2>1. NameOf(Lists, flag) \in DOMAIN Lists
    BY <1>2, FlagKinds
  <2>2. Same(AddToList(a, NameOf(Lists, flag), v), AddToList(b, NameOf(Lists, flag), v))
    BY <2>1, AddToListSame
  <2> QED BY <1>2, <2>2, TakeValueCases
<1>3. CASE flag = "-l"
  <2>1. Same(Spec1(a, "library", v), Spec1(b, "library", v))
    BY Spec1Same
  <2> QED BY <1>3, <2>1, TakeValueCases
<1>4. CASE flag = "--wrap"
  <2>1. PICK x, y : x = TakeValue(a, flag, v) /\ y = TakeValue(b, flag, v)
    OBVIOUS
  <2>2. x = [a EXCEPT !.unsupported = @ \cup {"--wrap"}] /\ y = [b EXCEPT !.unsupported = @ \cup {"--wrap"}]
    BY <1>4, <2>1, TakeValueCases
  <2>3. /\ x.modes = a.modes /\ x.start_lib = a.start_lib /\ x.stack = a.stack /\ x.list = a.list
        /\ x.error = a.error /\ x.single = a.single /\ x.on = a.on /\ x.given = a.given /\ x.specs = a.specs
        /\ x.unsupported = a.unsupported \cup {"--wrap"}
    BY <2>2 DEF Parsers
  <2>4. /\ y.modes = b.modes /\ y.start_lib = b.start_lib /\ y.stack = b.stack /\ y.list = b.list
        /\ y.error = b.error /\ y.single = b.single /\ y.on = b.on /\ y.given = b.given /\ y.specs = b.specs
        /\ y.unsupported = b.unsupported \cup {"--wrap"}
    BY <2>2 DEF Parsers
  <2>5. Same(x, y)
    BY <2>3, <2>4, Zenon DEF Same
  <2> QED BY <2>1, <2>5
<1>5. CASE flag \notin Values(Singles) \cup Values(Lists) \cup {"-l", "--wrap"}
  BY <1>5, TakeValueCases
<1> QED BY <1>1, <1>2, <1>3, <1>4, <1>5

(* --threads and --cache-report change nothing that counts.                *)
LEMMA TakeValueQuiet ==
  ASSUME NEW W, NEW s \in Parsers(W), NEW flag \in Scheduling, NEW v \in W
  PROVE  Same(TakeValue(s, flag, v), s)
<1>1. flag \in Values(Singles)
  BY FlagKinds DEF Scheduling
<1>2. PICK f : f = NameOf(Singles, flag)
  OBVIOUS
<1>3. f \in DOMAIN Singles /\ Singles[f] = flag
  BY <1>1, <1>2, FlagKinds
<1>4. f \in QuietSingle
  BY <1>3 DEF Singles, Scheduling, QuietSingle
<1>5. PICK x : x = TakeValue(s, flag, v)
  OBVIOUS
<1>6. x = SetSingle(s, f, v)
  BY <1>1, <1>2, <1>5, TakeValueCases
<1>7. /\ x.modes = s.modes /\ x.start_lib = s.start_lib /\ x.stack = s.stack /\ x.specs = s.specs
      /\ x.error = s.error /\ x.unsupported = s.unsupported /\ x.list = s.list /\ x.on = s.on
      /\ x.single = [s.single EXCEPT ![f] = v] /\ x.given = s.given \cup {f}
  BY <1>3, <1>6, SetSingleFields
<1>8. s.single \in [DOMAIN Singles -> W]
  BY DEF Parsers
<1>9. \A g \in DOMAIN Singles \ QuietSingle : x.single[g] = s.single[g]
  BY <1>4, <1>7, <1>8
<1>10. x.given \ QuietSingle = s.given \ QuietSingle
  BY <1>4, <1>7
<1>11. Same(x, s)
  BY <1>7, <1>9, <1>10, Zenon DEF Same
<1> QED BY <1>5, <1>11

-----------------------------------------------------------------------------
(* Flags by themselves.                                                    *)

LEMMA SetFieldFields ==
  ASSUME NEW W, NEW s \in Parsers(W), NEW f \in DOMAIN Settings, NEW v \in BOOLEAN,
         NEW r, r = SetField(s, f, v)
  PROVE  /\ r \in Parsers(W)
         /\ r.modes = s.modes /\ r.start_lib = s.start_lib /\ r.stack = s.stack /\ r.specs = s.specs
         /\ r.error = s.error /\ r.unsupported = s.unsupported /\ r.list = s.list /\ r.pending = s.pending
         /\ r.single = s.single /\ r.given = s.given
         /\ \A g \in DOMAIN Settings \ QuietOn : r.on[g] = IF g = f THEN v ELSE s.on[g]
<1>1. PICK o : o = s.on
  OBVIOUS
<1>2. o \in [DOMAIN Settings -> BOOLEAN] /\ "daemon" \in DOMAIN Settings /\ "incremental" \in DOMAIN Settings
  BY <1>1 DEF Parsers, Settings
<1>3. \E n \in [DOMAIN Settings -> BOOLEAN] :
        /\ SetField(s, f, v) = [s EXCEPT !.on = n]
        /\ \A g \in DOMAIN Settings \ QuietOn : n[g] = IF g = f THEN v ELSE o[g]
  <2>1. CASE f = "daemon"
    <3> DEFINE n == [o EXCEPT !["daemon"] = TRUE, !["incremental"] = TRUE]
    <3>1. n \in [DOMAIN Settings -> BOOLEAN] /\ \A g \in DOMAIN Settings \ QuietOn : n[g] = IF g = f THEN v ELSE o[g]
      BY <1>2, <2>1 DEF QuietOn
    <3>2. SetField(s, f, v) = [s EXCEPT !.on = n]
      BY <1>1, <2>1 DEF SetField
    <3> HIDE DEF n
    <3> QED BY <3>1, <3>2
  <2>2. CASE f = "incremental" /\ ~v
    <3> DEFINE n == [o EXCEPT !["daemon"] = FALSE, !["incremental"] = FALSE]
    <3>1. n \in [DOMAIN Settings -> BOOLEAN] /\ \A g \in DOMAIN Settings \ QuietOn : n[g] = IF g = f THEN v ELSE o[g]
      BY <1>2, <2>2 DEF QuietOn
    <3>2. SetField(s, f, v) = [s EXCEPT !.on = n]
      BY <1>1, <2>2 DEF SetField
    <3> HIDE DEF n
    <3> QED BY <3>1, <3>2
  <2>3. CASE f # "daemon" /\ ~(f = "incremental" /\ ~v)
    <3> DEFINE n == [o EXCEPT ![f] = v]
    <3>1. n \in [DOMAIN Settings -> BOOLEAN]
      BY <1>2
    <3>2. \A g \in DOMAIN Settings \ QuietOn : n[g] = IF g = f THEN v ELSE o[g]
      BY <1>2
    <3>3. SetField(s, f, v) = [s EXCEPT !.on = n]
      BY <1>1, <2>3 DEF SetField
    <3> HIDE DEF n
    <3> QED BY <3>1, <3>2, <3>3
  <2> QED BY <2>1, <2>2, <2>3
<1>4. PICK n \in [DOMAIN Settings -> BOOLEAN] :
        /\ SetField(s, f, v) = [s EXCEPT !.on = n]
        /\ \A g \in DOMAIN Settings \ QuietOn : n[g] = IF g = f THEN v ELSE o[g]
  BY <1>3
<1>5. r = [s EXCEPT !.on = n]
  BY <1>4
<1>6. /\ r \in Parsers(W)
      /\ r.modes = s.modes /\ r.start_lib = s.start_lib /\ r.stack = s.stack /\ r.specs = s.specs
      /\ r.error = s.error /\ r.unsupported = s.unsupported /\ r.list = s.list /\ r.pending = s.pending
      /\ r.single = s.single /\ r.given = s.given /\ r.on = n
  BY <1>5 DEF Parsers
<1> QED BY <1>1, <1>4, <1>6, Zenon

LEMMA SetFieldSame ==
  ASSUME NEW W, NEW a \in Parsers(W), NEW b \in Parsers(W), Same(a, b), NEW f \in DOMAIN Settings, NEW v \in BOOLEAN
  PROVE  Same(SetField(a, f, v), SetField(b, f, v))
<1>1. PICK x, y : x = SetField(a, f, v) /\ y = SetField(b, f, v)
  OBVIOUS
<1>2. /\ x.modes = a.modes /\ x.start_lib = a.start_lib /\ x.stack = a.stack /\ x.specs = a.specs
      /\ x.error = a.error /\ x.unsupported = a.unsupported /\ x.list = a.list
      /\ x.single = a.single /\ x.given = a.given
      /\ \A g \in DOMAIN Settings \ QuietOn : x.on[g] = IF g = f THEN v ELSE a.on[g]
  BY <1>1, SetFieldFields
<1>3. /\ y.modes = b.modes /\ y.start_lib = b.start_lib /\ y.stack = b.stack /\ y.specs = b.specs
      /\ y.error = b.error /\ y.unsupported = b.unsupported /\ y.list = b.list
      /\ y.single = b.single /\ y.given = b.given
      /\ \A g \in DOMAIN Settings \ QuietOn : y.on[g] = IF g = f THEN v ELSE b.on[g]
  BY <1>1, SetFieldFields
<1>4. \A g \in DOMAIN Settings \ QuietOn : x.on[g] = y.on[g]
  BY <1>2, <1>3, Zenon DEF Same
<1>5. Same(x, y)
  BY <1>2, <1>3, <1>4, Zenon DEF Same
<1> QED BY <1>1, <1>5

(* --stats, --daemon and the like change nothing that counts.              *)
LEMMA SetFieldQuiet ==
  ASSUME NEW W, NEW s \in Parsers(W), NEW f \in DOMAIN Settings \cap QuietOn, NEW v \in BOOLEAN
  PROVE  Same(SetField(s, f, v), s)
<1>1. PICK x : x = SetField(s, f, v)
  OBVIOUS
<1>2. /\ x.modes = s.modes /\ x.start_lib = s.start_lib /\ x.stack = s.stack /\ x.specs = s.specs
      /\ x.error = s.error /\ x.unsupported = s.unsupported /\ x.list = s.list
      /\ x.single = s.single /\ x.given = s.given
      /\ \A g \in DOMAIN Settings \ QuietOn : x.on[g] = IF g = f THEN v ELSE s.on[g]
  BY <1>1, SetFieldFields
<1>3. \A g \in DOMAIN Settings \ QuietOn : x.on[g] = s.on[g]
  BY <1>2, Zenon
<1>4. Same(x, s)
  BY <1>2, <1>3, Zenon DEF Same
<1> QED BY <1>1, <1>4

(* The modes.                                                              *)
ModeAfter(m, w) ==
  [whole |-> IF w \in {"--whole-archive", "--no-whole-archive"} THEN w = "--whole-archive" ELSE m.whole,
   needed |-> IF w \in {"--as-needed", "--no-as-needed"} THEN w = "--as-needed" ELSE m.needed,
   library |-> IF w \in {"-Bstatic", "-static"} THEN "static" ELSE IF w = "-Bdynamic" THEN "dynamic" ELSE m.library]
LEMMA SetModeFields ==
  ASSUME NEW W, NEW s \in Parsers(W), NEW w \in Modes, NEW r, r = SetMode(s, w)
  PROVE  /\ r \in Parsers(W) /\ r.modes = ModeAfter(s.modes, w)
         /\ r.start_lib = s.start_lib /\ r.stack = s.stack /\ r.specs = s.specs
         /\ r.error = s.error /\ r.unsupported = s.unsupported /\ r.list = s.list /\ r.pending = s.pending
         /\ r.single = s.single /\ r.given = s.given
         /\ r.on = IF w = "-static" THEN [s.on EXCEPT !["pie"] = FALSE] ELSE s.on
<1>1. PICK m, o : m = s.modes /\ o = s.on
  OBVIOUS
<1>2. m \in ModeSet /\ o \in [DOMAIN Settings -> BOOLEAN] /\ "pie" \in DOMAIN Settings
  BY <1>1 DEF Parsers, Settings
<1>3. PICK n : n = ModeAfter(m, w)
  OBVIOUS
<1>4. n \in ModeSet
  BY <1>2, <1>3 DEF ModeAfter, ModeSet
<1>5. CASE w = "-static"
  <2> DEFINE p == [o EXCEPT !["pie"] = FALSE]
  <2>1. p \in [DOMAIN Settings -> BOOLEAN]
    BY <1>2
  <2>2. n = [m EXCEPT !.library = "static"]
    BY <1>2, <1>3, <1>5 DEF ModeAfter, ModeSet
  <2>3. r = [s EXCEPT !.modes.library = "static", !.on.pie = FALSE]
    BY <1>5 DEF SetMode
  <2>4. r = [s EXCEPT !.modes = n, !.on = p]
    BY <1>1, <2>2, <2>3
  <2> HIDE DEF p
  <2>5. /\ r \in Parsers(W) /\ r.modes = n
        /\ r.start_lib = s.start_lib /\ r.stack = s.stack /\ r.specs = s.specs
        /\ r.error = s.error /\ r.unsupported = s.unsupported /\ r.list = s.list /\ r.pending = s.pending
        /\ r.single = s.single /\ r.given = s.given /\ r.on = p
    BY <1>4, <2>1, <2>4 DEF Parsers
  <2> QED BY <1>1, <1>3, <1>5, <2>5 DEF p
<1>6. CASE w # "-static"
  <2>1. r = [s EXCEPT !.modes = n]
    <3>1. CASE w \in {"--whole-archive", "--no-whole-archive"}
      <4>1. n = [m EXCEPT !.whole = w = "--whole-archive"]
        BY <1>2, <1>3, <3>1 DEF ModeAfter, ModeSet
      <4>2. r = [s EXCEPT !.modes.whole = w = "--whole-archive"]
        BY <3>1 DEF SetMode
      <4> QED BY <1>1, <4>1, <4>2
    <3>2. CASE w \in {"--as-needed", "--no-as-needed"}
      <4>1. n = [m EXCEPT !.needed = w = "--as-needed"]
        BY <1>2, <1>3, <3>2 DEF ModeAfter, ModeSet
      <4>2. r = [s EXCEPT !.modes.needed = w = "--as-needed"]
        BY <3>2 DEF SetMode
      <4> QED BY <1>1, <4>1, <4>2
    <3>3. CASE w = "-Bstatic"
      <4>1. n = [m EXCEPT !.library = "static"]
        BY <1>2, <1>3, <3>3 DEF ModeAfter, ModeSet
      <4>2. r = [s EXCEPT !.modes.library = "static"]
        BY <3>3 DEF SetMode
      <4> QED BY <1>1, <4>1, <4>2
    <3>4. CASE w = "-Bdynamic"
      <4>1. n = [m EXCEPT !.library = "dynamic"]
        BY <1>2, <1>3, <3>4 DEF ModeAfter, ModeSet
      <4>2. r = [s EXCEPT !.modes.library = "dynamic"]
        BY <3>4 DEF SetMode
      <4> QED BY <1>1, <4>1, <4>2
    <3> QED BY <1>6, <3>1, <3>2, <3>3, <3>4 DEF Modes
  <2>2. /\ r \in Parsers(W) /\ r.modes = n
        /\ r.start_lib = s.start_lib /\ r.stack = s.stack /\ r.specs = s.specs
        /\ r.error = s.error /\ r.unsupported = s.unsupported /\ r.list = s.list /\ r.pending = s.pending
        /\ r.single = s.single /\ r.given = s.given /\ r.on = s.on
    BY <1>4, <2>1 DEF Parsers
  <2> QED BY <1>1, <1>3, <1>6, <2>2
<1> QED BY <1>5, <1>6

LEMMA SetModeSame ==
  ASSUME NEW W, NEW a \in Parsers(W), NEW b \in Parsers(W), Same(a, b), NEW w \in Modes
  PROVE  Same(SetMode(a, w), SetMode(b, w))
<1>1. PICK x, y : x = SetMode(a, w) /\ y = SetMode(b, w)
  OBVIOUS
<1>2. /\ x.modes = ModeAfter(a.modes, w) /\ x.start_lib = a.start_lib /\ x.stack = a.stack /\ x.specs = a.specs
      /\ x.error = a.error /\ x.unsupported = a.unsupported /\ x.list = a.list
      /\ x.single = a.single /\ x.given = a.given
      /\ x.on = IF w = "-static" THEN [a.on EXCEPT !["pie"] = FALSE] ELSE a.on
  BY <1>1, SetModeFields
<1>3. /\ y.modes = ModeAfter(b.modes, w) /\ y.start_lib = b.start_lib /\ y.stack = b.stack /\ y.specs = b.specs
      /\ y.error = b.error /\ y.unsupported = b.unsupported /\ y.list = b.list
      /\ y.single = b.single /\ y.given = b.given
      /\ y.on = IF w = "-static" THEN [b.on EXCEPT !["pie"] = FALSE] ELSE b.on
  BY <1>1, SetModeFields
<1>4. \A g \in DOMAIN Settings \ QuietOn : x.on[g] = y.on[g]
  <2>1. PICK o, p : o = a.on /\ p = b.on
    OBVIOUS
  <2>2. o \in [DOMAIN Settings -> BOOLEAN] /\ p \in [DOMAIN Settings -> BOOLEAN]
    BY <2>1 DEF Parsers
  <2>3. \A g \in DOMAIN Settings \ QuietOn : o[g] = p[g]
    BY <2>1 DEF Same
  <2>4. \A g \in DOMAIN Settings \ QuietOn : [o EXCEPT !["pie"] = FALSE][g] = [p EXCEPT !["pie"] = FALSE][g]
    BY <2>2, <2>3
  <2> QED BY <1>2, <1>3, <2>1, <2>3, <2>4
<1>5. Same(x, y)
  BY <1>2, <1>3, <1>4, Zenon DEF Same
<1> QED BY <1>1, <1>5

(* Flags of the three kinds are different words.                           *)
SettingWords ==
  {"--gc-sections", "--no-gc-sections", "--icf", "--no-icf", "--build-id", "-s", "--incremental",
   "--no-incremental", "--daemon", "--stats", "-pie", "-no-pie", "--no-crt", "-shared", "-r",
   "--no-undefined", "--allow-shlib-undefined"}
QuietWords == {"--incremental", "--no-incremental", "--daemon", "--stats"}

LEMMA SettingPairs ==
  ASSUME NEW f \in DOMAIN Settings
  PROVE  /\ Settings[f][1] \in SettingWords /\ (Settings[f][2] = "" \/ Settings[f][2] \in SettingWords)
         /\ (Settings[f][1] \in QuietWords => f \in QuietOn)
         /\ (Settings[f][2] \in QuietWords => f \in QuietOn)
<1>1. DOMAIN Settings =
        {"gc", "icf", "build_id", "strip", "incremental", "daemon", "stats", "pie", "no_crt", "shared",
         "relocatable", "no_undefined"}
  BY DEF Settings
<1>2. /\ Settings["gc"][1] = "--gc-sections" /\ Settings["gc"][2] = "--no-gc-sections"
      /\ Settings["icf"][1] = "--icf" /\ Settings["icf"][2] = "--no-icf"
      /\ Settings["build_id"][1] = "--build-id" /\ Settings["build_id"][2] = ""
      /\ Settings["strip"][1] = "-s" /\ Settings["strip"][2] = ""
      /\ Settings["incremental"][1] = "--incremental" /\ Settings["incremental"][2] = "--no-incremental"
      /\ Settings["daemon"][1] = "--daemon" /\ Settings["daemon"][2] = ""
      /\ Settings["stats"][1] = "--stats" /\ Settings["stats"][2] = ""
      /\ Settings["pie"][1] = "-pie" /\ Settings["pie"][2] = "-no-pie"
      /\ Settings["no_crt"][1] = "--no-crt" /\ Settings["no_crt"][2] = ""
      /\ Settings["shared"][1] = "-shared" /\ Settings["shared"][2] = ""
      /\ Settings["relocatable"][1] = "-r" /\ Settings["relocatable"][2] = ""
      /\ Settings["no_undefined"][1] = "--no-undefined" /\ Settings["no_undefined"][2] = "--allow-shlib-undefined"
  BY DEF Settings
<1>3. Settings[f][1] \in SettingWords
  BY <1>1, <1>2 DEF SettingWords
<1>4. Settings[f][2] = "" \/ Settings[f][2] \in SettingWords
  BY <1>1, <1>2 DEF SettingWords
<1>5. Settings[f][1] \in QuietWords => f \in QuietOn
  BY <1>1, <1>2 DEF QuietWords, QuietOn
<1>6. Settings[f][2] \in QuietWords => f \in QuietOn
  BY <1>1, <1>2 DEF QuietWords, QuietOn
<1> QED BY <1>3, <1>4, <1>5, <1>6

LEMMA FieldWords ==
  ASSUME NEW w, w # "", NEW f \in FieldsOf(w)
  PROVE  w \in SettingWords /\ f \in DOMAIN Settings /\ (w \in QuietWords => f \in QuietOn)
  BY SettingPairs DEF FieldsOf

LEMMA QuietFields ==
  ASSUME NEW w \in QuietWords
  PROVE  FieldsOf(w) # {}
<1>1. /\ "incremental" \in DOMAIN Settings /\ Settings["incremental"][1] = "--incremental"
      /\ Settings["incremental"][2] = "--no-incremental"
      /\ "daemon" \in DOMAIN Settings /\ Settings["daemon"][1] = "--daemon"
      /\ "stats" \in DOMAIN Settings /\ Settings["stats"][1] = "--stats"
  BY DEF Settings
<1>2. \E f \in DOMAIN Settings : w = Settings[f][1] \/ w = Settings[f][2]
  BY <1>1 DEF QuietWords
<1> QED BY <1>2 DEF FieldsOf

LEMMA ValueWords ==
  ValueFlags = {"-o", "-e", "--base-address", "--threads", "--cache-report", "-soname",
                "-L", "-T", "--defsym", "-u", "-m", "-rpath-link", "-l", "--wrap"}
  BY FlagKinds DEF ValueFlags, IgnoredWithValue

OtherWords == {"--push-state", "--pop-state", "--start-lib", "--end-lib"}
LEMMA WordsDiffer ==
  /\ ValueFlags \cap (SettingWords \cup Modes \cup OtherWords) = {}
  /\ SettingWords \cap (Modes \cup OtherWords) = {}
  /\ Modes \cap OtherWords = {}
  BY ValueWords DEF SettingWords, Modes, OtherWords

StartLib(s) == IF s.start_lib THEN Bail(s, "start-lib") ELSE [s EXCEPT !.start_lib = TRUE]
EndLib(s) == IF ~s.start_lib THEN Bail(s, "end-lib") ELSE [s EXCEPT !.start_lib = FALSE]
PushState(s) == [s EXCEPT !.stack = Append(@, s.modes)]
ReadField(s, w) == LET f == CHOOSE f \in FieldsOf(w) : TRUE IN SetField(s, f, Settings[f][1] = w)
Waiting(s, w) == [s EXCEPT !.pending = w]

LEMMA ReadFlagCases ==
  ASSUME NEW s, NEW w, w # ""
  PROVE  /\ w \in ValueFlags => ReadFlag(s, w) = Waiting(s, w)
         /\ FieldsOf(w) # {} => w \notin ValueFlags /\ ReadFlag(s, w) = ReadField(s, w)
         /\ w \in Modes => w \notin ValueFlags /\ ReadFlag(s, w) = SetMode(s, w)
         /\ w = "--push-state" => w \notin ValueFlags /\ ReadFlag(s, w) = PushState(s)
         /\ w = "--pop-state" => w \notin ValueFlags /\ ReadFlag(s, w) = PopState(s)
         /\ w = "--start-lib" => w \notin ValueFlags /\ ReadFlag(s, w) = StartLib(s)
         /\ w = "--end-lib" => w \notin ValueFlags /\ ReadFlag(s, w) = EndLib(s)
         /\ w \notin ValueFlags \cup Modes \cup OtherWords /\ FieldsOf(w) = {} => ReadFlag(s, w) = s
<1>1. FieldsOf(w) # {} => w \in SettingWords
  BY FieldWords
<1>2. ReadFlag(s, w) =
        CASE w \in ValueFlags -> Waiting(s, w) [] FieldsOf(w) # {} -> ReadField(s, w) [] w \in Modes -> SetMode(s, w)
          [] w = "--push-state" -> PushState(s) [] w = "--pop-state" -> PopState(s)
          [] w = "--start-lib" -> StartLib(s) [] w = "--end-lib" -> EndLib(s) [] OTHER -> s
  BY Zenon DEF ReadFlag, Waiting, ReadField, PushState, StartLib, EndLib
<1>3. /\ w \in ValueFlags => FieldsOf(w) = {} /\ w \notin Modes /\ w \notin OtherWords
      /\ FieldsOf(w) # {} => w \notin ValueFlags /\ w \notin Modes /\ w \notin OtherWords
      /\ w \in Modes => w \notin ValueFlags /\ FieldsOf(w) = {} /\ w \notin OtherWords
      /\ w \in OtherWords => w \notin ValueFlags /\ FieldsOf(w) = {} /\ w \notin Modes
  BY <1>1, WordsDiffer
<1>4. w \in OtherWords <=> w = "--push-state" \/ w = "--pop-state" \/ w = "--start-lib" \/ w = "--end-lib"
  BY DEF OtherWords
<1> QED BY <1>2, <1>3, <1>4

LEMMA WaitingFields ==
  ASSUME NEW W, NEW s \in Parsers(W), NEW w \in W, NEW r, r = Waiting(s, w)
  PROVE  /\ r \in Parsers(W) /\ r.pending = w
         /\ r.modes = s.modes /\ r.start_lib = s.start_lib /\ r.stack = s.stack /\ r.specs = s.specs
         /\ r.error = s.error /\ r.unsupported = s.unsupported /\ r.list = s.list /\ r.on = s.on
         /\ r.single = s.single /\ r.given = s.given
  BY DEF Parsers, Waiting

LEMMA BailFields ==
  ASSUME NEW W, NEW s \in Parsers(W), NEW e \in Errors, NEW r, r = Bail(s, e)
  PROVE  /\ r \in Parsers(W) /\ r.pending = s.pending /\ r.error = e
         /\ r.modes = s.modes /\ r.start_lib = s.start_lib /\ r.stack = s.stack /\ r.specs = s.specs
         /\ r.unsupported = s.unsupported /\ r.list = s.list /\ r.on = s.on
         /\ r.single = s.single /\ r.given = s.given
  BY DEF Parsers, Bail

LEMMA InLibFields ==
  ASSUME NEW W, NEW s \in Parsers(W), NEW b \in BOOLEAN, NEW r, r = [s EXCEPT !.start_lib = b]
  PROVE  /\ r \in Parsers(W) /\ r.pending = s.pending /\ r.error = s.error /\ r.start_lib = b
         /\ r.modes = s.modes /\ r.stack = s.stack /\ r.specs = s.specs
         /\ r.unsupported = s.unsupported /\ r.list = s.list /\ r.on = s.on
         /\ r.single = s.single /\ r.given = s.given
  BY DEF Parsers

LEMMA PushFields ==
  ASSUME NEW W, NEW s \in Parsers(W), NEW r, r = PushState(s)
  PROVE  /\ r \in Parsers(W) /\ r.pending = s.pending /\ r.error = s.error /\ r.start_lib = s.start_lib
         /\ r.modes = s.modes /\ r.stack = Append(s.stack, s.modes) /\ r.specs = s.specs
         /\ r.unsupported = s.unsupported /\ r.list = s.list /\ r.on = s.on
         /\ r.single = s.single /\ r.given = s.given
<1>1. PICK k, m : k = Append(s.stack, s.modes) /\ m = s.modes
  OBVIOUS
<1>2. k \in Seq(ModeSet)
  BY <1>1 DEF Parsers
<1>3. r = [s EXCEPT !.stack = k]
  BY <1>1 DEF PushState
<1> QED BY <1>1, <1>2, <1>3 DEF Parsers

LEMMA PopFields ==
  ASSUME NEW W, NEW s \in Parsers(W), s.stack # << >>, NEW r, r = PopState(s)
  PROVE  /\ r \in Parsers(W) /\ r.pending = s.pending /\ r.error = s.error /\ r.start_lib = s.start_lib
         /\ r.modes = Last(s.stack) /\ r.stack = Front(s.stack) /\ r.specs = s.specs
         /\ r.unsupported = s.unsupported /\ r.list = s.list /\ r.on = s.on
         /\ r.single = s.single /\ r.given = s.given
<1>1. PICK k, l, m : k = s.stack /\ l = Front(k) /\ m = Last(k)
  OBVIOUS
<1>2. k \in Seq(ModeSet) /\ k # << >>
  BY <1>1 DEF Parsers
<1>3. l \in Seq(ModeSet) /\ m \in ModeSet
  BY <1>1, <1>2 DEF Front, Last
<1>4. r = [s EXCEPT !.modes = m, !.stack = l]
  BY <1>1 DEF PopState
<1> QED BY <1>1, <1>3, <1>4 DEF Parsers

LEMMA ReadFieldIs ==
  ASSUME NEW w, w # "", FieldsOf(w) # {}
  PROVE  \E f \in DOMAIN Settings : \E v \in BOOLEAN :
           (\A s : ReadField(s, w) = SetField(s, f, v)) /\ (w \in QuietWords => f \in QuietOn)
<1>1. PICK f : f = CHOOSE g \in FieldsOf(w) : TRUE
  OBVIOUS
<1>2. f \in FieldsOf(w)
  BY <1>1
<1>3. f \in DOMAIN Settings /\ (w \in QuietWords => f \in QuietOn)
  BY <1>2, FieldWords
<1>4. (Settings[f][1] = w) \in BOOLEAN /\ \A s : ReadField(s, w) = SetField(s, f, Settings[f][1] = w)
  BY <1>1 DEF ReadField
<1> QED BY <1>3, <1>4

UpdatesFine(W, s) ==
  /\ \A w \in W : Waiting(s, w) \in Parsers(W) /\ Waiting(s, w).pending = w
  /\ \A e \in Errors : Bail(s, e) \in Parsers(W) /\ Bail(s, e).pending = s.pending
  /\ \A f \in DOMAIN Settings : \A v \in BOOLEAN :
       SetField(s, f, v) \in Parsers(W) /\ SetField(s, f, v).pending = s.pending
  /\ \A w \in Modes : SetMode(s, w) \in Parsers(W) /\ SetMode(s, w).pending = s.pending
  /\ PushState(s) \in Parsers(W) /\ PushState(s).pending = s.pending
  /\ PopState(s) \in Parsers(W) /\ PopState(s).pending = s.pending
  /\ StartLib(s) \in Parsers(W) /\ StartLib(s).pending = s.pending
  /\ EndLib(s) \in Parsers(W) /\ EndLib(s).pending = s.pending
LEMMA UpdatesTyped ==
  ASSUME NEW W, NEW s \in Parsers(W)
  PROVE  UpdatesFine(W, s)
<1>1. \A w \in W : Waiting(s, w) \in Parsers(W) /\ Waiting(s, w).pending = w
  BY DEF Parsers, Waiting
<1>2. \A e \in Errors : Bail(s, e) \in Parsers(W) /\ Bail(s, e).pending = s.pending
  BY DEF Parsers, Bail
<1>3. ASSUME NEW f \in DOMAIN Settings, NEW v \in BOOLEAN
      PROVE  SetField(s, f, v) \in Parsers(W) /\ SetField(s, f, v).pending = s.pending
  <2>1. PICK r : r = SetField(s, f, v)
    OBVIOUS
  <2>2. /\ r \in Parsers(W)
        /\ r.modes = s.modes /\ r.start_lib = s.start_lib /\ r.stack = s.stack /\ r.specs = s.specs
        /\ r.error = s.error /\ r.unsupported = s.unsupported /\ r.list = s.list /\ r.pending = s.pending
        /\ r.single = s.single /\ r.given = s.given
        /\ \A g \in DOMAIN Settings \ QuietOn : r.on[g] = IF g = f THEN v ELSE s.on[g]
    BY <2>1, SetFieldFields
  <2> QED BY <2>1, <2>2
<1>4. ASSUME NEW w \in Modes
      PROVE  SetMode(s, w) \in Parsers(W) /\ SetMode(s, w).pending = s.pending
  <2>1. PICK r : r = SetMode(s, w)
    OBVIOUS
  <2>2. /\ r \in Parsers(W) /\ r.modes = ModeAfter(s.modes, w)
        /\ r.start_lib = s.start_lib /\ r.stack = s.stack /\ r.specs = s.specs
        /\ r.error = s.error /\ r.unsupported = s.unsupported /\ r.list = s.list /\ r.pending = s.pending
        /\ r.single = s.single /\ r.given = s.given
        /\ r.on = IF w = "-static" THEN [s.on EXCEPT !["pie"] = FALSE] ELSE s.on
    BY <2>1, SetModeFields
  <2> QED BY <2>1, <2>2
<1>5. PushState(s) \in Parsers(W) /\ PushState(s).pending = s.pending
  BY PushFields
<1>6. PopState(s) \in Parsers(W) /\ PopState(s).pending = s.pending
  <2>1. CASE s.stack = << >>
    <3>1. PopState(s) = Bail(s, "pop-state") /\ "pop-state" \in Errors
      BY <2>1 DEF PopState, Errors
    <3> QED BY <1>2, <3>1
  <2>2. CASE s.stack # << >>
    BY <2>2, PopFields
  <2> QED BY <2>1, <2>2
<1>7. StartLib(s) \in Parsers(W) /\ StartLib(s).pending = s.pending
  BY DEF StartLib, Bail, Parsers, Errors
<1>8. EndLib(s) \in Parsers(W) /\ EndLib(s).pending = s.pending
  BY DEF EndLib, Bail, Parsers, Errors
<1> QED BY <1>1, <1>2, <1>3, <1>4, <1>5, <1>6, <1>7, <1>8 DEF UpdatesFine

(* A flag by itself keeps the parser well formed, and waits for a value    *)
(* when it takes one.                                                      *)
FlagFine(W, s, w) ==
  /\ ReadFlag(s, w) \in Parsers(W)
  /\ w \in ValueFlags => ReadFlag(s, w).pending = w
  /\ w \notin ValueFlags => ReadFlag(s, w).pending = s.pending
LEMMA ReadFlagTyped ==
  ASSUME NEW W, IsWords(W), NEW s \in Parsers(W), NEW w, w # ""
  PROVE  FlagFine(W, s, w)
<1> USE DEF FlagFine
<1>0. UpdatesFine(W, s)
  BY UpdatesTyped
<1>1. CASE w \in ValueFlags
  <2>1. ReadFlag(s, w) = Waiting(s, w) /\ w \in W
    BY <1>1, ReadFlagCases DEF IsWords
  <2> QED BY <1>1, <2>1, <1>0 DEF UpdatesFine
<1>2. CASE FieldsOf(w) # {}
  <2>1. ReadFlag(s, w) = ReadField(s, w) /\ w \notin ValueFlags
    BY <1>2, ReadFlagCases
  <2>2. PICK f \in DOMAIN Settings, v \in BOOLEAN : ReadFlag(s, w) = SetField(s, f, v)
    BY <1>2, <2>1, ReadFieldIs
  <2> QED BY <2>1, <2>2, <1>0 DEF UpdatesFine
<1>3. CASE w \in Modes
  BY <1>3, ReadFlagCases, <1>0 DEF UpdatesFine
<1>4. CASE w \in OtherWords
  BY <1>4, ReadFlagCases, <1>0 DEF UpdatesFine, OtherWords
<1>5. CASE w \notin ValueFlags \cup Modes \cup OtherWords /\ FieldsOf(w) = {}
  BY <1>5, ReadFlagCases
<1> QED BY <1>1, <1>2, <1>3, <1>4, <1>5

LEMMA SameTrans ==
  ASSUME NEW a, NEW b, NEW c, Same(a, b), Same(b, c)
  PROVE  Same(a, c)
  BY Zenon DEF Same

LEMMA SameSym ==
  ASSUME NEW a, NEW b, Same(a, b)
  PROVE  Same(b, a)
  BY Zenon DEF Same

LEMMA WaitingSame ==
  ASSUME NEW W, NEW s \in Parsers(W), NEW w \in W
  PROVE  Same(Waiting(s, w), s)
<1>1. PICK r : r = Waiting(s, w)
  OBVIOUS
<1>2. /\ r.modes = s.modes /\ r.start_lib = s.start_lib /\ r.stack = s.stack /\ r.specs = s.specs
      /\ r.error = s.error /\ r.unsupported = s.unsupported /\ r.list = s.list /\ r.on = s.on
      /\ r.single = s.single /\ r.given = s.given
  BY <1>1 DEF Parsers, Waiting
<1>3. Same(r, s)
  BY <1>2, Zenon DEF Same
<1> QED BY <1>1, <1>3

LEMMA BailSame ==
  ASSUME NEW W, NEW a \in Parsers(W), NEW b \in Parsers(W), Same(a, b), NEW e
  PROVE  Same(Bail(a, e), Bail(b, e))
<1>1. PICK x, y : x = Bail(a, e) /\ y = Bail(b, e)
  OBVIOUS
<1>2. /\ x.modes = a.modes /\ x.start_lib = a.start_lib /\ x.stack = a.stack /\ x.specs = a.specs
      /\ x.error = e /\ x.unsupported = a.unsupported /\ x.list = a.list /\ x.on = a.on
      /\ x.single = a.single /\ x.given = a.given
  BY <1>1 DEF Parsers, Bail
<1>3. /\ y.modes = b.modes /\ y.start_lib = b.start_lib /\ y.stack = b.stack /\ y.specs = b.specs
      /\ y.error = e /\ y.unsupported = b.unsupported /\ y.list = b.list /\ y.on = b.on
      /\ y.single = b.single /\ y.given = b.given
  BY <1>1 DEF Parsers, Bail
<1>4. Same(x, y)
  BY <1>2, <1>3, Zenon DEF Same
<1> QED BY <1>1, <1>4

LEMMA InLibSame ==
  ASSUME NEW W, NEW a \in Parsers(W), NEW b \in Parsers(W), Same(a, b), NEW l \in BOOLEAN
  PROVE  Same([a EXCEPT !.start_lib = l], [b EXCEPT !.start_lib = l])
<1>1. PICK x, y : x = [a EXCEPT !.start_lib = l] /\ y = [b EXCEPT !.start_lib = l]
  OBVIOUS
<1>2. /\ x.modes = a.modes /\ x.start_lib = l /\ x.stack = a.stack /\ x.specs = a.specs
      /\ x.error = a.error /\ x.unsupported = a.unsupported /\ x.list = a.list /\ x.on = a.on
      /\ x.single = a.single /\ x.given = a.given
  BY <1>1 DEF Parsers
<1>3. /\ y.modes = b.modes /\ y.start_lib = l /\ y.stack = b.stack /\ y.specs = b.specs
      /\ y.error = b.error /\ y.unsupported = b.unsupported /\ y.list = b.list /\ y.on = b.on
      /\ y.single = b.single /\ y.given = b.given
  BY <1>1 DEF Parsers
<1>4. Same(x, y)
  BY <1>2, <1>3, Zenon DEF Same
<1> QED BY <1>1, <1>4

LEMMA PushSame ==
  ASSUME NEW W, NEW a \in Parsers(W), NEW b \in Parsers(W), Same(a, b)
  PROVE  Same(PushState(a), PushState(b))
<1>1. PICK x, y : x = PushState(a) /\ y = PushState(b)
  OBVIOUS
<1>2. /\ x.modes = a.modes /\ x.start_lib = a.start_lib /\ x.stack = Append(a.stack, a.modes) /\ x.specs = a.specs
      /\ x.error = a.error /\ x.unsupported = a.unsupported /\ x.list = a.list /\ x.on = a.on
      /\ x.single = a.single /\ x.given = a.given
  BY <1>1, PushFields
<1>3. /\ y.modes = b.modes /\ y.start_lib = b.start_lib /\ y.stack = Append(b.stack, b.modes) /\ y.specs = b.specs
      /\ y.error = b.error /\ y.unsupported = b.unsupported /\ y.list = b.list /\ y.on = b.on
      /\ y.single = b.single /\ y.given = b.given
  BY <1>1, PushFields
<1>4. Append(a.stack, a.modes) = Append(b.stack, b.modes)
  BY Zenon DEF Same
<1>5. Same(x, y)
  BY <1>2, <1>3, <1>4, Zenon DEF Same
<1> QED BY <1>1, <1>5

LEMMA PopSame ==
  ASSUME NEW W, NEW a \in Parsers(W), NEW b \in Parsers(W), Same(a, b)
  PROVE  Same(PopState(a), PopState(b))
<1>1. a.stack = b.stack
  BY Zenon DEF Same
<1>2. CASE a.stack = << >>
  <2>1. PopState(a) = Bail(a, "pop-state") /\ PopState(b) = Bail(b, "pop-state")
    BY <1>1, <1>2 DEF PopState
  <2>2. Same(Bail(a, "pop-state"), Bail(b, "pop-state"))
    BY BailSame
  <2> QED BY <2>1, <2>2
<1>3. CASE a.stack # << >>
  <2>1. PICK x, y : x = PopState(a) /\ y = PopState(b)
    OBVIOUS
  <2>2. b.stack # << >>
    BY <1>1, <1>3
  <2>3. /\ x.modes = Last(a.stack) /\ x.start_lib = a.start_lib /\ x.stack = Front(a.stack) /\ x.specs = a.specs
        /\ x.error = a.error /\ x.unsupported = a.unsupported /\ x.list = a.list /\ x.on = a.on
        /\ x.single = a.single /\ x.given = a.given
    BY <1>3, <2>1, PopFields
  <2>4. /\ y.modes = Last(b.stack) /\ y.start_lib = b.start_lib /\ y.stack = Front(b.stack) /\ y.specs = b.specs
        /\ y.error = b.error /\ y.unsupported = b.unsupported /\ y.list = b.list /\ y.on = b.on
        /\ y.single = b.single /\ y.given = b.given
    BY <2>1, <2>2, PopFields
  <2>5. Last(a.stack) = Last(b.stack) /\ Front(a.stack) = Front(b.stack)
    BY <1>1, Zenon
  <2>6. Same(x, y)
    BY <2>3, <2>4, <2>5, Zenon DEF Same
  <2> QED BY <2>1, <2>6
<1> QED BY <1>2, <1>3

LEMMA LibSame ==
  ASSUME NEW W, NEW a \in Parsers(W), NEW b \in Parsers(W), Same(a, b)
  PROVE  Same(StartLib(a), StartLib(b)) /\ Same(EndLib(a), EndLib(b))
<1>1. a.start_lib = b.start_lib /\ a.start_lib \in BOOLEAN
  BY DEF Same, Parsers
<1>2. Same(Bail(a, "start-lib"), Bail(b, "start-lib")) /\ Same(Bail(a, "end-lib"), Bail(b, "end-lib"))
  BY BailSame
<1>3. /\ Same([a EXCEPT !.start_lib = TRUE], [b EXCEPT !.start_lib = TRUE])
      /\ Same([a EXCEPT !.start_lib = FALSE], [b EXCEPT !.start_lib = FALSE])
  BY InLibSame
<1>4. CASE a.start_lib
  <2>1. b.start_lib
    BY <1>1, <1>4
  <2>2. StartLib(a) = Bail(a, "start-lib") /\ StartLib(b) = Bail(b, "start-lib")
    BY <1>4, <2>1, Zenon DEF StartLib
  <2>3. EndLib(a) = [a EXCEPT !.start_lib = FALSE] /\ EndLib(b) = [b EXCEPT !.start_lib = FALSE]
    BY <1>4, <2>1, Zenon DEF EndLib
  <2> QED BY <1>2, <1>3, <2>2, <2>3, Zenon
<1>5. CASE ~a.start_lib
  <2>1. ~b.start_lib
    BY <1>1, <1>5
  <2>2. EndLib(a) = Bail(a, "end-lib") /\ EndLib(b) = Bail(b, "end-lib")
    BY <1>5, <2>1, Zenon DEF EndLib
  <2>3. StartLib(a) = [a EXCEPT !.start_lib = TRUE] /\ StartLib(b) = [b EXCEPT !.start_lib = TRUE]
    BY <1>5, <2>1, Zenon DEF StartLib
  <2> QED BY <1>2, <1>3, <2>2, <2>3, Zenon
<1> QED BY <1>4, <1>5

(* A flag does the same to both.                                           *)
LEMMA ReadFlagSame ==
  ASSUME NEW W, IsWords(W), NEW a \in Parsers(W), NEW b \in Parsers(W), Same(a, b), NEW w, w # ""
  PROVE  Same(ReadFlag(a, w), ReadFlag(b, w))
<1>1. CASE w \in ValueFlags
  <2>1. ReadFlag(a, w) = Waiting(a, w) /\ ReadFlag(b, w) = Waiting(b, w) /\ w \in W
    BY <1>1, ReadFlagCases DEF IsWords
  <2>2. Same(Waiting(a, w), a) /\ Same(Waiting(b, w), b)
    BY <2>1, WaitingSame
  <2>3. Same(Waiting(a, w), b) /\ Same(b, Waiting(b, w))
    BY <2>2, SameTrans, SameSym
  <2> QED BY <2>1, <2>3, SameTrans
<1>2. CASE FieldsOf(w) # {}
  <2>1. ReadFlag(a, w) = ReadField(a, w) /\ ReadFlag(b, w) = ReadField(b, w)
    BY <1>2, ReadFlagCases
  <2>2. PICK f \in DOMAIN Settings, v \in BOOLEAN : \A s : ReadField(s, w) = SetField(s, f, v)
    BY <1>2, ReadFieldIs
  <2>3. Same(SetField(a, f, v), SetField(b, f, v))
    BY SetFieldSame
  <2>4. ReadFlag(a, w) = SetField(a, f, v) /\ ReadFlag(b, w) = SetField(b, f, v)
    BY <2>1, <2>2
  <2> QED BY <2>3, <2>4
<1>3. CASE w \in Modes
  <2>1. Same(SetMode(a, w), SetMode(b, w))
    BY <1>3, SetModeSame
  <2> QED BY <1>3, <2>1, ReadFlagCases
<1>4. CASE w \in OtherWords
  <2>1. /\ Same(PushState(a), PushState(b)) /\ Same(PopState(a), PopState(b))
        /\ Same(StartLib(a), StartLib(b)) /\ Same(EndLib(a), EndLib(b))
    BY PushSame, PopSame, LibSame
  <2> QED BY <1>4, <2>1, ReadFlagCases DEF OtherWords
<1>5. CASE w \notin ValueFlags \cup Modes \cup OtherWords /\ FieldsOf(w) = {}
  BY <1>5, ReadFlagCases
<1> QED BY <1>1, <1>2, <1>3, <1>4, <1>5

(* A diagnostic flag does nothing that counts.                             *)
LEMMA ReadFlagQuiet ==
  ASSUME NEW W, IsWords(W), NEW s \in Parsers(W), NEW w \in QuietWords
  PROVE  Same(ReadFlag(s, w), s) /\ w \notin ValueFlags
<1>1. w # "" /\ FieldsOf(w) # {}
  BY QuietFields DEF QuietWords
<1>2. ReadFlag(s, w) = ReadField(s, w) /\ w \notin ValueFlags
  BY <1>1, ReadFlagCases
<1>3. PICK f \in DOMAIN Settings, v \in BOOLEAN : ReadField(s, w) = SetField(s, f, v) /\ f \in QuietOn
  BY <1>1, ReadFieldIs
<1>4. Same(SetField(s, f, v), s)
  BY <1>3, SetFieldQuiet
<1> QED BY <1>2, <1>3, <1>4

-----------------------------------------------------------------------------
(* One argument.                                                           *)
IsArgs(W, T) == IsWords(W) /\ \A t \in T : IsArgument(t) /\ Text(t) \in W

LEMMA ArgumentShape ==
  ASSUME NEW t, IsArgument(t)
  PROVE  \/ Len(t) = 1 /\ t[1] # "" /\ t = <<t[1]>> /\ Text(t) = t[1]
         \/ Len(t) = 2 /\ t = <<t[1], t[2]>> /\ Text(t) = t[2]
<1>1. CASE t = <<t[1]>> /\ t[1] # ""
  <2>1. Len(<<t[1]>>) = 1
    OBVIOUS
  <2>2. Len(t) = 1
    BY <1>1, <2>1
  <2> QED BY <1>1, <2>2 DEF Text, Last
<1>2. CASE t = <<t[1], t[2]>>
  <2>1. Len(<<t[1], t[2]>>) = 2
    OBVIOUS
  <2>2. Len(t) = 2
    BY <1>2, <2>1
  <2> QED BY <1>2, <2>2 DEF Text, Last
<1> QED BY <1>1, <1>2 DEF IsArgument

LEMMA ParseArgCases ==
  ASSUME NEW s, NEW t
  PROVE  /\ s.error # "none" => ParseArg(s, t) = s
         /\ s.error = "none" /\ s.pending # "" => ParseArg(s, t) = Waiting(TakeValue(s, s.pending, Text(t)), "")
         /\ s.error = "none" /\ s.pending = "" /\ Len(t) = 1 => ParseArg(s, t) = ReadFlag(s, t[1])
         /\ s.error = "none" /\ s.pending = "" /\ Len(t) = 2 /\ t[1] = "" => ParseArg(s, t) = Spec1(s, "path", t[2])
         /\ s.error = "none" /\ s.pending = "" /\ Len(t) = 2 /\ t[1] # "" => ParseArg(s, t) = TakeValue(s, t[1], t[2])
<1>1. PICK v, f, p, x : /\ v = Waiting(TakeValue(s, s.pending, Text(t)), "") /\ f = ReadFlag(s, t[1])
                        /\ p = Spec1(s, "path", t[2]) /\ x = TakeValue(s, t[1], t[2])
  OBVIOUS
<1>2. PICK c : c = CASE Len(t) = 1 -> f [] Len(t) = 2 /\ t[1] = "" -> p [] OTHER -> x
  OBVIOUS
<1>3. ParseArg(s, t) = CASE s.error # "none" -> s [] s.error = "none" /\ s.pending # "" -> v [] OTHER -> c
  BY <1>1, <1>2, Zenon DEF ParseArg, Waiting
<1>4. /\ s.error # "none" => ParseArg(s, t) = s
      /\ s.error = "none" /\ s.pending # "" => ParseArg(s, t) = v
      /\ s.error = "none" /\ s.pending = "" => ParseArg(s, t) = c
  BY <1>3
<1>5. Len(t) = 1 => c = f
  BY <1>2
<1>6. Len(t) = 2 => Len(t) # 1
  OBVIOUS
<1>7. Len(t) # 1 => c = IF Len(t) = 2 /\ t[1] = "" THEN p ELSE x
  BY <1>2
<1>8. Len(t) = 2 => /\ t[1] = "" => c = p
                    /\ t[1] # "" => c = x
  BY <1>6, <1>7, Zenon
<1> QED BY <1>1, <1>4, <1>5, <1>8

LEMMA ParseArgTyped ==
  ASSUME NEW W, NEW T, IsArgs(W, T), NEW s \in Parsers(W), NEW t \in T
  PROVE  ParseArg(s, t) \in Parsers(W)
<1>1. IsArgument(t) /\ Text(t) \in W /\ "" \in W /\ IsWords(W)
  BY DEF IsArgs, IsWords
<1>2. CASE s.error # "none"
  BY <1>2, ParseArgCases
<1>3. CASE s.error = "none" /\ s.pending # ""
  <2>1. PICK r : r = TakeValue(s, s.pending, Text(t))
    OBVIOUS
  <2>2. r \in Parsers(W)
    BY <1>1, <2>1, TakeValueTyped
  <2>3. UpdatesFine(W, r)
    BY <2>2, UpdatesTyped
  <2>4. ParseArg(s, t) = Waiting(r, "")
    BY <1>3, <2>1, ParseArgCases
  <2> QED BY <1>1, <2>3, <2>4 DEF UpdatesFine
<1>4. CASE s.error = "none" /\ s.pending = ""
  <2>1. CASE Len(t) = 1 /\ t[1] # ""
    <3>1. PICK w : w = t[1]
      OBVIOUS
    <3>2. FlagFine(W, s, w)
      BY <1>1, <2>1, <3>1, ReadFlagTyped
    <3>3. ParseArg(s, t) = ReadFlag(s, w)
      BY <1>4, <2>1, <3>1, ParseArgCases
    <3> QED BY <3>2, <3>3 DEF FlagFine
  <2>2. CASE Len(t) = 2 /\ Text(t) = t[2]
    <3>1. PICK v, w, x : v = t[2] /\ w = t[1] /\ x = Spec1(s, "path", v)
      OBVIOUS
    <3>2. v \in W
      BY <1>1, <2>2, <3>1
    <3>3. x \in Parsers(W)
      BY <3>1, <3>2, Spec1Fields
    <3>4. TakeValue(s, w, v) \in Parsers(W)
      BY <3>2, TakeValueTyped
    <3> QED BY <1>4, <2>2, <3>1, <3>3, <3>4, ParseArgCases
  <2> QED BY <1>1, <2>1, <2>2, ArgumentShape
<1> QED BY <1>2, <1>3, <1>4

(* An error stays.                                                         *)
LEMMA ErrorStays ==
  ASSUME NEW s, NEW t, ParseArg(s, t).error = "none"
  PROVE  s.error = "none"
  BY ParseArgCases

(* One argument does the same to two parsers that are the same.            *)
LEMMA ParseArgSame ==
  ASSUME NEW W, NEW T, IsArgs(W, T), NEW a \in Parsers(W), NEW b \in Parsers(W), Same(a, b),
         a.pending = b.pending, NEW t \in T
  PROVE  Same(ParseArg(a, t), ParseArg(b, t)) /\ ParseArg(a, t).pending = ParseArg(b, t).pending
<1>1. IsArgument(t) /\ Text(t) \in W /\ "" \in W /\ IsWords(W)
  BY DEF IsArgs, IsWords
<1>2. a.error = b.error
  BY Zenon DEF Same
<1>3. CASE a.error # "none"
  BY <1>2, <1>3, ParseArgCases
<1>4. CASE a.error = "none" /\ a.pending # ""
  <2>1. PICK x, y : x = TakeValue(a, a.pending, Text(t)) /\ y = TakeValue(b, b.pending, Text(t))
    OBVIOUS
  <2>2. x \in Parsers(W) /\ y \in Parsers(W)
    BY <1>1, <2>1, TakeValueTyped
  <2>3. Same(x, y)
    BY <1>1, <2>1, TakeValueSame
  <2>4. Same(Waiting(x, ""), x) /\ Same(Waiting(y, ""), y)
    BY <1>1, <2>2, WaitingSame
  <2>5. Same(Waiting(x, ""), y) /\ Same(y, Waiting(y, ""))
    BY <2>3, <2>4, SameTrans, SameSym
  <2>6. Same(Waiting(x, ""), Waiting(y, ""))
    BY <2>5, SameTrans
  <2>7. UpdatesFine(W, x) /\ UpdatesFine(W, y)
    BY <2>2, UpdatesTyped
  <2>8. Waiting(x, "").pending = "" /\ Waiting(y, "").pending = ""
    BY <1>1, <2>7 DEF UpdatesFine
  <2>9. ParseArg(a, t) = Waiting(x, "") /\ ParseArg(b, t) = Waiting(y, "")
    BY <1>2, <1>4, <2>1, ParseArgCases
  <2> QED BY <2>6, <2>8, <2>9
<1>5. CASE a.error = "none" /\ a.pending = ""
  <2>1. CASE Len(t) = 1 /\ t[1] # ""
    <3>1. ParseArg(a, t) = ReadFlag(a, t[1]) /\ ParseArg(b, t) = ReadFlag(b, t[1])
      BY <1>2, <1>5, <2>1, ParseArgCases
    <3>2. Same(ReadFlag(a, t[1]), ReadFlag(b, t[1]))
      BY <1>1, <2>1, ReadFlagSame
    <3>3. PICK w : w = t[1]
      OBVIOUS
    <3>4. FlagFine(W, a, w) /\ FlagFine(W, b, w)
      BY <1>1, <2>1, <3>3, ReadFlagTyped
    <3>5. ReadFlag(a, w).pending = ReadFlag(b, w).pending
      BY <3>4 DEF FlagFine
    <3> QED BY <3>1, <3>2, <3>3, <3>5
  <2>2. CASE Len(t) = 2 /\ Text(t) = t[2]
    <3>1. PICK v, w : v = t[2] /\ w = t[1]
      OBVIOUS
    <3>2. v \in W
      BY <1>1, <2>2, <3>1
    <3>3. Same(Spec1(a, "path", v), Spec1(b, "path", v)) /\ Same(TakeValue(a, w, v), TakeValue(b, w, v))
      BY <3>2, Spec1Same, TakeValueSame
    <3>4. PICK x, y : x = Spec1(a, "path", v) /\ y = Spec1(b, "path", v)
      OBVIOUS
    <3>5. x.pending = a.pending /\ y.pending = b.pending
      BY <3>4 DEF Spec1, Parsers
    <3>6. TakeValue(a, w, v).pending = a.pending /\ TakeValue(b, w, v).pending = b.pending
      BY <3>2, TakeValueTyped
    <3>7. CASE t[1] = ""
      <4>1. ParseArg(a, t) = x /\ ParseArg(b, t) = y
        BY <1>2, <1>5, <2>2, <3>1, <3>4, <3>7, ParseArgCases
      <4> QED BY <3>3, <3>4, <3>5, <4>1
    <3>8. CASE t[1] # ""
      <4>1. ParseArg(a, t) = TakeValue(a, w, v) /\ ParseArg(b, t) = TakeValue(b, w, v)
        BY <1>2, <1>5, <2>2, <3>1, <3>8, ParseArgCases
      <4> QED BY <3>3, <3>6, <4>1
    <3> QED BY <3>7, <3>8
  <2> QED BY <1>1, <2>1, <2>2, ArgumentShape
<1> QED BY <1>3, <1>4, <1>5

-----------------------------------------------------------------------------
(* All arguments.                                                          *)
Reads(W, args, f) ==
  /\ f \in [0..Len(args) -> Parsers(W)] /\ f[0] = Start
  /\ \A n \in 1..Len(args) : f[n] = ParseArg(f[n - 1], args[n])

LEMMA ReadUpToReads ==
  ASSUME NEW W, NEW T, IsArgs(W, T), NEW args \in Seq(T)
  PROVE  Reads(W, args, ReadUpTo(args))
<1> DEFINE Rec(g) == g = [k \in 0..Len(args) |-> IF k = 0 THEN Start ELSE ParseArg(g[k - 1], args[k])]
<1>1. Len(args) \in Nat /\ \A n \in 1..Len(args) : args[n] \in T
  OBVIOUS
<1>2. Start \in Parsers(W)
  BY StartTyped DEF IsArgs
<1>3. \E g : Rec(g)
  <2> DEFINE step == [n \in 1..Len(args) |-> [x \in Parsers(W) |-> ParseArg(x, args[n])]]
  <2>1. ASSUME NEW n \in 1..Len(args), NEW x \in Parsers(W)
        PROVE  step[n][x] = ParseArg(x, args[n]) /\ step[n][x] \in Parsers(W)
    <3>1. ParseArg(x, args[n]) \in Parsers(W)
      BY <1>1, ParseArgTyped
    <3> QED BY <3>1
  <2> HIDE DEF step
  <2>2. Closed(Len(args), Parsers(W), step)
    BY <2>1 DEF Closed
  <2>3. PICK f : IsRun(Len(args), Parsers(W), Start, step, f)
    BY <1>1, <1>2, <2>2, StepsExist
  <2>4. f \in [0..Len(args) -> Parsers(W)] /\ f[0] = Start /\ \A n \in 1..Len(args) : f[n] = step[n][f[n - 1]]
    BY <2>3 DEF IsRun
  <2>5. ASSUME NEW n \in 1..Len(args) PROVE f[n] = ParseArg(f[n - 1], args[n])
    <3>1. f[n - 1] \in Parsers(W)
      BY <1>1, <2>4
    <3> QED BY <2>1, <2>4, <3>1
  <2>6. \A n \in 0..Len(args) : f[n] = IF n = 0 THEN Start ELSE ParseArg(f[n - 1], args[n])
    BY <1>1, <2>4, <2>5
  <2>7. Rec(f)
    BY <2>4, <2>6
  <2> QED BY <2>7
<1>4. PICK f : Rec(f) /\ ReadUpTo(args) = f
  <2>1. ReadUpTo(args) = CHOOSE g : Rec(g)
    BY Zenon DEF ReadUpTo
  <2> HIDE DEF Rec
  <2> QED BY <1>3, <2>1
<1>5. DOMAIN f = 0..Len(args) /\ f[0] = Start /\ \A n \in 1..Len(args) : f[n] = ParseArg(f[n - 1], args[n])
  BY <1>1, <1>4
<1> HIDE DEF Rec
<1>6. \A n \in 0..Len(args) : f[n] \in Parsers(W)
  <2> DEFINE G == {n \in 0..Len(args) : f[n] \in Parsers(W)}
  <2>1. 0 \in G
    BY <1>1, <1>2, <1>5
  <2>2. ASSUME NEW n \in 1..Len(args), n - 1 \in G PROVE n \in G
    <3>1. ParseArg(f[n - 1], args[n]) \in Parsers(W)
      BY <1>1, <2>2, ParseArgTyped
    <3> QED BY <1>1, <1>5, <3>1
  <2>3. \A n \in 0..Len(args) : n \in G
    <3> HIDE DEF G
    <3> QED BY <1>1, <2>1, <2>2, UpTo
  <2> QED BY <2>3
<1>7. f = [n \in 0..Len(args) |-> f[n]]
  <2>1. f = [k \in 0..Len(args) |-> IF k = 0 THEN Start ELSE ParseArg(f[k - 1], args[k])]
    BY <1>4 DEF Rec
  <2> QED BY <2>1
<1>8. f \in [0..Len(args) -> Parsers(W)]
  BY <1>6, <1>7
<1> QED BY <1>4, <1>5, <1>8 DEF Reads

(* What is read up to an argument does not depend on those after it.       *)
LEMMA ReadAppend ==
  ASSUME NEW W, NEW T, IsArgs(W, T), NEW args \in Seq(T), NEW t \in T
  PROVE  ReadUpTo(Append(args, t))[Len(args) + 1] = ParseArg(ReadUpTo(args)[Len(args)], t)
<1>1. PICK more, f, g, N : /\ more = Append(args, t) /\ f = ReadUpTo(args) /\ g = ReadUpTo(more)
                           /\ N = Len(args)
  OBVIOUS
<1>2. /\ N \in Nat /\ more \in Seq(T) /\ Len(more) = N + 1 /\ more[N + 1] = t
      /\ \A n \in 1..N : more[n] = args[n]
  BY <1>1
<1>3. Reads(W, args, f) /\ Reads(W, more, g)
  BY <1>1, <1>2, ReadUpToReads
<1>4. /\ f[0] = Start /\ \A n \in 1..N : f[n] = ParseArg(f[n - 1], args[n])
      /\ g[0] = Start /\ \A n \in 1..N + 1 : g[n] = ParseArg(g[n - 1], more[n])
  BY <1>1, <1>2, <1>3 DEF Reads
<1> DEFINE G == {n \in 0..N : f[n] = g[n]}
<1>5. \A n \in 0..N : n \in G
  <2>1. 0 \in G
    BY <1>2, <1>4
  <2>2. ASSUME NEW n \in 1..N, n - 1 \in G PROVE n \in G
    <3>1. f[n] = ParseArg(f[n - 1], args[n]) /\ g[n] = ParseArg(g[n - 1], more[n]) /\ more[n] = args[n]
      BY <1>2, <1>4
    <3> QED BY <1>2, <2>2, <3>1
  <2> HIDE DEF G
  <2> QED BY <1>2, <2>1, <2>2, UpTo
<1>6. f[N] = g[N]
  BY <1>2, <1>5
<1>7. g[N + 1] = ParseArg(g[(N + 1) - 1], more[N + 1]) /\ (N + 1) - 1 = N
  BY <1>2, <1>4
<1> QED BY <1>1, <1>2, <1>6, <1>7

(* The key.                                                                *)
KeySet(T) == [skip : BOOLEAN, out : Seq(T)]
KeyStart == [skip |-> FALSE, out |-> << >>]
KeyFine(T, r, t, q) ==
  /\ q \in KeySet(T)
  /\ r.skip => ~q.skip /\ q.out = r.out
  /\ ~r.skip /\ t \in Diagnostics => ~q.skip /\ q.out = r.out
  /\ ~r.skip /\ t \notin Diagnostics /\ t[1] \in Scheduling => (q.skip <=> Len(t) = 1) /\ q.out = r.out
  /\ ~r.skip /\ t \notin Diagnostics /\ t[1] \notin Scheduling => ~q.skip /\ q.out = Append(r.out, t)
LEMMA KeyArgCases ==
  ASSUME NEW T, NEW r \in KeySet(T), NEW t \in T, NEW q, q = KeyArg(r, t)
  PROVE  KeyFine(T, r, t, q)
<1> USE DEF KeyFine
<1>1. CASE r.skip
  <2>1. q = [r EXCEPT !.skip = FALSE]
    BY <1>1, Zenon DEF KeyArg
  <2> QED BY <1>1, <2>1 DEF KeySet
<1>2. CASE ~r.skip
  <2>1. CASE t \in Diagnostics /\ t[1] \notin Scheduling
    <3>1. q = r
      BY <1>2, <2>1 DEF KeyArg
    <3> QED BY <1>2, <2>1, <3>1 DEF KeySet
  <2>2. CASE t \notin Diagnostics /\ t[1] \in Scheduling
    <3>1. q = [r EXCEPT !.skip = Len(t) = 1]
      BY <1>2, <2>2 DEF KeyArg
    <3> QED BY <1>2, <2>2, <3>1 DEF KeySet
  <2>3. CASE t \notin Diagnostics /\ t[1] \notin Scheduling
    <3>1. q = [r EXCEPT !.out = Append(@, t)]
      BY <1>2, <2>3 DEF KeyArg
    <3> QED BY <1>2, <2>3, <3>1 DEF KeySet
  <2>4. t \in Diagnostics => t[1] \notin Scheduling
    BY DEF Diagnostics, Scheduling
  <2> QED BY <2>1, <2>2, <2>3, <2>4
<1> QED BY <1>1, <1>2

LEMMA KeyArgFine ==
  ASSUME NEW T, NEW r \in KeySet(T), NEW t \in T
  PROVE  KeyFine(T, r, t, KeyArg(r, t))
<1>1. PICK q : q = KeyArg(r, t)
  OBVIOUS
<1>2. KeyFine(T, r, t, q)
  BY <1>1, KeyArgCases
<1> QED BY <1>1, <1>2

Keys(T, args, f) ==
  /\ f \in [0..Len(args) -> KeySet(T)] /\ f[0] = KeyStart
  /\ \A n \in 1..Len(args) : f[n] = KeyArg(f[n - 1], args[n])

LEMMA KeyUpToKeys ==
  ASSUME NEW T, NEW args \in Seq(T)
  PROVE  Keys(T, args, KeyUpTo(args))
<1> DEFINE Rec(g) == g = [k \in 0..Len(args) |-> IF k = 0 THEN KeyStart ELSE KeyArg(g[k - 1], args[k])]
<1>1. Len(args) \in Nat /\ \A n \in 1..Len(args) : args[n] \in T
  OBVIOUS
<1>2. KeyStart \in KeySet(T)
  BY EmptyIsSeq DEF KeyStart, KeySet
<1>3. ASSUME NEW x \in KeySet(T), NEW t \in T PROVE KeyArg(x, t) \in KeySet(T)
  <2>1. KeyFine(T, x, t, KeyArg(x, t))
    BY KeyArgFine
  <2> QED BY <2>1 DEF KeyFine
<1>4. \E g : Rec(g)
  <2> DEFINE step == [n \in 1..Len(args) |-> [x \in KeySet(T) |-> KeyArg(x, args[n])]]
  <2>1. ASSUME NEW n \in 1..Len(args), NEW x \in KeySet(T)
        PROVE  step[n][x] = KeyArg(x, args[n]) /\ step[n][x] \in KeySet(T)
    <3>1. KeyArg(x, args[n]) \in KeySet(T)
      BY <1>1, <1>3
    <3> QED BY <3>1
  <2> HIDE DEF step
  <2>2. Closed(Len(args), KeySet(T), step)
    BY <2>1 DEF Closed
  <2>3. PICK f : IsRun(Len(args), KeySet(T), KeyStart, step, f)
    BY <1>1, <1>2, <2>2, StepsExist
  <2>4. f \in [0..Len(args) -> KeySet(T)] /\ f[0] = KeyStart /\ \A n \in 1..Len(args) : f[n] = step[n][f[n - 1]]
    BY <2>3 DEF IsRun
  <2>5. ASSUME NEW n \in 1..Len(args) PROVE f[n] = KeyArg(f[n - 1], args[n])
    <3>1. f[n - 1] \in KeySet(T)
      BY <1>1, <2>4
    <3> QED BY <2>1, <2>4, <3>1
  <2>6. \A n \in 0..Len(args) : f[n] = IF n = 0 THEN KeyStart ELSE KeyArg(f[n - 1], args[n])
    BY <1>1, <2>4, <2>5
  <2>7. Rec(f)
    BY <2>4, <2>6
  <2> QED BY <2>7
<1>5. PICK f : Rec(f) /\ KeyUpTo(args) = f
  <2>1. KeyUpTo(args) = CHOOSE g : Rec(g)
    BY Zenon DEF KeyUpTo, KeyStart
  <2> HIDE DEF Rec
  <2> QED BY <1>4, <2>1
<1>6. DOMAIN f = 0..Len(args) /\ f[0] = KeyStart /\ \A n \in 1..Len(args) : f[n] = KeyArg(f[n - 1], args[n])
  BY <1>1, <1>5
<1> HIDE DEF Rec
<1>7. \A n \in 0..Len(args) : f[n] \in KeySet(T)
  <2> DEFINE G == {n \in 0..Len(args) : f[n] \in KeySet(T)}
  <2>1. 0 \in G
    BY <1>1, <1>2, <1>6
  <2>2. ASSUME NEW n \in 1..Len(args), n - 1 \in G PROVE n \in G
    <3>1. KeyArg(f[n - 1], args[n]) \in KeySet(T)
      BY <1>1, <1>3, <2>2
    <3> QED BY <1>1, <1>6, <3>1
  <2>3. \A n \in 0..Len(args) : n \in G
    <3> HIDE DEF G
    <3> QED BY <1>1, <2>1, <2>2, UpTo
  <2> QED BY <2>3
<1>8. f = [n \in 0..Len(args) |-> f[n]]
  <2>1. f = [k \in 0..Len(args) |-> IF k = 0 THEN KeyStart ELSE KeyArg(f[k - 1], args[k])]
    BY <1>5 DEF Rec
  <2> QED BY <2>1
<1>9. f \in [0..Len(args) -> KeySet(T)]
  BY <1>7, <1>8
<1> QED BY <1>5, <1>6, <1>9 DEF Keys
-----------------------------------------------------------------------------
(* Reading the command line and reading its key, in step: a is the parser  *)
(* of the command line, r the key so far, b the parser of the key, and t   *)
(* the argument read last.                                                 *)
InStep(W, T, a, r, b) ==
  /\ a \in Parsers(W) /\ r \in KeySet(T) /\ b \in Parsers(W) /\ Same(a, b)
  /\ (r.skip <=> a.pending \in Scheduling)
  /\ b.pending = IF a.pending \in Scheduling THEN "" ELSE a.pending
Awaited(a, args, n) == a.pending # "" => n # 0 /\ TakesValue(args[n])

LEMMA EmptyNotScheduling == "" \notin Scheduling
  BY DEF Scheduling

(* A value is read.                                                        *)
LEMMA ValueRead ==
  ASSUME NEW W, NEW T, IsArgs(W, T), NEW a \in Parsers(W), NEW t \in T, a.error = "none", a.pending # ""
  PROVE  /\ ParseArg(a, t) = Waiting(TakeValue(a, a.pending, Text(t)), "")
         /\ ParseArg(a, t).pending = "" /\ ParseArg(a, t) \in Parsers(W)
         /\ Same(ParseArg(a, t), TakeValue(a, a.pending, Text(t)))
<1>1. IsArgument(t) /\ Text(t) \in W /\ "" \in W /\ IsWords(W)
  BY DEF IsArgs, IsWords
<1>2. PICK x : x = TakeValue(a, a.pending, Text(t))
  OBVIOUS
<1>3. x \in Parsers(W)
  BY <1>1, <1>2, TakeValueTyped
<1>4. UpdatesFine(W, x) /\ Same(Waiting(x, ""), x)
  BY <1>1, <1>3, UpdatesTyped, WaitingSame
<1>5. ParseArg(a, t) = Waiting(x, "")
  BY <1>2, ParseArgCases
<1>6. Waiting(x, "").pending = "" /\ Waiting(x, "") \in Parsers(W)
  BY <1>1, <1>4 DEF UpdatesFine
<1> QED BY <1>2, <1>4, <1>5, <1>6

(* One argument later, with b the parser of the key and o the key.         *)
Stepped(W, T, a, r, t, b, o) == InStep(W, T, ParseArg(a, t), KeyArg(r, t), b) /\ KeyArg(r, t).out = o

(* The value of a flag that the key leaves out.                            *)
LEMMA StepSkipped ==
  ASSUME NEW W, NEW T, IsArgs(W, T), NEW a, NEW r, NEW b, InStep(W, T, a, r, b), a.error = "none",
         NEW t \in T, a.pending \in Scheduling
  PROVE  Stepped(W, T, a, r, t, b, r.out)
<1>1. a \in Parsers(W) /\ r \in KeySet(T) /\ b \in Parsers(W) /\ Same(a, b) /\ r.skip /\ b.pending = ""
  BY DEF InStep
<1>2. a.pending # ""
  BY EmptyNotScheduling
<1>3. PICK c, q, v : c = ParseArg(a, t) /\ q = KeyArg(r, t) /\ v = Text(t)
  OBVIOUS
<1>4. c.pending = "" /\ c \in Parsers(W) /\ Same(c, TakeValue(a, a.pending, v))
  BY <1>1, <1>2, <1>3, ValueRead
<1>5. v \in W
  BY <1>3 DEF IsArgs
<1>6. Same(TakeValue(a, a.pending, v), a)
  BY <1>1, <1>5, TakeValueQuiet
<1>7. Same(c, b)
  BY <1>1, <1>4, <1>6, SameTrans
<1>8. KeyFine(T, r, t, q)
  BY <1>1, <1>3, KeyArgFine
<1>9. q \in KeySet(T) /\ ~q.skip /\ q.out = r.out
  BY <1>1, <1>8 DEF KeyFine
<1>10. InStep(W, T, c, q, b)
  BY <1>1, <1>4, <1>7, <1>9, EmptyNotScheduling DEF InStep
<1> QED BY <1>3, <1>9, <1>10 DEF Stepped

LEMMA TwoNotOne == ASSUME NEW n, n = 2 PROVE n # 1
  OBVIOUS

(* Which flag waits after an argument.                                     *)
PendingAfter(a, t, c) ==
  /\ c.pending # "" => a.pending = "" /\ Len(t) = 1 /\ t[1] \in ValueFlags /\ c.pending = t[1]
  /\ a.pending = "" /\ Len(t) = 1 /\ t[1] \in ValueFlags => c.pending = t[1]
LEMMA WhichWaits ==
  ASSUME NEW W, NEW T, IsArgs(W, T), NEW a \in Parsers(W), NEW t \in T, a.error = "none"
  PROVE  PendingAfter(a, t, ParseArg(a, t))
<1>1. IsArgument(t) /\ Text(t) \in W /\ IsWords(W)
  BY DEF IsArgs
<1>2. PICK c : c = ParseArg(a, t)
  OBVIOUS
<1>3. CASE a.pending # ""
  <2>1. c.pending = ""
    BY <1>2, <1>3, ValueRead
  <2> QED BY <1>2, <1>3, <2>1 DEF PendingAfter
<1>4. CASE a.pending = ""
  <2>1. CASE Len(t) = 1 /\ t[1] # ""
    <3>1. PICK w : w = t[1]
      OBVIOUS
    <3>2. FlagFine(W, a, w)
      BY <1>1, <2>1, <3>1, ReadFlagTyped
    <3>3. c = ReadFlag(a, w)
      BY <1>2, <1>4, <2>1, <3>1, ParseArgCases
    <3>4. (w \in ValueFlags => c.pending = w) /\ (w \notin ValueFlags => c.pending = "")
      BY <1>4, <3>2, <3>3 DEF FlagFine
    <3>5. PendingAfter(a, t, c)
      BY <1>4, <2>1, <3>1, <3>4 DEF PendingAfter
    <3> QED BY <1>2, <3>5
  <2>2. CASE Len(t) = 2 /\ Text(t) = t[2]
    <3>1. PICK v, w, x, y : v = t[2] /\ w = t[1] /\ x = Spec1(a, "path", v) /\ y = TakeValue(a, w, v)
      OBVIOUS
    <3>2. v \in W
      BY <1>1, <2>2, <3>1
    <3>3. x.pending = ""
      BY <1>4, <3>1 DEF Spec1, Parsers
    <3>4. TakeValue(a, w, v).pending = a.pending
      BY <3>2, TakeValueTyped
    <3>5. c = x \/ c = y
      BY <1>2, <1>4, <2>2, <3>1, ParseArgCases
    <3>6. c.pending = ""
      BY <1>4, <3>1, <3>3, <3>4, <3>5
    <3>7. Len(t) # 1
      BY <2>2, TwoNotOne
    <3>8. PendingAfter(a, t, c)
      BY <3>6, <3>7 DEF PendingAfter
    <3> QED BY <1>2, <3>8
  <2> QED BY <1>1, <2>1, <2>2, ArgumentShape
<1> QED BY <1>3, <1>4

(* An argument that the key keeps.                                         *)
LEMMA StepKept ==
  ASSUME NEW W, NEW T, IsArgs(W, T), NEW a, NEW r, NEW b, InStep(W, T, a, r, b), a.error = "none",
         NEW t \in T, a.pending \notin Scheduling, t \notin Diagnostics, t[1] \notin Scheduling
  PROVE  Stepped(W, T, a, r, t, ParseArg(b, t), Append(r.out, t))
<1>1. a \in Parsers(W) /\ r \in KeySet(T) /\ b \in Parsers(W) /\ Same(a, b) /\ ~r.skip /\ b.pending = a.pending
  BY DEF InStep
<1>2. PICK c, q, d : c = ParseArg(a, t) /\ q = KeyArg(r, t) /\ d = ParseArg(b, t)
  OBVIOUS
<1>3. c \in Parsers(W) /\ d \in Parsers(W)
  BY <1>1, <1>2, ParseArgTyped
<1>4. Same(c, d) /\ c.pending = d.pending
  BY <1>1, <1>2, ParseArgSame
<1>5. PendingAfter(a, t, c)
  BY <1>1, <1>2, WhichWaits
<1>6. c.pending \notin Scheduling
  BY <1>5, EmptyNotScheduling DEF PendingAfter
<1>7. KeyFine(T, r, t, q)
  BY <1>1, <1>2, KeyArgFine
<1>8. q \in KeySet(T) /\ ~q.skip /\ q.out = Append(r.out, t)
  BY <1>1, <1>7 DEF KeyFine
<1>9. InStep(W, T, c, q, d)
  BY <1>3, <1>4, <1>6, <1>8 DEF InStep
<1> QED BY <1>2, <1>8, <1>9 DEF Stepped

LEMMA DiagnosticsAre ==
  ASSUME NEW t \in Diagnostics
  PROVE  Len(t) = 1 /\ t[1] \in QuietWords /\ t[1] # "" /\ t[1] \notin Scheduling
<1>1. PICK w \in QuietWords : t = <<w>>
  BY DEF Diagnostics, QuietWords
<1>2. Len(t) = 1 /\ t[1] = w
  BY <1>1
<1>3. w # "" /\ w \notin Scheduling
  BY DEF QuietWords, Scheduling
<1> QED BY <1>2, <1>3

LEMMA SchedulingTakesValue == Scheduling \subseteq ValueFlags
  BY ValueWords DEF Scheduling

(* A flag that the key leaves out.                                         *)
LEMMA StepDropped ==
  ASSUME NEW W, NEW T, IsArgs(W, T), NEW a, NEW r, NEW b, InStep(W, T, a, r, b), a.error = "none",
         NEW t \in T, a.pending = "", t \in Diagnostics \/ t[1] \in Scheduling
  PROVE  Stepped(W, T, a, r, t, b, r.out)
<1>1. a \in Parsers(W) /\ r \in KeySet(T) /\ b \in Parsers(W) /\ Same(a, b) /\ ~r.skip /\ b.pending = ""
  BY EmptyNotScheduling DEF InStep
<1>2. PICK c, q, w : c = ParseArg(a, t) /\ q = KeyArg(r, t) /\ w = t[1]
  OBVIOUS
<1>3. c \in Parsers(W)
  BY <1>1, <1>2, ParseArgTyped
<1>4. IsArgument(t) /\ Text(t) \in W /\ IsWords(W)
  BY DEF IsArgs
<1>5. KeyFine(T, r, t, q)
  BY <1>1, <1>2, KeyArgFine
<1>6. PendingAfter(a, t, c)
  BY <1>1, <1>2, WhichWaits
<1>7. CASE t \in Diagnostics
  <2>1. Len(t) = 1 /\ w \in QuietWords /\ w # "" /\ w \notin Scheduling
    BY <1>2, <1>7, DiagnosticsAre
  <2>2. c = ReadFlag(a, w)
    BY <1>2, <2>1, ParseArgCases
  <2>3. Same(ReadFlag(a, w), a) /\ w \notin ValueFlags
    BY <1>1, <1>4, <2>1, ReadFlagQuiet
  <2>4. Same(c, b)
    BY <1>1, <2>2, <2>3, SameTrans
  <2>5. c.pending = ""
    BY <1>2, <1>6, <2>3 DEF PendingAfter
  <2>6. q \in KeySet(T) /\ ~q.skip /\ q.out = r.out
    BY <1>1, <1>5, <1>7 DEF KeyFine
  <2>7. InStep(W, T, c, q, b)
    BY <1>1, <1>3, <2>4, <2>5, <2>6, EmptyNotScheduling DEF InStep
  <2> QED BY <1>2, <2>6, <2>7 DEF Stepped
<1>8. CASE t \notin Diagnostics /\ w \in Scheduling
  <2>1. q \in KeySet(T) /\ (q.skip <=> Len(t) = 1) /\ q.out = r.out
    BY <1>1, <1>2, <1>5, <1>8 DEF KeyFine
  <2>2. w \in ValueFlags /\ w # "" /\ w \in W
    BY <1>4, <1>8, SchedulingTakesValue, EmptyNotScheduling DEF IsWords
  <2>3. CASE Len(t) = 1
    <3>0. c = ReadFlag(a, w)
      BY <1>2, <2>3, ParseArgCases
    <3>1. c = Waiting(a, w)
      BY <2>2, <3>0, ReadFlagCases
    <3>2. Same(c, a)
      BY <1>1, <2>2, <3>1, WaitingSame
    <3>3. Same(c, b)
      BY <1>1, <3>2, SameTrans
    <3>4. c.pending = w
      BY <1>2, <1>6, <2>2, <2>3 DEF PendingAfter
    <3>5. InStep(W, T, c, q, b)
      BY <1>1, <1>3, <1>8, <2>1, <2>3, <3>3, <3>4 DEF InStep
    <3> QED BY <1>2, <2>1, <3>5 DEF Stepped
  <2>4. CASE Len(t) = 2 /\ Text(t) = t[2]
    <3>1. PICK v : v = t[2]
      OBVIOUS
    <3>2. v \in W
      BY <1>4, <2>4, <3>1
    <3>3. c = TakeValue(a, w, v)
      BY <1>2, <2>2, <2>4, <3>1, ParseArgCases
    <3>4. Same(c, a)
      BY <1>1, <1>8, <3>2, <3>3, TakeValueQuiet
    <3>5. Same(c, b)
      BY <1>1, <3>4, SameTrans
    <3>6. Len(t) # 1
      BY <2>4, TwoNotOne
    <3>7. c.pending = ""
      BY <1>6, <3>6 DEF PendingAfter
    <3>8. InStep(W, T, c, q, b)
      BY <1>1, <1>3, <2>1, <3>5, <3>6, <3>7, EmptyNotScheduling DEF InStep
    <3> QED BY <1>2, <2>1, <3>8 DEF Stepped
  <2> QED BY <1>4, <2>3, <2>4, ArgumentShape
<1> QED BY <1>2, <1>7, <1>8

ReadAll(args) == ReadUpTo(args)[Len(args)]

LEMMA StartFields ==
  Start.pending = "" /\ Start.error = "none"
  BY DEF Start

LEMMA ReadNone ==
  ASSUME NEW W, NEW T, IsArgs(W, T)
  PROVE  ReadAll(<< >>) = Start
<1>1. << >> \in Seq(T) /\ Len(<< >>) = 0
  BY EmptyIsSeq
<1>2. Reads(W, << >>, ReadUpTo(<< >>))
  BY <1>1, ReadUpToReads
<1> QED BY <1>1, <1>2 DEF Reads, ReadAll

PlainIn(args) == \A k \in 1 .. Len(args) - 1 : TakesValue(args[k]) => args[k + 1][1] = ""

LEMMA KeyInStep ==
  ASSUME NEW W, NEW T, IsArgs(W, T), NEW args \in Seq(T), PlainIn(args), ReadAll(args).error = "none"
  PROVE  InStep(W, T, ReadAll(args), KeyUpTo(args)[Len(args)], ReadAll(CacheKeyArgs(args)))
<1>1. PICK F, R, N : F = ReadUpTo(args) /\ R = KeyUpTo(args) /\ N = Len(args)
  OBVIOUS
<1>2. N \in Nat /\ \A n \in 1..N : args[n] \in T
  BY <1>1
<1>3. Reads(W, args, F) /\ Keys(T, args, R)
  BY <1>1, ReadUpToReads, KeyUpToKeys
<1>4. /\ \A n \in 0..N : F[n] \in Parsers(W) /\ R[n] \in KeySet(T)
      /\ F[0] = Start /\ \A n \in 1..N : F[n] = ParseArg(F[n - 1], args[n])
      /\ R[0] = KeyStart /\ \A n \in 1..N : R[n] = KeyArg(R[n - 1], args[n])
  BY <1>1, <1>3 DEF Reads, Keys
<1> DEFINE Holds(n) == /\ InStep(W, T, F[n], R[n], ReadAll(R[n].out)) /\ Awaited(F[n], args, n)
           G == {n \in 0..N : F[n].error = "none" => Holds(n)}
<1>5. 0 \in G
  <2>1. F[0] = Start /\ R[0].out = << >> /\ ~R[0].skip /\ R[0] \in KeySet(T) /\ F[0] \in Parsers(W)
    BY <1>2, <1>4 DEF KeyStart
  <2>2. ReadAll(R[0].out) = Start
    BY <2>1, ReadNone
  <2>3. Same(Start, Start)
    BY Zenon DEF Same
  <2>4. InStep(W, T, F[0], R[0], ReadAll(R[0].out))
    BY <2>1, <2>2, <2>3, StartFields, EmptyNotScheduling DEF InStep
  <2>5. Awaited(F[0], args, 0)
    BY <2>1, StartFields DEF Awaited
  <2> QED BY <1>2, <2>4, <2>5
<1>6. ASSUME NEW n \in 1..N, n - 1 \in G PROVE n \in G
  <2>1. SUFFICES ASSUME F[n].error = "none" PROVE Holds(n)
    BY <1>2
  <2>2. PICK a, r, t, b : a = F[n - 1] /\ r = R[n - 1] /\ t = args[n] /\ b = ReadAll(r.out)
    OBVIOUS
  <2>3. n - 1 \in 0..N /\ t \in T /\ a \in Parsers(W) /\ r \in KeySet(T) /\ F[n] = ParseArg(a, t) /\ R[n] = KeyArg(r, t)
    BY <1>2, <1>4, <2>2
  <2>4. a.error = "none"
    BY <2>1, <2>3, ErrorStays
  <2>5. InStep(W, T, a, r, b) /\ Awaited(a, args, n - 1)
    BY <1>6, <2>2, <2>4
  <2>6. PendingAfter(a, t, F[n])
    BY <2>3, <2>4, WhichWaits
  <2>7. Awaited(F[n], args, n)
    <3>1. F[n].pending # "" => Len(t) = 1 /\ t[1] \in ValueFlags
      BY <2>6 DEF PendingAfter
    <3>2. n # 0
      BY <1>2
    <3> QED BY <2>2, <3>1, <3>2 DEF Awaited, TakesValue
  <2>8. CASE a.pending \in Scheduling
    <3>1. Stepped(W, T, a, r, t, b, r.out)
      BY <2>3, <2>4, <2>5, <2>8, StepSkipped
    <3> QED BY <2>2, <2>3, <2>7, <3>1 DEF Stepped
  <2>9. CASE a.pending = "" /\ (t \in Diagnostics \/ t[1] \in Scheduling)
    <3>1. Stepped(W, T, a, r, t, b, r.out)
      BY <2>3, <2>4, <2>5, <2>9, StepDropped
    <3> QED BY <2>2, <2>3, <2>7, <3>1 DEF Stepped
  <2>10. CASE a.pending \notin Scheduling /\ t \notin Diagnostics /\ t[1] \notin Scheduling
    <3>1. Stepped(W, T, a, r, t, ParseArg(b, t), Append(r.out, t))
      BY <2>3, <2>4, <2>5, <2>10, StepKept
    <3>2. r.out \in Seq(T)
      BY <2>3 DEF KeySet
    <3>3. ReadUpTo(Append(r.out, t))[Len(r.out) + 1] = ParseArg(ReadUpTo(r.out)[Len(r.out)], t)
      BY <2>3, <3>2, ReadAppend
    <3>4. Len(Append(r.out, t)) = Len(r.out) + 1
      BY <2>3, <3>2
    <3>5. ReadAll(Append(r.out, t)) = ParseArg(b, t)
      BY <2>2, <3>3, <3>4 DEF ReadAll
    <3> QED BY <2>3, <2>7, <3>1, <3>5 DEF Stepped
  <2>11. CASE a.pending # "" /\ a.pending \notin Scheduling
    <3>1. n - 1 # 0 /\ TakesValue(args[n - 1])
      BY <2>5, <2>11 DEF Awaited
    <3>2. n - 1 \in 1..N - 1 /\ (n - 1) + 1 = n
      BY <1>2, <3>1
    <3>3. t[1] = ""
      BY <1>1, <2>2, <3>1, <3>2 DEF PlainIn
    <3>4. t \notin Diagnostics /\ t[1] \notin Scheduling
      BY <3>3, DiagnosticsAre, EmptyNotScheduling
    <3> QED BY <2>10, <2>11, <3>4
  <2> QED BY <2>8, <2>9, <2>10, <2>11
<1>7. N \in G
  <2>1. \A n \in 0..N : n \in G
    <3> HIDE DEF G
    <3> QED BY <1>2, <1>5, <1>6, UpTo
  <2> QED BY <1>2, <2>1
<1>8. ReadAll(args) = F[N] /\ CacheKeyArgs(args) = R[N].out
  BY <1>1 DEF ReadAll, CacheKeyArgs
<1> QED BY <1>1, <1>7, <1>8

(* What is left of a parser that read everything.                          *)
Closing(s) == [s EXCEPT !.pending = "", !.unsupported = @ \cup ({s.pending} \cap {"--wrap"})]

Finishable(s) == s.pending \in IgnoredWithValue \cup {"", "--wrap"}
LEMMA AtEndCases ==
  ASSUME NEW s
  PROVE  /\ s.error # "none" => AtEnd(s) = s
         /\ s.error = "none" /\ ~Finishable(s) => AtEnd(s) = Bail(s, "missing value")
         /\ s.error = "none" /\ Finishable(s) /\ s.start_lib => AtEnd(s) = Bail(Closing(s), "end-lib")
         /\ s.error = "none" /\ Finishable(s) /\ ~s.start_lib /\ s.stack # << >> =>
              AtEnd(s) = Bail(Closing(s), "push-state")
         /\ s.error = "none" /\ Finishable(s) /\ ~s.start_lib /\ s.stack = << >> => AtEnd(s) = Closing(s)
<1>1. PICK c, m, e, p : /\ c = Closing(s) /\ m = Bail(s, "missing value") /\ e = Bail(Closing(s), "end-lib")
                        /\ p = Bail(Closing(s), "push-state")
  OBVIOUS
<1>2. AtEnd(s) = CASE s.error # "none" -> s
                   [] s.error = "none" /\ ~Finishable(s) -> m
                   [] OTHER -> IF s.start_lib THEN e ELSE IF s.stack # << >> THEN p ELSE c
  BY <1>1, Zenon DEF AtEnd, Closing, Finishable
<1>3. /\ s.error # "none" => AtEnd(s) = s
      /\ s.error = "none" /\ ~Finishable(s) => AtEnd(s) = m
      /\ s.error = "none" /\ Finishable(s) => AtEnd(s) = IF s.start_lib THEN e ELSE IF s.stack # << >> THEN p ELSE c
  BY <1>2
<1> QED BY <1>1, <1>3, Zenon

LEMMA ClosingFields ==
  ASSUME NEW W, "" \in W, NEW s \in Parsers(W), NEW r, r = Closing(s)
  PROVE  /\ r \in Parsers(W) /\ r.pending = "" /\ r.unsupported = s.unsupported \cup ({s.pending} \cap {"--wrap"})
         /\ r.modes = s.modes /\ r.start_lib = s.start_lib /\ r.stack = s.stack /\ r.specs = s.specs
         /\ r.error = s.error /\ r.list = s.list /\ r.on = s.on
         /\ r.single = s.single /\ r.given = s.given
<1>1. PICK u : u = s.unsupported \cup ({s.pending} \cap {"--wrap"})
  OBVIOUS
<1>2. u \in SUBSET {"--wrap"}
  BY <1>1 DEF Parsers
<1>3. r = [s EXCEPT !.pending = "", !.unsupported = u]
  BY <1>1 DEF Closing
<1> QED BY <1>1, <1>2, <1>3 DEF Parsers

LEMMA ClosingSame ==
  ASSUME NEW W, "" \in W, NEW a \in Parsers(W), NEW b \in Parsers(W), Same(a, b), a.pending = b.pending
  PROVE  Same(Closing(a), Closing(b))
<1>1. PICK x, y : x = Closing(a) /\ y = Closing(b)
  OBVIOUS
<1>2. /\ x.unsupported = a.unsupported \cup ({a.pending} \cap {"--wrap"})
      /\ x.modes = a.modes /\ x.start_lib = a.start_lib /\ x.stack = a.stack /\ x.specs = a.specs
      /\ x.error = a.error /\ x.list = a.list /\ x.on = a.on /\ x.single = a.single /\ x.given = a.given
  BY <1>1 DEF Closing, Parsers
<1>3. /\ y.unsupported = b.unsupported \cup ({b.pending} \cap {"--wrap"})
      /\ y.modes = b.modes /\ y.start_lib = b.start_lib /\ y.stack = b.stack /\ y.specs = b.specs
      /\ y.error = b.error /\ y.list = b.list /\ y.on = b.on /\ y.single = b.single /\ y.given = b.given
  BY <1>1 DEF Closing, Parsers
<1>4. x.unsupported = y.unsupported
  BY <1>2, <1>3, Zenon DEF Same
<1>5. Same(x, y)
  BY <1>2, <1>3, <1>4, Zenon DEF Same
<1> QED BY <1>1, <1>5

(* Parsers that are the same mean the same output.                         *)
QuietedOn(o) == [o EXCEPT !["stats"] = FALSE, !["incremental"] = FALSE, !["daemon"] = FALSE]
QuietedSingle(o) == [o EXCEPT !["threads"] = "", !["cache_report"] = ""]
LEMMA SameRecord ==
  ASSUME NEW W, NEW x \in Parsers(W), NEW y \in Parsers(W),
         x.modes = y.modes, x.start_lib = y.start_lib, x.stack = y.stack, x.pending = y.pending,
         x.specs = y.specs, x.error = y.error, x.unsupported = y.unsupported, x.on = y.on,
         x.single = y.single, x.given = y.given, x.list = y.list
  PROVE  x = y
<1> DEFINE D == {"modes", "start_lib", "stack", "pending", "specs", "error", "unsupported", "on", "single",
                 "given", "list"}
<1>1. DOMAIN x = D /\ DOMAIN y = D
  BY DEF Parsers
<1>2. x = [f \in D |-> x[f]] /\ y = [f \in D |-> y[f]]
  BY <1>1 DEF Parsers
<1>3. \A f \in D : x[f] = y[f]
  BY Zenon
<1> QED BY <1>2, <1>3, Zenon

RelevantOf(W, s, r) ==
  /\ r \in Parsers(W) /\ r.modes = s.modes /\ r.start_lib = s.start_lib /\ r.stack = s.stack
  /\ r.pending = s.pending /\ r.specs = s.specs /\ r.error = s.error /\ r.unsupported = s.unsupported
  /\ r.on = QuietedOn(s.on) /\ r.single = QuietedSingle(s.single)
  /\ r.given = s.given \ QuietSingle /\ r.list = s.list
LEMMA RelevantFields ==
  ASSUME NEW W, "" \in W, NEW s \in Parsers(W), NEW r, r = Relevant(s)
  PROVE  RelevantOf(W, s, r)
<1>1. PICK o, i, g : o = QuietedOn(s.on) /\ i = QuietedSingle(s.single) /\ g = s.given \ QuietSingle
  OBVIOUS
<1>2. r = [s EXCEPT !.on = o, !.single = i, !.given = g]
  BY <1>1 DEF Relevant, QuietedOn, QuietedSingle, QuietSingle
<1>3. o \in [DOMAIN Settings -> BOOLEAN] /\ i \in [DOMAIN Singles -> W] /\ g \in SUBSET DOMAIN Singles
  BY <1>1 DEF Parsers, QuietedOn, QuietedSingle
<1> QED BY <1>1, <1>2, <1>3 DEF Parsers, RelevantOf

LEMMA RelevantSame ==
  ASSUME NEW W, "" \in W, NEW a \in Parsers(W), NEW b \in Parsers(W), Same(a, b), a.pending = b.pending
  PROVE  Relevant(a) = Relevant(b)
<1>1. QuietedOn(a.on) = QuietedOn(b.on)
  <2>1. PICK o, p : o = a.on /\ p = b.on
    OBVIOUS
  <2>2. o \in [DOMAIN Settings -> BOOLEAN] /\ p \in [DOMAIN Settings -> BOOLEAN]
    BY <2>1 DEF Parsers
  <2>3. \A f \in DOMAIN Settings \ QuietOn : o[f] = p[f]
    BY <2>1 DEF Same
  <2>4. QuietedOn(o) = QuietedOn(p)
    BY <2>2, <2>3 DEF QuietedOn, QuietOn
  <2> QED BY <2>1, <2>4
<1>2. QuietedSingle(a.single) = QuietedSingle(b.single)
  <2>1. PICK o, p : o = a.single /\ p = b.single
    OBVIOUS
  <2>2. o \in [DOMAIN Singles -> W] /\ p \in [DOMAIN Singles -> W]
    BY <2>1 DEF Parsers
  <2>3. \A f \in DOMAIN Singles \ QuietSingle : o[f] = p[f]
    BY <2>1 DEF Same
  <2>4. QuietedSingle(o) = QuietedSingle(p)
    BY <2>2, <2>3 DEF QuietedSingle, QuietSingle
  <2> QED BY <2>1, <2>4
<1>3. /\ a.modes = b.modes /\ a.start_lib = b.start_lib /\ a.stack = b.stack /\ a.specs = b.specs
      /\ a.error = b.error /\ a.unsupported = b.unsupported /\ a.list = b.list
      /\ a.given \ QuietSingle = b.given \ QuietSingle
  BY Zenon DEF Same
<1>4. PICK x, y : x = Relevant(a) /\ y = Relevant(b)
  OBVIOUS
<1>5. RelevantOf(W, a, x)
  BY <1>4, RelevantFields
<1>6. RelevantOf(W, b, y)
  BY <1>4, RelevantFields
<1>7. /\ x.modes = y.modes /\ x.start_lib = y.start_lib /\ x.stack = y.stack /\ x.pending = y.pending
      /\ x.specs = y.specs /\ x.error = y.error /\ x.unsupported = y.unsupported /\ x.on = y.on
      /\ x.single = y.single /\ x.given = y.given /\ x.list = y.list
  BY <1>1, <1>2, <1>3, <1>5, <1>6, Zenon DEF RelevantOf
<1>8. x \in Parsers(W) /\ y \in Parsers(W)
  BY <1>5, <1>6, Zenon DEF RelevantOf
<1>9. x = y
  BY <1>7, <1>8, SameRecord
<1> QED BY <1>4, <1>9

(* The key and the command line mean the same link.                        *)
LEMMA KeyMeans ==
  ASSUME NEW W, NEW T, IsArgs(W, T), NEW args \in Seq(T), PlainIn(args), Parse(args).error = "none"
  PROVE  Relevant(Parse(CacheKeyArgs(args))) = Relevant(Parse(args))
<1>1. PICK a, b, r : a = ReadAll(args) /\ b = ReadAll(CacheKeyArgs(args)) /\ r = KeyUpTo(args)[Len(args)]
  OBVIOUS
<1>2. Parse(args) = AtEnd(a) /\ Parse(CacheKeyArgs(args)) = AtEnd(b)
  BY <1>1 DEF Parse, ReadAll
<1>3. a.error = "none"
  BY <1>2, AtEndCases
<1>4. InStep(W, T, a, r, b)
  BY <1>1, <1>3, KeyInStep
<1>5. a \in Parsers(W) /\ b \in Parsers(W) /\ Same(a, b) /\ "" \in W
  BY <1>4 DEF InStep, IsArgs, IsWords
<1>6. Finishable(a) /\ ~a.start_lib /\ a.stack = << >>
  <2>1. Bail(a, "missing value").error = "missing value"
    BY <1>5 DEF Bail, Parsers
  <2>2. PICK c : c = Closing(a)
    OBVIOUS
  <2>3. c \in Parsers(W)
    BY <1>5, <2>2, ClosingFields
  <2>4. Bail(c, "end-lib").error = "end-lib" /\ Bail(c, "push-state").error = "push-state"
    BY <2>3 DEF Bail, Parsers
  <2> QED BY <1>2, <1>3, <2>1, <2>2, <2>4, AtEndCases
<1>7. a.pending = b.pending
  <2>1. a.pending \notin Scheduling
    BY <1>6 DEF Finishable, IgnoredWithValue, Scheduling
  <2> QED BY <1>4, <2>1 DEF InStep
<1>8. b.error = a.error /\ b.start_lib = a.start_lib /\ b.stack = a.stack
  BY <1>5, Zenon DEF Same
<1>9. Finishable(b) /\ ~b.start_lib /\ b.stack = << >> /\ b.error = "none"
  BY <1>3, <1>6, <1>7, <1>8 DEF Finishable
<1>10. PICK x, y : x = Closing(a) /\ y = Closing(b)
  OBVIOUS
<1>11. AtEnd(a) = x /\ AtEnd(b) = y
  BY <1>3, <1>6, <1>9, <1>10, AtEndCases
<1>12. x \in Parsers(W) /\ x.pending = ""
  BY <1>5, <1>10 DEF Closing, Parsers
<1>13. y \in Parsers(W) /\ y.pending = ""
  BY <1>5, <1>10 DEF Closing, Parsers
<1>14. Same(x, y)
  BY <1>5, <1>7, <1>10, ClosingSame
<1>15. Relevant(x) = Relevant(y)
  BY <1>5, <1>12, <1>13, <1>14, RelevantSame
<1> QED BY <1>2, <1>11, <1>15

-----------------------------------------------------------------------------
(* Every argument that can be read, and its words.                         *)
AllArguments ==
  UNION ({ToSet(c) : c \in CommandLines} \cup {ToSet(Contents[ResponseFiles[f]]) : f \in DOMAIN ResponseFiles})
AllWords == {Text(t) : t \in AllArguments} \cup {"", "a.out", "_start", "0x400000"} \cup ValueFlags

LEMMA ArgumentsFine ==
  /\ IsArgs(AllWords, AllArguments)
  /\ \A c \in CommandLines : c \in Seq(AllArguments)
  /\ \A f \in DOMAIN ResponseFiles : Contents[ResponseFiles[f]] \in Seq(AllArguments)
<1>1. ASSUME NEW c, IsCommandLine(c) PROVE /\ c \in Seq(ToSet(c))
                                          /\ \A t \in ToSet(c) : IsArgument(t)
  BY <1>1 DEF IsCommandLine, ToSet
<1>2. ASSUME NEW c, NEW S, IsCommandLine(c), ToSet(c) \subseteq S PROVE c \in Seq(S)
  <2>1. PICK D : D = ToSet(c)
    OBVIOUS
  <2>2. c \in Seq(D) /\ D \subseteq S
    BY <1>1, <1>2, <2>1
  <2> QED BY <2>2
<1>3. \A c \in CommandLines : IsCommandLine(c) /\ ToSet(c) \subseteq AllArguments
  BY ArgumentsAssumption DEF AllArguments
<1>4. \A f \in DOMAIN ResponseFiles : /\ IsCommandLine(Contents[ResponseFiles[f]])
                                      /\ ToSet(Contents[ResponseFiles[f]]) \subseteq AllArguments
  BY ArgumentsAssumption DEF AllArguments
<1>5. ASSUME NEW t \in AllArguments PROVE IsArgument(t)
  <2>1. CASE \E c \in CommandLines : t \in ToSet(c)
    BY <1>1, <1>3, <2>1
  <2>2. CASE \E f \in DOMAIN ResponseFiles : t \in ToSet(Contents[ResponseFiles[f]])
    BY <1>1, <1>4, <2>2
  <2> QED BY <2>1, <2>2 DEF AllArguments
<1>6. IsArgs(AllWords, AllArguments)
  BY <1>5 DEF IsArgs, IsWords, AllWords
<1> QED BY <1>2, <1>3, <1>4, <1>6

(* The response files being read, and what has been read of the command    *)
(* line.                                                                   *)
FrameSet == [file : {""} \cup {ResponseFiles[f] : f \in DOMAIN ResponseFiles}, rest : Seq(AllArguments)]
ReadSoFar ==
  /\ argv \in Seq(AllArguments)
  /\ pc = "response" => frames \in Seq(FrameSet) /\ Len(frames) # 0 /\ at = 1 /\ st = Start
  /\ pc = "parse" => at \in 1..(Len(argv) + 1) /\ st = ReadUpTo(argv)[at - 1]
  /\ pc = "controls" => Parse(argv).error = "none"

LEMMA ReadSoFarInit == Init => ReadSoFar
<1> SUFFICES ASSUME Init PROVE ReadSoFar
  OBVIOUS
<1>1. pc = "response" /\ at = 1 /\ argv = << >> /\ st = Start
  BY DEF Init
<1>2. PICK c \in CommandLines : frames = <<[file |-> "", rest |-> c]>>
  BY DEF Init
<1>3. PICK f : f = [file |-> "", rest |-> c]
  OBVIOUS
<1>4. f \in FrameSet
  BY <1>3, ArgumentsFine DEF FrameSet
<1>5. frames = <<f>>
  BY <1>2, <1>3
<1>6. frames \in Seq(FrameSet) /\ Len(frames) # 0
  BY <1>4, <1>5
<1> QED BY <1>1, <1>6, EmptyIsSeq DEF ReadSoFar

LEMMA AdvanceTyped ==
  ASSUME frames \in Seq(FrameSet), Len(frames) # 0, Top.rest # << >>
  PROVE  /\ Advance \in Seq(FrameSet) /\ Len(Advance) = Len(frames) /\ Top.rest[1] \in AllArguments
<1>1. PICK n, f, r : n = Len(frames) /\ f = frames[n] /\ r = f.rest
  OBVIOUS
<1>2. n \in 1..Len(frames) /\ f \in FrameSet /\ Top = f
  BY <1>1 DEF Top, Last
<1>3. r \in Seq(AllArguments) /\ r # << >>
  BY <1>1, <1>2 DEF FrameSet
<1>4. Tail(r) \in Seq(AllArguments) /\ r[1] \in AllArguments
  BY <1>3
<1>5. PICK g : g = [f EXCEPT !.rest = Tail(r)]
  OBVIOUS
<1>6. g \in FrameSet
  BY <1>2, <1>4, <1>5 DEF FrameSet
<1>7. Advance = [frames EXCEPT ![n] = g]
  BY <1>1, <1>5 DEF Advance
<1>8. [frames EXCEPT ![n] = g] \in Seq(FrameSet) /\ Len([frames EXCEPT ![n] = g]) = Len(frames)
  BY <1>2, <1>6
<1> QED BY <1>1, <1>2, <1>4, <1>7, <1>8

LEMMA ReadSoFarReading == ReadSoFar /\ Reading => ReadSoFar'
<1> SUFFICES ASSUME ReadSoFar, Reading PROVE ReadSoFar'
  OBVIOUS
<1>1. argv \in Seq(AllArguments)
  BY DEF ReadSoFar
<1>2. CASE CopyArgument
  <2>1. frames \in Seq(FrameSet) /\ Len(frames) # 0 /\ at = 1 /\ st = Start /\ Top.rest # << >>
    BY <1>2 DEF ReadSoFar, CopyArgument
  <2>2. Advance \in Seq(FrameSet) /\ Len(Advance) = Len(frames) /\ Top.rest[1] \in AllArguments
    BY <2>1, AdvanceTyped
  <2>3. pc' = "response" /\ at' = 1 /\ st' = Start /\ argv' = Append(argv, Top.rest[1]) /\ frames' = Advance
    BY <1>2, <2>1 DEF CopyArgument
  <2>4. argv' \in Seq(AllArguments) /\ frames' \in Seq(FrameSet) /\ Len(frames') # 0
    BY <1>1, <2>1, <2>2, <2>3
  <2> QED BY <2>3, <2>4 DEF ReadSoFar
<1>3. CASE EnterFile
  <2>1. frames \in Seq(FrameSet) /\ Len(frames) # 0 /\ at = 1 /\ st = Start /\ Top.rest # << >>
    BY <1>3 DEF ReadSoFar, EnterFile
  <2>2. Advance \in Seq(FrameSet) /\ Len(Advance) = Len(frames)
    BY <2>1, AdvanceTyped
  <2>3. PICK f, e : f = Text(Top.rest[1]) /\ e = [file |-> ResponseFiles[f], rest |-> Contents[ResponseFiles[f]]]
    OBVIOUS
  <2>4. pc' = "response" /\ at' = 1 /\ st' = Start /\ argv' = argv /\ frames' = Append(Advance, e)
    BY <1>3, <2>1, <2>3 DEF EnterFile
  <2>5. f \in DOMAIN ResponseFiles
    BY <1>3, <2>3 DEF EnterFile, Enterable
  <2>6. e \in FrameSet
    BY <2>3, <2>5, ArgumentsFine DEF FrameSet
  <2>7. frames' \in Seq(FrameSet) /\ Len(frames') # 0
    BY <2>2, <2>4, <2>6
  <2> QED BY <1>1, <2>4, <2>7 DEF ReadSoFar
<1>4. CASE RejectFile
  BY <1>1, <1>4 DEF ReadSoFar, RejectFile
<1>5. CASE LeaveFile
  <2>1. frames \in Seq(FrameSet) /\ Len(frames) > 1 /\ at = 1 /\ st = Start
    BY <1>5 DEF ReadSoFar, LeaveFile
  <2>2. pc' = "response" /\ at' = 1 /\ st' = Start /\ argv' = argv /\ frames' = Front(frames)
    BY <1>5, <2>1 DEF LeaveFile
  <2>3. frames' \in Seq(FrameSet) /\ Len(frames') # 0
    BY <2>1, <2>2 DEF Front
  <2> QED BY <1>1, <2>2, <2>3 DEF ReadSoFar
<1>6. CASE ExpandedAll
  <2>1. pc' = "parse" /\ at' = 1 /\ st' = Start /\ argv' = argv
    BY <1>6 DEF ReadSoFar, ExpandedAll
  <2>2. Reads(AllWords, argv, ReadUpTo(argv))
    BY <1>1, ArgumentsFine, ReadUpToReads
  <2>3. Start = ReadUpTo(argv)[0]
    BY <2>2 DEF Reads
  <2>4. 1 \in 1..(Len(argv) + 1) /\ 1 - 1 = 0
    BY <1>1
  <2> QED BY <1>1, <2>1, <2>3, <2>4 DEF ReadSoFar
<1>7. CASE ReadArgument
  <2>1. /\ at \in 1..(Len(argv) + 1) /\ st = ReadUpTo(argv)[at - 1] /\ at \in DOMAIN argv
        /\ st' = ParseArg(st, argv[at]) /\ at' = at + 1 /\ pc' = "parse" /\ argv' = argv
    BY <1>7 DEF ReadSoFar, ReadArgument
  <2>2. Reads(AllWords, argv, ReadUpTo(argv))
    BY <1>1, ArgumentsFine, ReadUpToReads
  <2>3. at \in 1..Len(argv)
    BY <1>1, <2>1
  <2>4. ReadUpTo(argv)[at] = ParseArg(ReadUpTo(argv)[at - 1], argv[at])
    BY <2>2, <2>3 DEF Reads
  <2>5. at' \in 1..(Len(argv) + 1) /\ at' - 1 = at
    BY <1>1, <2>1, <2>3
  <2> QED BY <1>1, <2>1, <2>4, <2>5 DEF ReadSoFar
<1>8. CASE ParsedAll
  <2>1. /\ at \in 1..(Len(argv) + 1) /\ st = ReadUpTo(argv)[at - 1] /\ argv' = argv
        /\ (at \notin DOMAIN argv \/ st.error # "none")
        /\ pc' = IF st'.error # "none" THEN "error" ELSE "controls"
    BY <1>8 DEF ReadSoFar, ParsedAll
  <2>2. AtEnd(st).error # "none" => st' = AtEnd(st)
    BY <1>8 DEF ParsedAll
  <2>3. pc' = "controls" => AtEnd(st).error = "none"
    BY <2>1, <2>2
  <2>4. AtEnd(st).error = "none" => st.error = "none"
    BY AtEndCases
  <2>5. at \notin DOMAIN argv => at - 1 = Len(argv)
    BY <1>1, <2>1
  <2>6. pc' = "controls" => Parse(argv).error = "none"
    BY <2>1, <2>3, <2>4, <2>5 DEF Parse
  <2>7. pc' \in {"error", "controls"}
    BY <2>1
  <2> QED BY <1>1, <2>1, <2>6, <2>7 DEF ReadSoFar
<1> QED BY <1>2, <1>3, <1>4, <1>5, <1>6, <1>7, <1>8 DEF Reading

(* The passes over the input files leave the arguments alone.              *)
LEMMA ReadSoFarOther ==
  ASSUME ReadSoFar, argv' = argv, pc' \notin {"response", "parse", "controls"}
  PROVE  ReadSoFar'
  BY DEF ReadSoFar

LEMMA ReadSoFarNext == ReadSoFar /\ [Next]_vars => ReadSoFar'
<1> SUFFICES ASSUME ReadSoFar, [Next]_vars PROVE ReadSoFar'
  OBVIOUS
<1>1. CASE ReadCommandLine
  BY <1>1, ReadSoFarReading DEF ReadCommandLine
<1>2. CASE Next /\ ~ReadCommandLine
  <2>1. argv' = argv
    BY <1>2 DEF Next, ApplyControls, RejectScript, ResolveSpec, LibraryNotFound, NoInputFiles, ResolvedAll,
                ExpandInput, ExpandedInputs, InjectCrtObjects, Ended, vars, cvars, Refuse
  <2>2. pc' \notin {"response", "parse", "controls"}
    BY <1>2 DEF Next, ApplyControls, RejectScript, ResolveSpec, LibraryNotFound, NoInputFiles, ResolvedAll,
                ExpandInput, ExpandedInputs, InjectCrtObjects, Ended, vars, cvars, Refuse
  <2> QED BY <2>1, <2>2, ReadSoFarOther
<1>3. CASE UNCHANGED vars
  BY <1>3 DEF ReadSoFar, vars, cvars
<1> QED BY <1>1, <1>2, <1>3

(* For every command line, every set of response files and every disk: a   *)
(* command line that is accepted and its key mean the same link, so the    *)
(* cache, which compares keys (cache_key_args), never takes one link for   *)
(* another.                                                                *)
THEOREM KeyDeterminesLinkAlways == Spec => []KeyDeterminesLink
<1>1. InitFiles => ReadSoFar
  BY ReadSoFarInit DEF InitFiles
<1>2. ReadSoFar /\ [Next]_vars => ReadSoFar'
  BY ReadSoFarNext
<1>3. ReadSoFar => KeyDeterminesLink
  <2> SUFFICES ASSUME ReadSoFar, pc = "controls", PlainValues
               PROVE  Relevant(Parse(CacheKeyArgs(argv))) = Relevant(Parse(argv))
    BY DEF KeyDeterminesLink
  <2>1. argv \in Seq(AllArguments) /\ Parse(argv).error = "none" /\ PlainIn(argv)
    BY DEF ReadSoFar, PlainValues, PlainIn
  <2> QED BY <2>1, ArgumentsFine, KeyMeans
<1> QED BY <1>1, <1>2, <1>3, PTL DEF Spec
=============================================================================
