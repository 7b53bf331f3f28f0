--------------------------- MODULE MCRelocPasses ---------------------------
EXTENDS RelocPasses, TLC

(* A static and a dynamic executable, a PIE, two shared objects.           *)
Kind(sh, p, in, nu) == [shared |-> sh, pie |-> p, interp |-> in, no_undefined |-> nu]
Kinds == {Kind(FALSE, FALSE, FALSE, FALSE), Kind(FALSE, FALSE, TRUE, FALSE),
          Kind(FALSE, TRUE, TRUE, FALSE), Kind(TRUE, FALSE, FALSE, FALSE),
          Kind(TRUE, FALSE, FALSE, TRUE)}

(* Symbols, by what the inputs say of them.                                *)
Plain == [bind |-> "global", def |-> "section", placed |-> TRUE, import |-> FALSE,
          ifunc |-> FALSE, helper |-> FALSE, copyable |-> FALSE, late |-> "no"]
Outside == [Plain EXCEPT !.def = "none"]
Import == [Outside EXCEPT !.import = TRUE]

Classes ==
  [local    |-> [Plain EXCEPT !.bind = "local"],
   gone     |-> [Plain EXCEPT !.bind = "local", !.placed = FALSE],
   dropped  |-> [Plain EXCEPT !.placed = FALSE],
   localabs |-> [Plain EXCEPT !.bind = "local", !.def = "abs"],
   global   |-> Plain,
   abs      |-> [Plain EXCEPT !.def = "abs"],
   ifunc    |-> [Plain EXCEPT !.ifunc = TRUE],
   data     |-> [Import EXCEPT !.copyable = TRUE],
   func     |-> Import,
   weak     |-> [Outside EXCEPT !.bind = "weak"],
   undef    |-> Outside,
   end      |-> [Outside EXCEPT !.late = "provided"],
   weakend  |-> [Outside EXCEPT !.late = "provided", !.bind = "weak"],
   defsym   |-> [Outside EXCEPT !.late = "defsym"],
   tls      |-> [Plain EXCEPT !.def = "tls"],
   localtls |-> [Plain EXCEPT !.def = "tls", !.bind = "local"],
   lostltls |-> [Plain EXCEPT !.def = "tls", !.bind = "local", !.placed = FALSE],
   losttls  |-> [Plain EXCEPT !.def = "tls", !.placed = FALSE],
   tlsdso   |-> Import,
   helper   |-> [Import EXCEPT !.helper = TRUE],
   nohelper |-> [Outside EXCEPT !.helper = TRUE]]

TlsClasses == {"tls", "localtls", "lostltls", "losttls", "tlsdso"}

(* The references of an output of kind k.                                  *)
References(k) == {x \in (DOMAIN Classes) \X Types \X SectionKinds :
                    /\ (x[2] \in TlsTypes) = (x[1] \in TlsClasses)
                    /\ IsReference(k, Classes[x[1]], x[2], x[3])}

Site(x, n) == [type |-> x[2], sym |-> <<x[1], n>>, sec |-> x[3]]

Program(k, sites) ==
  [shared |-> k.shared, pie |-> k.pie, interp |-> k.interp,
   no_undefined |-> k.no_undefined, sites |-> sites,
   attr |-> [s \in {sites[i].sym : i \in DOMAIN sites} |-> Classes[s[1]]]]

(* What competes with any other reference for room in .rela.dyn.           *)
Competes(x) ==
  \/ x[1] \in {"global", "func", "gone"} /\ x[2] = "R64"
  \/ x[1] = "func" /\ x[2] = "GOT"
  \/ x[1] = "tlsdso" /\ x[2] = "TLSGD"

Dead(x) == x[3] \in {"deadtext", "deaddata"}

(* One reference, two to one symbol, or two to different symbols; of two   *)
(* one is in the output.                                                   *)
OneSite(k) == {Program(k, <<Site(x, 1)>>) : x \in References(k)}
OneSymbol(k) == {Program(k, <<Site(z[1], 1), Site(z[2], 1)>>) :
  z \in {y \in References(k) \X References(k) : y[1][1] = y[2][1] /\ ~Dead(y[1])}}
TwoSymbols(k) == {Program(k, <<Site(z[1], 1), Site(z[2], 2)>>) :
  z \in {y \in References(k) \X References(k) : Competes(y[2]) /\ ~(Dead(y[1]) /\ Dead(y[2]))}}

MCPrograms ==
  UNION {OneSite(k) : k \in Kinds}
  \cup UNION {OneSymbol(k) \cup TwoSymbols(k) : k \in {j \in Kinds : ~j.no_undefined}}
=============================================================================
