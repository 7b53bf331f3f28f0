---------------------------- MODULE SymbolTable ----------------------------
(***************************************************************************)
(* The global symbol table of peony-symbols as operators on a table value: *)
(* res maps a name to its resolution, or to None while nobody mentioned    *)
(* it, and names lists the names that were given an id, in id order.       *)
(* Addresses, types and visibilities, which no rule looks at, are left     *)
(* out.                                                                    *)
(***************************************************************************)
EXTENDS Naturals, Sequences

CONSTANTS
  Names,      \* symbol names
  None        \* no entry, id, object, section or common block

(* SymbolResolution, with the fields the rules look at.                    *)
Entries ==
  [id : Nat \cup {None}, binding : {"Weak", "Global"}, defined_in : Nat \cup {None},
   section : Nat \cup {None}, common : (Nat \X Nat) \cup {None}, import : BOOLEAN]
Tables == [res : [Names -> Entries \cup {None}], names : Seq(Names)]

(* SymbolTable::new.                                                       *)
EmptyTable == [res |-> [n \in Names |-> None], names |-> <<>>]

(* make_undefined_resolution, with the binding of the reference.           *)
Undefined(binding) ==
  [id |-> None, binding |-> binding, defined_in |-> None, section |-> None,
   common |-> None, import |-> FALSE]

(* SymbolResolution::is_defined.                                           *)
IsDefined(e) == e.defined_in # None \/ e.import

Put(t, n, e) == [t EXCEPT !.res[n] = e]

(* The next id is the position the name takes in names.                    *)
Mint(t, n, e) ==
  [res |-> [t.res EXCEPT ![n] = [e EXCEPT !.id = Len(t.names)]],
   names |-> Append(t.names, n)]

MaxOf(a, b) == IF a >= b THEN a ELSE b
-----------------------------------------------------------------------------
(* merge_symbol.  A sym is [name, binding, kind, section, size, align] and *)
(* its kind is "undefined", "common" or "defined".                         *)

(* Bug: the binding of the first reference stays.                          *)
MergeUndefinedFirst(t, sym) ==
  IF t.res[sym.name] = None THEN Put(t, sym.name, Undefined(sym.binding)) ELSE t

(* A reference: the strongest binding is kept until a definition comes.    *)
MergeUndefined(t, sym) ==
  LET e == t.res[sym.name]
  IN CASE e = None -> Put(t, sym.name, Undefined(sym.binding))
       [] e # None /\ e.defined_in = None /\ sym.binding = "Global" ->
            Put(t, sym.name, [e EXCEPT !.binding = "Global"])
       [] OTHER -> t

(* merge_common: the larger size and alignment of two tentative            *)
(* definitions; a real one is not touched.                                 *)
MergeCommon(t, o, sym) ==
  LET e == t.res[sym.name]
      Block(b) == [Undefined(sym.binding) EXCEPT !.defined_in = o, !.common = b]
  IN CASE e # None /\ e.common # None ->
            Put(t, sym.name, [e EXCEPT !.common = <<MaxOf(sym.size, e.common[1]),
                                                    MaxOf(sym.align, e.common[2])>>])
       [] e # None /\ e.common = None /\ e.defined_in # None -> t
       [] OTHER -> Mint(t, sym.name, Block(<<sym.size, sym.align>>))

(* Bug: any second definition is refused.                                  *)
DuplicateWeak(t, sym) ==
  LET e == t.res[sym.name]
  IN sym.kind = "defined" /\ e # None /\ e.common = None /\ e.defined_in # None

(* conflict_action fails: a second strong definition.                      *)
Duplicate(t, sym) ==
  LET e == t.res[sym.name]
  IN /\ sym.kind = "defined" /\ sym.binding = "Global"
     /\ e # None
     /\ e.common = None /\ e.defined_in # None /\ e.binding = "Global"

Rebound(e, o, sym) ==
  [e EXCEPT !.binding = sym.binding, !.defined_in = o, !.section = sym.section,
            !.common = None]

(* Bug: a weak definition that is replaced gets a second id.               *)
MergeDefinedMinting(t, o, sym) ==
  LET e == t.res[sym.name]
  IN CASE e = None -> Mint(t, sym.name, Rebound(Undefined("Global"), o, sym))
       [] e # None /\ (e.defined_in = None \/ sym.binding = "Global") ->
            Mint(t, sym.name, Rebound(e, o, sym))
       [] OTHER -> t

(* Bug: the last weak definition wins.                                     *)
MergeDefinedLastWeak(t, o, sym) ==
  LET e == t.res[sym.name]
  IN CASE e = None -> Mint(t, sym.name, Rebound(Undefined("Global"), o, sym))
       [] e # None /\ e.defined_in = None -> Mint(t, sym.name, Rebound(e, o, sym))
       [] e # None /\ e.binding = "Weak" -> Put(t, sym.name, Rebound(e, o, sym))
       [] OTHER -> t

(* A real definition, if not Duplicate: it replaces a tentative one and a  *)
(* weaker one under the id they have; one that satisfies references gets   *)
(* an id.                                                                  *)
MergeDefined(t, o, sym) ==
  LET e == t.res[sym.name]
  IN CASE e = None -> Mint(t, sym.name, Rebound(Undefined("Global"), o, sym))
       [] e # None /\ e.common # None -> Put(t, sym.name, Rebound(e, o, sym))
       [] e # None /\ e.common = None /\ e.defined_in = None ->
            Mint(t, sym.name, Rebound(e, o, sym))
       [] e # None /\ e.common = None /\ e.defined_in # None
          /\ e.binding = "Weak" /\ sym.binding = "Global" ->
            Put(t, sym.name, Rebound(e, o, sym))
       [] OTHER -> t

MergeSymbol(t, o, sym) ==
  CASE sym.kind = "undefined" -> MergeUndefined(t, sym)
    [] sym.kind = "common" -> MergeCommon(t, o, sym)
    [] sym.kind = "defined" -> MergeDefined(t, o, sym)
-----------------------------------------------------------------------------
(* force_undefined, of several names.                                      *)
ForceUndefined(t, ns) ==
  [t EXCEPT !.res = [n \in Names |->
     CASE n \in ns /\ t.res[n] = None -> Undefined("Global")
       [] n \in ns /\ t.res[n] # None /\ ~IsDefined(t.res[n]) ->
            [t.res[n] EXCEPT !.binding = "Global"]
       [] OTHER -> t.res[n]]]

(* register_shared_export_symbols, one export: only a reference nothing    *)
(* satisfies yet becomes an import.                                        *)
Satisfies(t, n) == t.res[n] # None /\ ~IsDefined(t.res[n])

RegisterExport(t, n) ==
  IF Satisfies(t, n) THEN Mint(t, n, [t.res[n] EXCEPT !.import = TRUE]) ELSE t

(* define_absolute, of several names; no id is given.                      *)
Absolute(e) == [e EXCEPT !.defined_in = 0, !.section = None]

DefineAbsolute(t, ns) ==
  [t EXCEPT !.res = [n \in Names |->
     CASE n \notin ns -> t.res[n]
       [] n \in ns /\ t.res[n] = None -> Absolute(Undefined("Global"))
       [] n \in ns /\ t.res[n] # None -> Absolute(t.res[n])]]

(* current_global_undefined.                                               *)
GlobalUndefined(t) ==
  {n \in Names : /\ t.res[n] # None
                 /\ ~IsDefined(t.res[n]) /\ t.res[n].binding = "Global"}
=============================================================================
