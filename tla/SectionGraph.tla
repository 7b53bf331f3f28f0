---------------------------- MODULE SectionGraph ----------------------------
(***************************************************************************)
(* What section garbage collection and identical code folding see of the   *)
(* inputs (peony-layout: gc.rs, icf.rs).  A section is named by its key    *)
(* <<object, index>>.  A program is a record                               *)
(*   sec        the parsed sections by key: [alloc, implicit, keep, text,  *)
(*              empty, digest, body, relocs]; alloc stands for the flags;  *)
(*              implicit: its name or SHF_GNU_RETAIN makes it a root;      *)
(*              keep: a KEEP pattern of the linker script matches it;      *)
(*              digest: hash and length of body                            *)
(*   slots      the keys LiveSections has a bit for                        *)
(*   syms       all symbols: [obj, name, binding, section, exported,       *)
(*              listed, abi]; name is NoName for a section symbol,         *)
(*              exported: default visibility, listed: in .llvm_addrsig,    *)
(*              abi: _ZTV, _ZTI or _ZTS                                    *)
(*   table      the section each global name resolved to, or None          *)
(*   entry, exports, export_roots, gc, icf, threads                        *)
(*   addrsig    the objects whose .llvm_addrsig could be decoded           *)
(*   excluded   sections dropped as COMDAT copies                          *)
(* A relocation is [off, call, addend, sym]; call: its type does not take  *)
(* an address; sym is None for a symbol index that is not in the object.   *)
(***************************************************************************)
EXTENDS Naturals

CONSTANTS None, NoName

Sections(p) == DOMAIN p.sec

(* compute_layout_icf keeps an empty section if a symbol is defined in it. *)
Anchored(p, k) == \E s \in p.syms : s.section = k

(* What parsing and resolution guarantee: every section has a key and a    *)
(* bit, symbol indices were looked up in the object, only a local symbol   *)
(* has no name, and a name resolves to a section where some symbol of that *)
(* name is defined.                                                        *)
IsReloc(p, r) ==
  /\ r = [off |-> r.off, call |-> r.call, addend |-> r.addend, sym |-> r.sym]
  /\ r.call \in BOOLEAN
  /\ r.sym = None \/ r.sym \in p.syms

WellFormed(p) ==
  /\ Sections(p) \subseteq Nat \X Nat
  /\ Sections(p) \subseteq p.slots /\ None \notin p.slots
  /\ \A k \in Sections(p) : \A r \in p.sec[k].relocs : IsReloc(p, r)
  /\ \A s \in p.syms : s.binding # "Local" =>
       /\ s.name # NoName
       /\ \/ p.table[s.name] = None
          \/ \E d \in p.syms : d.name = s.name /\ d.section = p.table[s.name]
-----------------------------------------------------------------------------
(* Garbage collection.                                                     *)

(* resolve_symbol_target: where a relocation's symbol is.                  *)
Target(p, sym) ==
  IF sym = None THEN None
  ELSE IF sym.binding = "Local" THEN sym.section ELSE p.table[sym.name]

(* Bug: calls are not followed.                                            *)
TargetsTaken(p, k) ==
  {Target(p, r.sym) : r \in {x \in p.sec[k].relocs : ~x.call}} \ {None}

(* collect_targets.                                                        *)
Targets(p, k) == {Target(p, r.sym) : r \in p.sec[k].relocs} \ {None}

(* visit_implicit_root_reasons, for sections that are loaded.              *)
ImplicitRoots(p) == {k \in Sections(p) : p.sec[k].alloc /\ p.sec[k].implicit}

(* collect_roots, as far as the sections exist.                            *)
Roots(p) ==
  LET named == {p.entry} \cup (IF p.export_roots THEN p.exports ELSE {})
  IN (ImplicitRoots(p) \cup {p.table[n] : n \in named}) \cap Sections(p)
-----------------------------------------------------------------------------
(* Identical code folding.                                                 *)

Relocs(p) == UNION {p.sec[k].relocs : k \in Sections(p)}

(* taint_one_reloc.                                                        *)
AddressTaken(p) == {r.sym : r \in {x \in Relocs(p) : ~x.call /\ x.sym # None}}

ByName(p) == {s.name : s \in {t \in AddressTaken(p) : t.name # NoName}}

BySection(p) == {s.section : s \in {t \in AddressTaken(p) : t.name = NoName}}

(* Bug: addresses taken through section symbols are forgotten.             *)
DefinesAddressSignificantByName(p, k) ==
  \/ k[1] \notin p.addrsig
  \/ \E s \in p.syms :
       /\ s.section = k
       /\ \/ s.listed
          \/ /\ s.name # NoName
             /\ \/ s.abi
                \/ s.name \in ByName(p)
                \/ s.binding = "Weak"
                \/ s.binding # "Local" /\ s.exported

(* defines_address_significant.                                            *)
DefinesAddressSignificant(p, k) ==
  \/ k[1] \notin p.addrsig
  \/ k \in BySection(p)
  \/ \E s \in p.syms :
       /\ s.section = k
       /\ \/ s.listed
          \/ /\ s.name # NoName
             /\ \/ s.abi
                \/ s.name \in ByName(p)
                \/ s.binding = "Weak"
                \/ s.binding # "Local" /\ s.exported

(* The sections fold_key_for gives a key, and the key.                     *)
Foldable(p) ==
  {k \in Sections(p) :
     /\ p.sec[k].text /\ ~p.sec[k].empty
     /\ ~DefinesAddressSignificant(p, k)
     /\ \A r \in p.sec[k].relocs : r.sym # None}

FoldKey(p, k) ==
  [flags  |-> p.sec[k].alloc,
   digest |-> p.sec[k].digest,
   relocs |-> {[off |-> r.off, call |-> r.call, addend |-> r.addend, name |-> r.sym.name]
                 : r \in p.sec[k].relocs}]

Before(j, k) == j[1] < k[1] \/ (j[1] = k[1] /\ j[2] < k[2])

(* The first section with the same key.                                    *)
Canonical(p, k) ==
  LET same == {j \in Foldable(p) : FoldKey(p, j) = FoldKey(p, k)}
  IN CHOOSE c \in same : \A j \in same : ~Before(j, c)

(* Bug: equal digests are taken for equal bytes.                           *)
ComputeFoldMapDigest(p) ==
  LET dups == {k \in Foldable(p) : Canonical(p, k) # k}
  IN [k \in dups |-> Canonical(p, k)]

(* compute_fold_map: duplicates, with the copy each is folded onto.        *)
ComputeFoldMap(p) ==
  LET dups == {k \in Foldable(p) : /\ Canonical(p, k) # k
                                   /\ p.sec[Canonical(p, k)].body = p.sec[k].body}
  IN [k \in dups |-> Canonical(p, k)]
=============================================================================
