------------------------------ MODULE Resolve ------------------------------
(***************************************************************************)
(* Loading and symbol resolution (main.rs, load_and_resolve and its CRT    *)
(* fallback, then link up to check_undefined): objects are resolved in     *)
(* order with COMDAT groups deduplicated, whole archives follow, then      *)
(* --start-lib objects and archive members are pulled in while a strong    *)
(* reference is open, shared libraries turn what is left into imports, and *)
(* the linker's own symbols and --defsym come last.                        *)
(*                                                                         *)
(* The grain is one merged symbol, one archive looked at, one member       *)
(* tried, one export.  An object is [syms, groups, parses]: the sequence   *)
(* of its symbols, the sequence of its COMDAT groups [sig, members], and   *)
(* whether it can be parsed at all.  A sym also says whether a GOT         *)
(* relocation refers to it.                                                *)
(***************************************************************************)
EXTENDS SymbolTable, SequencesExt

CONSTANTS
  Links,      \* command lines: [bare, crt, forced, whole, startlib, archives,
              \* libs, defsyms, required, enforce]; crt holds the positions in
              \* bare of the injected CRT objects
  Provided,   \* LINKER_SYMS, and the names of the form __start_X and __stop_X
  Entry,      \* the name _start
  TlsGetAddr  \* the name __tls_get_addr

(* What the parsers deliver.  Symbols and groups without a name, which     *)
(* resolve passes over, are left out.                                      *)
Syms ==
  [name : Names, binding : {"Local", "Weak", "Global"},
   kind : {"undefined", "common", "defined"}, section : Nat \cup {None},
   size : Nat, align : Nat, got : BOOLEAN]
Groups == [sig : STRING, members : SUBSET Nat]
Objects == [syms : Seq(Syms), groups : Seq(Groups), parses : BOOLEAN]
Archives == [name : STRING, indexed : BOOLEAN, members : Seq(Objects)]
Libraries == [soname : STRING, exports : Seq(Names), as_needed : BOOLEAN]
CommandLines ==
  [bare : Seq(Objects), crt : SUBSET Nat, forced : SUBSET Names, whole : Seq(Objects),
   startlib : Seq(Objects), archives : Seq(Archives), libs : Seq(Libraries),
   defsyms : SUBSET Names, required : SUBSET Names, enforce : BOOLEAN]

(* The object inside resolve: its id, the next of its symbols, and the     *)
(* names to reconcile afterwards.                                          *)
Currents == [oid : Nat, at : Nat \ {0}, touched : SUBSET Names]

(* As ELF has it, a section is in one group at most.                       *)
OneGroupEach(obj) ==
  \A i, j \in DOMAIN obj.groups :
    i # j => obj.groups[i].members \cap obj.groups[j].members = {}

(* Every object a command line leads to.                                   *)
ObjectsOf(l) ==
  ToSet(l.bare) \cup ToSet(l.whole) \cup ToSet(l.startlib)
    \cup UNION {ToSet(a.members) : a \in ToSet(l.archives)}

(* A name of an archive is a path, so one archive has it.                  *)
ASSUME ResolveAssumption ==
  /\ Provided \subseteq Names /\ {Entry, TlsGetAddr} \subseteq Names
  /\ Links \subseteq CommandLines
  /\ \A l \in Links :
       /\ \A obj \in ObjectsOf(l) : OneGroupEach(obj)
       /\ \A a, b \in ToSet(l.archives) : a.name = b.name => a = b
  /\ None \notin Nat /\ None \notin Nat \X Nat /\ None \notin Entries
  /\ None \notin Objects /\ None \notin Archives /\ None \notin Currents

VARIABLES
  link,         \* the command line, never changed
  pc,           \* the phase
  injected,     \* the CRT objects take part (the first attempt)
  table,        \* Resolver::symbols
  objects,      \* Resolver::objects; the id of an object counts from 0
  seen_comdat,  \* Resolver::seen_comdat
  excluded,     \* Resolver::excluded: pairs of object id and section
  cur,          \* the object inside resolve (Currents), or None
  queue,        \* objects that are resolved unconditionally
  lazy,         \* [members, at, undefined, pulled]: pull_lazy_members
  arch,         \* include_archive_members: archives and offsets
  shared        \* [lib, at, satisfied, needed]: the library loop, lib and at
                \* the positions of the library and of the export in it

rvars == <<link, pc, injected, table, objects, seen_comdat, excluded, cur, queue,
           lazy, arch, shared>>

NoMembers == [members |-> <<>>, at |-> 1, undefined |-> {}, pulled |-> 0]
NoArchives == [pending |-> <<>>, skipped |-> <<>>, indexed |-> <<>>, parsed |-> 0,
               seen |-> {}]
NoLibs == [lib |-> 1, at |-> 1, satisfied |-> FALSE, needed |-> {}]

(* A list without some of its members: None is in their place, and passed  *)
(* over by whatever goes through the list.                                 *)
Only(s, S) == [i \in DOMAIN s |-> IF i \in S THEN s[i] ELSE None]

(* load_and_resolve_with_crt_fallback filters the injected objects out.    *)
Bare(l, crt) == Only(l.bare, {i \in DOMAIN l.bare : crt \/ i \notin l.crt})

Init ==
  /\ link \in Links
  /\ pc = "bare"
  /\ injected = TRUE
  /\ table = EmptyTable
  /\ objects = <<>> /\ seen_comdat = {} /\ excluded = {} /\ cur = None
  /\ queue = Bare(link, TRUE)
  /\ lazy = NoMembers /\ arch = NoArchives /\ shared = NoLibs
-----------------------------------------------------------------------------
(* Resolver::resolve.                                                      *)

(* A group is dropped if its signature was seen, in an earlier object or   *)
(* in an earlier group of this one.                                        *)
DroppedGroups(obj) ==
  {i \in DOMAIN obj.groups :
     \/ obj.groups[i].sig \in seen_comdat
     \/ \E j \in 1..(i - 1) : obj.groups[j].sig = obj.groups[i].sig}

(* Bug: all groups are kept.                                               *)
DroppedSectionsNone(obj) == {}

DroppedSections(obj) == UNION {obj.groups[i].members : i \in DroppedGroups(obj)}

(* add_object and the groups.                                              *)
Begin(obj, touched) ==
  LET oid == Len(objects)
  IN /\ cur' = [oid |-> oid, at |-> 1, touched |-> touched]
     /\ objects' = Append(objects, obj)
     /\ seen_comdat' = seen_comdat \cup {obj.groups[i].sig : i \in DOMAIN obj.groups}
     /\ excluded' = excluded \cup {<<oid, s>> : s \in DroppedSections(obj)}

(* Position i of the symbols of object o.                                  *)
Sym(o, i) == objects[o + 1].syms[i]

(* process_object_excluding passes over locals and what was dropped.       *)
Kept(o, i) == Sym(o, i).binding # "Local" /\ <<o, Sym(o, i).section>> \notin excluded

Resolving == cur # None
Unfinished == Resolving /\ cur.at \in DOMAIN objects[cur.oid + 1].syms
Finished == Resolving /\ cur.at \notin DOMAIN objects[cur.oid + 1].syms
Symbol == Sym(cur.oid, cur.at)
Conflict == Kept(cur.oid, cur.at) /\ Duplicate(table, Symbol)

(* One symbol is merged or passed over.                                    *)
Merge ==
  /\ Unfinished /\ ~Conflict
  /\ table' = IF Kept(cur.oid, cur.at) THEN MergeSymbol(table, cur.oid, Symbol) ELSE table
  /\ cur' = [cur EXCEPT !.at = @ + 1]
  /\ UNCHANGED <<link, pc, injected, objects, seen_comdat, excluded, queue, lazy,
                 arch, shared>>

(* A duplicate _start while CRT objects are injected: everything is thrown *)
(* away and resolved again without them.                                   *)
Retry == injected /\ link.crt # {} /\ Symbol.name = Entry

RetryWithoutCrt ==
  /\ Unfinished /\ Conflict
  /\ Retry
  /\ injected' = FALSE
  /\ pc' = "bare"
  /\ table' = EmptyTable
  /\ objects' = <<>> /\ seen_comdat' = {} /\ excluded' = {} /\ cur' = None
  /\ queue' = Bare(link, FALSE)
  /\ lazy' = NoMembers /\ arch' = NoArchives /\ shared' = NoLibs
  /\ UNCHANGED link

(* Any other duplicate ends the link.                                      *)
FailDuplicate ==
  /\ Unfinished /\ Conflict /\ pc # "duplicate"
  /\ ~Retry
  /\ pc' = "duplicate"
  /\ UNCHANGED <<link, injected, table, objects, seen_comdat, excluded, cur, queue,
                 lazy, arch, shared>>
-----------------------------------------------------------------------------
(* Bare objects, then whole archives: everything in the queue.             *)

Idle(phase) == pc = phase /\ cur = None

ResolveNext ==
  /\ Idle("bare") \/ Idle("whole")
  /\ queue # <<>> /\ Head(queue) # None
  /\ Begin(Head(queue), {})
  /\ queue' = Tail(queue)
  /\ UNCHANGED <<link, pc, injected, table, lazy, arch, shared>>

PassOver ==
  /\ Idle("bare") \/ Idle("whole")
  /\ queue # <<>> /\ Head(queue) = None
  /\ queue' = Tail(queue)
  /\ UNCHANGED <<link, pc, injected, table, objects, seen_comdat, excluded, cur,
                 lazy, arch, shared>>

Resolved ==
  /\ pc \in {"bare", "whole"} /\ Finished
  /\ cur' = None
  /\ UNCHANGED <<link, pc, injected, table, objects, seen_comdat, excluded, queue,
                 lazy, arch, shared>>

Parsable(s) == Only(s, {i \in DOMAIN s : s[i].parses})

(* force_undefined for -u; then include_whole_archive_members, which       *)
(* passes over what it cannot parse.                                       *)
BareDone ==
  /\ Idle("bare") /\ queue = <<>>
  /\ pc' = "whole"
  /\ table' = ForceUndefined(table, link.forced)
  /\ queue' = Parsable(link.whole)
  /\ UNCHANGED <<link, injected, objects, seen_comdat, excluded, cur, lazy, arch, shared>>

(* include_start_lib_members begins.                                       *)
WholeDone ==
  /\ Idle("whole") /\ queue = <<>>
  /\ pc' = "startlib"
  /\ lazy' = [NoMembers EXCEPT !.members = link.startlib,
                               !.undefined = GlobalUndefined(table)]
  /\ UNCHANGED <<link, injected, table, objects, seen_comdat, excluded, cur, queue,
                 arch, shared>>
-----------------------------------------------------------------------------
(* pull_lazy_members.                                                      *)

Pulling == pc \in {"startlib", "pull"} /\ cur = None

MemberDefines(obj) ==
  {obj.syms[i].name : i \in {j \in DOMAIN obj.syms :
     obj.syms[j].kind # "undefined" /\ obj.syms[j].binding # "Local"}}

MemberRefers(obj) ==
  {obj.syms[i].name : i \in {j \in DOMAIN obj.syms : obj.syms[j].kind = "undefined"}}

Wanted(m) == m # None /\ MemberDefines(m) \cap lazy.undefined # {}

SkipMember ==
  /\ Pulling /\ lazy.at <= Len(lazy.members)
  /\ ~Wanted(lazy.members[lazy.at])
  /\ lazy' = [lazy EXCEPT !.at = @ + 1]
  /\ UNCHANGED <<link, pc, injected, table, objects, seen_comdat, excluded, cur,
                 queue, arch, shared>>

PullMember ==
  /\ Pulling /\ lazy.at <= Len(lazy.members)
  /\ Wanted(lazy.members[lazy.at])
  /\ LET obj == lazy.members[lazy.at]
     IN Begin(obj, MemberDefines(obj) \cup MemberRefers(obj))
  /\ lazy' = [lazy EXCEPT !.members[lazy.at] = None]
  /\ UNCHANGED <<link, pc, injected, table, queue, arch, shared>>

(* Bug: what the member claims to define is taken off the set.             *)
StillUndefinedTrusting ==
  LET obj == objects[cur.oid + 1]
      claimed == cur.touched \ MemberRefers(obj)
  IN (lazy.undefined \ claimed) \cup (GlobalUndefined(table) \cap MemberRefers(obj))

(* The names the member touched are looked up again in the table.          *)
StillUndefined ==
  (lazy.undefined \ cur.touched) \cup (GlobalUndefined(table) \cap cur.touched)

Reconcile ==
  /\ pc \in {"startlib", "pull"} /\ Finished
  /\ lazy' = [lazy EXCEPT !.undefined = StillUndefined, !.at = @ + 1, !.pulled = @ + 1]
  /\ cur' = None
  /\ UNCHANGED <<link, pc, injected, table, objects, seen_comdat, excluded, queue,
                 arch, shared>>

AllTried == Pulling /\ lazy.at > Len(lazy.members)

(* include_start_lib_members goes round again, or ends.                    *)
StartLibAgain ==
  /\ pc = "startlib" /\ AllTried
  /\ lazy.pulled > 0 /\ lazy.undefined # {}
  /\ lazy' = [lazy EXCEPT !.at = 1, !.pulled = 0]
  /\ UNCHANGED <<link, pc, injected, table, objects, seen_comdat, excluded, cur,
                 queue, arch, shared>>

(* Archives named more than once are looked at once.                       *)
Unique(s) == Only(s, {i \in DOMAIN s : \A j \in 1..(i - 1) : s[j] # s[i]})

StartLibDone ==
  /\ pc = "startlib" /\ AllTried
  /\ lazy.pulled = 0 \/ lazy.undefined = {}
  /\ pc' = "round"
  /\ lazy' = [NoMembers EXCEPT !.undefined = GlobalUndefined(table)]
  /\ arch' = [NoArchives EXCEPT !.pending = Unique(link.archives)]
  /\ UNCHANGED <<link, injected, table, objects, seen_comdat, excluded, cur, queue, shared>>
-----------------------------------------------------------------------------
(* include_archive_members.  An archive is [name, indexed, members], the   *)
(* position of a member standing for its offset.                           *)

Round ==
  /\ pc = "round" /\ lazy.undefined # {}
  /\ pc' = "scan"
  /\ arch' = [arch EXCEPT !.skipped = <<>>, !.indexed = <<>>, !.parsed = 0]
  /\ UNCHANGED <<link, injected, table, objects, seen_comdat, excluded, cur, queue,
                 lazy, shared>>

(* iter_archive_members_matching: the members the index names for a        *)
(* wanted symbol and that were not read before.                            *)
Matching(a) ==
  {i \in DOMAIN a.members : /\ MemberDefines(a.members[i]) \cap lazy.undefined # {}
                            /\ <<a.name, i>> \notin arch.seen}

Collected(a, is) == Only(a.members, {i \in is : a.members[i].parses})

(* No new match: the archive stays pending, as does None.                  *)
SkipArchive ==
  /\ pc = "scan" /\ arch.pending # <<>>
  /\ LET a == Head(arch.pending)
     IN /\ a # None => a.indexed /\ Matching(a) = {}
        /\ arch' = [arch EXCEPT !.pending = Tail(@), !.skipped = Append(@, a)]
  /\ UNCHANGED <<link, pc, injected, table, objects, seen_comdat, excluded, cur,
                 queue, lazy, shared>>

ParseMatching ==
  /\ pc = "scan" /\ arch.pending # <<>>
  /\ LET a == Head(arch.pending)
         is == Matching(a)
     IN /\ a # None /\ a.indexed /\ is # {}
        /\ arch' = [arch EXCEPT !.pending = Tail(@), !.indexed = Append(@, a),
                                !.parsed = @ + 1,
                                !.seen = @ \cup {<<a.name, i>> : i \in is}]
        /\ lazy' = [lazy EXCEPT !.members = @ \o Collected(a, is)]
  /\ UNCHANGED <<link, pc, injected, table, objects, seen_comdat, excluded, cur,
                 queue, shared>>

(* An archive without an index is read as a whole, once.                   *)
ParseAll ==
  /\ pc = "scan" /\ arch.pending # <<>>
  /\ LET a == Head(arch.pending)
     IN /\ a # None /\ ~a.indexed
        /\ arch' = [arch EXCEPT !.pending = Tail(@), !.parsed = @ + 1]
        /\ lazy' = [lazy EXCEPT !.members = @ \o Parsable(a.members)]
  /\ UNCHANGED <<link, pc, injected, table, objects, seen_comdat, excluded, cur,
                 queue, shared>>

ScanDone ==
  /\ pc = "scan" /\ arch.pending = <<>>
  /\ pc' = "pull"
  /\ lazy' = [lazy EXCEPT !.at = 1, !.pulled = 0]
  /\ UNCHANGED <<link, injected, table, objects, seen_comdat, excluded, cur, queue,
                 arch, shared>>

(* Bug: archives that were read are not looked at again.                   *)
NextPendingSkipped == arch.skipped

(* Archives that matched are looked at again if a member was pulled.       *)
NextPending == arch.skipped \o (IF lazy.pulled > 0 THEN arch.indexed ELSE <<>>)

(* Bug: rounds go on while a reference is open.                            *)
NoProgressNever == FALSE

NoProgress == lazy.pulled = 0 /\ arch.parsed = 0

RoundDone ==
  /\ pc = "pull" /\ AllTried
  /\ arch' = [arch EXCEPT !.pending = NextPending]
  /\ pc' = IF NoProgress THEN "archived" ELSE "round"
  /\ UNCHANGED <<link, injected, table, objects, seen_comdat, excluded, cur, queue,
                 lazy, shared>>
-----------------------------------------------------------------------------
(* The shared objects, in order, export by export.                         *)

ArchivesDone ==
  /\ pc = "archived" \/ (pc = "round" /\ lazy.undefined = {})
  /\ pc' = "shared"
  /\ UNCHANGED <<link, injected, table, objects, seen_comdat, excluded, cur, queue,
                 lazy, arch, shared>>

Reading == pc = "shared" /\ shared.lib \in DOMAIN link.libs
Exports == link.libs[shared.lib].exports

Register ==
  /\ Reading /\ shared.at \in DOMAIN Exports
  /\ LET n == Exports[shared.at]
     IN /\ table' = RegisterExport(table, n)
        /\ shared' = [shared EXCEPT !.at = @ + 1,
                                    !.satisfied = @ \/ Satisfies(table, n)]
  /\ UNCHANGED <<link, pc, injected, objects, seen_comdat, excluded, cur, queue,
                 lazy, arch>>

(* Bug: --as-needed libraries are always recorded.                         *)
NeededAlways(lib) == TRUE

Needed(lib) == ~lib.as_needed \/ shared.satisfied

LibraryDone ==
  /\ Reading /\ shared.at \notin DOMAIN Exports
  /\ LET lib == link.libs[shared.lib]
     IN shared' = [lib |-> shared.lib + 1, at |-> 1, satisfied |-> FALSE,
                   needed |-> shared.needed \cup (IF Needed(lib) THEN {lib.soname} ELSE {})]
  /\ UNCHANGED <<link, pc, injected, table, objects, seen_comdat, excluded, cur,
                 queue, lazy, arch>>

SharedDone ==
  /\ pc = "shared" /\ shared.lib \notin DOMAIN link.libs
  /\ pc' = "weakgot"
  /\ UNCHANGED <<link, injected, table, objects, seen_comdat, excluded, cur, queue,
                 lazy, arch, shared>>
-----------------------------------------------------------------------------
(* assign_weak_got_ids: weak references through the GOT that nothing       *)
(* satisfied.  The order of the ids is left open.                          *)
NeedsGotId ==
  {n \in Names :
     /\ \E o \in DOMAIN objects : \E i \in DOMAIN objects[o].syms :
          LET s == objects[o].syms[i] IN s.name = n /\ s.binding = "Weak" /\ s.got
     /\ Satisfies(table, n) /\ table.res[n].id = None}

AssignWeakGotId ==
  /\ pc = "weakgot"
  /\ \E n \in NeedsGotId : table' = Mint(table, n, table.res[n])
  /\ UNCHANGED <<link, pc, injected, objects, seen_comdat, excluded, cur, queue,
                 lazy, arch, shared>>

(* predefine_linker_symbols, then apply_defsym.                            *)
Predefine ==
  /\ pc = "weakgot" /\ NeedsGotId = {}
  /\ LET wanted == {n \in Provided : table.res[n] # None /\ table.res[n].defined_in = None}
     IN table' = DefineAbsolute(DefineAbsolute(table, wanted), link.defsyms)
  /\ pc' = "check"
  /\ UNCHANGED <<link, injected, objects, seen_comdat, excluded, cur, queue, lazy,
                 arch, shared>>

(* check_undefined, for executables and under --no-undefined, and          *)
(* check_required_defined.                                                 *)
Unresolved == link.enforce /\ GlobalUndefined(table) \ {TlsGetAddr} # {}

Missing == \E n \in link.required : table.res[n] = None \/ ~IsDefined(table.res[n])

Check ==
  /\ pc = "check"
  /\ pc' = IF Unresolved \/ Missing THEN "undefined" ELSE "done"
  /\ UNCHANGED <<link, injected, table, objects, seen_comdat, excluded, cur, queue,
                 lazy, arch, shared>>

Ended == pc \in {"done", "undefined", "duplicate"}

Next ==
  \/ Merge \/ RetryWithoutCrt \/ FailDuplicate
  \/ ResolveNext \/ PassOver \/ Resolved \/ BareDone \/ WholeDone
  \/ SkipMember \/ PullMember \/ Reconcile \/ StartLibAgain \/ StartLibDone
  \/ Round \/ SkipArchive \/ ParseMatching \/ ParseAll \/ ScanDone \/ RoundDone
  \/ ArchivesDone \/ Register \/ LibraryDone \/ SharedDone
  \/ AssignWeakGotId \/ Predefine \/ Check
  \/ Ended /\ UNCHANGED rvars

(* One thread, which runs.                                                 *)
Spec == Init /\ [][Next]_rvars /\ WF_rvars(Next)
-----------------------------------------------------------------------------
(* What was merged so far: object ids with positions in the symbols.       *)
Past(p) == Resolving /\ cur.oid = p[1] => p[2] < cur.at

Merged ==
  {p \in UNION {{o} \X DOMAIN objects[o + 1].syms : o \in 0..(Len(objects) - 1)} :
     Kept(p[1], p[2]) /\ Past(p)}

At(p) == Sym(p[1], p[2])

MergedFor(n, kind) == {p \in Merged : At(p).name = n /\ At(p).kind = kind}

Strong(n) == {p \in MergedFor(n, "defined") : At(p).binding = "Global"}

FirstOf(S) ==
  CHOOSE p \in S : \A q \in S : p[1] < q[1] \/ (p[1] = q[1] /\ p[2] <= q[2])

StronglyReferred(n) ==
  \/ \E p \in MergedFor(n, "undefined") : At(p).binding = "Global"
  \/ n \in link.forced /\ pc # "bare"

DefinedAs(e, p) ==
  /\ e.defined_in = p[1] /\ e.section = At(p).section
  /\ e.binding = At(p).binding /\ e.common = None

Final == pc \in {"check", "done", "undefined"}

(* peony-symbols' rules, whatever the order of the merges: the strong      *)
(* definition, of which there is one, else the first weak one, else a      *)
(* common block with the largest size and alignment asked for, else a      *)
(* reference as strong as the strongest.  A duplicate may end the link     *)
(* before -u took effect.                                                  *)
TableIsReference ==
  ~Final /\ pc # "duplicate" =>
    \A n \in Names :
      LET e == table.res[n]
          defs == MergedFor(n, "defined")
          commons == MergedFor(n, "common")
          refs == MergedFor(n, "undefined")
      IN CASE Strong(n) # {} -> \A p \in Strong(n) : DefinedAs(e, p)
           [] Strong(n) = {} /\ defs # {} -> DefinedAs(e, FirstOf(defs))
           [] defs = {} /\ commons # {} ->
                /\ e.defined_in = FirstOf(commons)[1]
                /\ e.common = <<Max({At(p).size : p \in commons}),
                                Max({At(p).align : p \in commons})>>
           [] defs = {} /\ commons = {} /\ (refs # {} \/ StronglyReferred(n)) ->
                /\ e.defined_in = None
                /\ e.binding = IF StronglyReferred(n) THEN "Global" ELSE "Weak"
           [] OTHER -> e = None

(* A duplicate is reported only for two strong definitions that were both  *)
(* kept.                                                                   *)
NoFalseDuplicate ==
  pc = "duplicate" =>
    LET s == Symbol
    IN Kept(cur.oid, cur.at) /\ s.kind = "defined" /\ s.binding = "Global" /\ Strong(s.name) # {}

(* The comment in pull_lazy_members: the set that is kept up to date       *)
(* member by member is the set of strong references the table has open.    *)
UndefinedExact ==
  pc \in {"startlib", "round", "scan", "pull"} /\ cur = None =>
    lazy.undefined = GlobalUndefined(table)

(* include_archive_members' global fixpoint: no member that was left out   *)
(* of any archive defines a symbol that is still open, in whatever order   *)
(* archives are named and members refer to each other.                     *)
ArchivesExhausted ==
  pc \in {"archived", "shared", "weakgot"} =>
    \A k \in DOMAIN link.archives : \A i \in DOMAIN link.archives[k].members :
      LET m == link.archives[k].members[i]
      IN m.parses /\ MemberDefines(m) \cap GlobalUndefined(table) # {} =>
           m \in ToSet(objects)

(* Ids and names are a bijection, as name_by_id, GOT slots and the         *)
(* incremental layout gate assume, and what has a definition has an id.    *)
IdsBijective ==
  /\ \A i \in DOMAIN table.names : table.res[table.names[i]].id = i - 1
  /\ \A n \in Names :
       LET e == table.res[n]
       IN e # None =>
            /\ e.id # None => e.id < Len(table.names) /\ table.names[e.id + 1] = n
            /\ ~Final /\ IsDefined(e) => e.id # None

(* Exactly one copy of a COMDAT group is kept, and no symbol resolves into *)
(* a copy that was dropped.                                                *)
OneCopyPerGroup ==
  /\ \A sig \in seen_comdat :
       \E o \in DOMAIN objects : \E i \in DOMAIN objects[o].groups :
         /\ objects[o].groups[i].sig = sig
         /\ \A p \in DOMAIN objects : \A j \in DOMAIN objects[p].groups :
              objects[p].groups[j].sig = sig =>
                \A s \in objects[p].groups[j].members :
                  <<p - 1, s>> \in excluded <=> <<p, j>> # <<o, i>>
  /\ \A n \in Names : table.res[n] # None =>
       <<table.res[n].defined_in, table.res[n].section>> \notin excluded

(* A link that succeeds leaves no strong reference of any object it took   *)
(* in, nor one from the command line, without a definition or an import.   *)
StrongReferencesResolved ==
  pc = "done" /\ link.enforce =>
    \A n \in Names \ {TlsGetAddr} : StronglyReferred(n) => IsDefined(table.res[n])

(* What is reported is what is wrong: no false duplicate, and the set that *)
(* pull_lazy_members keeps by hand hides no open reference, so none is     *)
(* pulled for nothing, and none slips through into a link that succeeds.   *)
ErrorsExact == NoFalseDuplicate /\ UndefinedExact /\ StrongReferencesResolved

(* The whole table: what is merged first, last and in between gives the    *)
(* reference resolution, under ids that are a bijection, and never leads   *)
(* into a COMDAT copy that was dropped.                                    *)
TableSound == TableIsReference /\ IdsBijective /\ OneCopyPerGroup

(* DT_NEEDED names the libraries that are not --as-needed and those an     *)
(* import comes from: the first that exports it.                           *)
Provides(k) ==
  {n \in ToSet(link.libs[k].exports) :
     /\ table.res[n] # None /\ table.res[n].import
     /\ \A j \in 1..(k - 1) : n \notin ToSet(link.libs[j].exports)}

NeededExact ==
  pc = "weakgot" =>
    shared.needed =
      {link.libs[k].soname :
         k \in {k \in DOMAIN link.libs : ~link.libs[k].as_needed \/ Provides(k) # {}}}

(* The rounds over the archives come to an end.                            *)
ResolutionEnds == <>Ended
=============================================================================
