----------------------------- MODULE InputFiles -----------------------------
(***************************************************************************)
(* peony/src/inputs.rs: the inputs of the command line become files.       *)
(* Libraries are looked up, linker scripts among the inputs replaced by    *)
(* what they name, and start-up objects put around the rest.               *)
(*                                                                         *)
(* A disk is a record                                                      *)
(*   kind     path to "object", "archive", "shared" or "script"            *)
(*   refs     script to what it names: <<"-l", n>> or <<"", name>>         *)
(*   dir      script to its directory                                      *)
(*   entry, base, rejected   what -T scripts say: "" for nothing, and the  *)
(*            scripts with a directive peony does not support              *)
(*   found    <<dir, file>> to path, for the files that exist; a library   *)
(*            is <<n, "so">> or <<n, "a">>, anything else <<name>>         *)
(*   system   the directories searched after those of -L                   *)
(*   crt      the five start-up objects, or none of them                   *)
(***************************************************************************)
EXTENDS CommandLine, FiniteSetsExt

CONSTANTS
  Disks,      \* the disks considered
  Starts      \* names of start-up objects that provide _start

VARIABLES
  disk,       \* never changes
  queue,      \* inputs to resolve, then to expand
  inputs      \* the input list so far

ivars == <<disk, queue, inputs>>
vars == <<cvars, ivars>>

InitFiles == Init /\ disk \in Disks /\ queue = << >> /\ inputs = << >>
Refuse(e) ==
  /\ pc' = "error" /\ st' = [st EXCEPT !.error = e]
  /\ UNCHANGED <<frames, argv, at, ivars>>
-----------------------------------------------------------------------------
(* parse_linker_script_controls: the last script that says something wins, *)
(* and the command line wins over all of them.                             *)
Says(field, s) == s \in DOMAIN disk.kind /\ disk[field][s] # ""
Control(field) ==
  LET ss == SelectSeq(st.list.linker_scripts, LAMBDA s : Says(field, s))
  IN  IF field \in st.given \/ ss = << >> THEN st.single[field] ELSE disk[field][Last(ss)]

ApplyControls ==
  /\ pc = "controls"
  /\ \A s \in ToSet(st.list.linker_scripts) : s \in DOMAIN disk.kind \ disk.rejected
  /\ st' = [st EXCEPT !.single.entry = Control("entry"), !.single.base = Control("base")]
  /\ queue' = st.specs /\ pc' = "resolve"
  /\ UNCHANGED <<frames, argv, at, disk, inputs>>
RejectScript ==
  /\ pc = "controls"
  /\ \E s \in ToSet(st.list.linker_scripts) : s \notin DOMAIN disk.kind \ disk.rejected
  /\ Refuse("script")
-----------------------------------------------------------------------------
(* resolve_inputs.  A search is the positions of the candidates that exist *)
(* in the order they are tried.                                            *)
Search == st.list.library_paths \o disk.system
FirstExisting(candidates) ==
  LET at_ == {k \in DOMAIN candidates : candidates[k] \in DOMAIN disk.found}
  IN  IF at_ = {} THEN {} ELSE {disk.found[candidates[Min(at_)]]}
Candidates(dirs, names) ==
  FlattenSeq([d \in DOMAIN dirs |-> [k \in DOMAIN names |-> <<dirs[d], names[k]>>]])

(* Bug: every directory is searched for shared libraries first.            *)
ResolveLibrarySharedFirst(n, mode) ==
  FirstExisting((IF mode = "static" THEN << >> ELSE Candidates(Search, <<<<n, "so">>>>))
                \o Candidates(Search, <<<<n, "a">>>>))
ResolveLibrary(n, mode) ==
  FirstExisting(Candidates(Search, IF mode = "static" THEN <<<<n, "a">>>> ELSE <<<<n, "so">>, <<n, "a">>>>))

PathsOf(spec) == IF spec.kind = "path" THEN {spec.name} ELSE ResolveLibrary(spec.name, spec.library)
File(path, spec) ==
  [path |-> path, whole |-> spec.whole, needed |-> spec.needed, start_lib |-> spec.start_lib]

ResolveSpec ==
  /\ pc = "resolve" /\ queue # << >>
  /\ \E p \in PathsOf(Head(queue)) : inputs' = Append(inputs, File(p, Head(queue)))
  /\ queue' = Tail(queue)
  /\ UNCHANGED <<cvars, disk>>
LibraryNotFound ==
  /\ pc = "resolve" /\ queue # << >> /\ PathsOf(Head(queue)) = {}
  /\ Refuse("library")
NoInputFiles ==
  /\ pc = "resolve" /\ queue = << >> /\ inputs = << >>
  /\ Refuse("no input")
ResolvedAll ==
  /\ pc = "resolve" /\ queue = << >> /\ inputs # << >>
  /\ pc' = "expand" /\ queue' = inputs /\ inputs' = << >>
  /\ UNCHANGED <<frames, argv, at, st, disk>>
-----------------------------------------------------------------------------
(* expand_inputs: what a script names goes to the end of the queue.        *)
IsScript(p) == p \in DOMAIN disk.kind /\ disk.kind[p] = "script"

(* resolve_script_ref; an absolute name is found in the directory "/".     *)
RefPaths(script, r) ==
  IF r[1] = "-l" THEN FirstExisting(Candidates(Search, <<<<r[2], "so">>, <<r[2], "a">>>>))
  ELSE FirstExisting(Candidates(<<"/", disk.dir[script]>> \o Search, <<<<r[2]>>>>))

(* Bug: a script nothing of which is found is put back.                    *)
RefsOfPutBack(f) ==
  LET refs == FlattenSeq([k \in DOMAIN disk.refs[f.path] |->
                SetToSeq({[f EXCEPT !.path = p] : p \in RefPaths(f.path, disk.refs[f.path][k])})])
  IN  IF refs = << >> THEN <<f>> ELSE refs

RefsOf(f) ==
  FlattenSeq([k \in DOMAIN disk.refs[f.path] |->
     SetToSeq({[f EXCEPT !.path = p] : p \in RefPaths(f.path, disk.refs[f.path][k])})])

ExpandInput ==
  LET f == Head(queue) IN
  /\ pc = "expand" /\ queue # << >>
  /\ IF IsScript(f.path) THEN queue' = Tail(queue) \o RefsOf(f) /\ UNCHANGED inputs
     ELSE queue' = Tail(queue) /\ inputs' = Append(inputs, f)
  /\ UNCHANGED <<cvars, disk>>
ExpandedInputs ==
  /\ pc = "expand" /\ queue = << >> /\ pc' = "crt"
  /\ UNCHANGED <<frames, argv, at, st, ivars>>

(* inject_crt_objects.                                                     *)
Plain(p) == [path |-> p, whole |-> FALSE, needed |-> FALSE, start_lib |-> FALSE]
InjectsCrt ==
  /\ ~st.on.shared /\ st.on.pie /\ ~st.on.no_crt
  /\ \A k \in DOMAIN inputs : inputs[k].path \notin Starts
  /\ disk.crt # << >>
InjectCrtObjects ==
  LET crt == [k \in DOMAIN disk.crt |-> Plain(disk.crt[k])] IN
  /\ pc = "crt" /\ pc' = "load"
  /\ inputs' = IF InjectsCrt THEN SubSeq(crt, 1, 3) \o inputs \o SubSeq(crt, 4, 5) ELSE inputs
  /\ UNCHANGED <<frames, argv, at, st, disk, queue>>

Ended == pc \in {"load", "error"} /\ UNCHANGED vars

ReadCommandLine == Reading /\ UNCHANGED ivars
Next ==
  \/ ReadCommandLine \/ ApplyControls \/ RejectScript \/ ResolveSpec \/ LibraryNotFound
  \/ NoInputFiles \/ ResolvedAll \/ ExpandInput \/ ExpandedInputs \/ InjectCrtObjects \/ Ended
Spec == InitFiles /\ [][Next]_vars /\ WF_vars(Next)
-----------------------------------------------------------------------------
(* What the command line says, argument by argument: an argument is a      *)
(* value of the one before, and a mode that is set between --push-state    *)
(* and its --pop-state is undone by it.                                    *)
IsValue(k) == k > 1 /\ TakesValue(argv[k - 1]) /\ (k > 2 => ~TakesValue(argv[k - 2]))
Is(k, flags) == ~IsValue(k) /\ Len(argv[k]) = 1 /\ argv[k][1] \in flags
Depth(k) ==
  Cardinality({j \in 1 .. k - 1 : Is(j, {"--push-state"})})
    - Cardinality({j \in 1 .. k - 1 : Is(j, {"--pop-state"})})
Undone(j, k) == \E i \in j .. k : Is(i, {"--pop-state"}) /\ Depth(i) = Depth(j)
                                  /\ \A h \in j .. i : Depth(h) >= Depth(j)
                                  /\ \E o \in 1 .. j - 1 : Is(o, {"--push-state"}) /\ Depth(o) = Depth(j) - 1
InForce(k, flags) ==
  LET set == {j \in 1 .. k - 1 : Is(j, flags) /\ ~Undone(j, k - 1)}
  IN  IF set = {} THEN "" ELSE argv[Max(set)][1]

Inputs == {k \in DOMAIN argv : ~IsValue(k) /\ (argv[k][1] = "" \/ argv[k][1] = "-l")}
Expected(k) ==
  LET lib == argv[k][1] = "-l"
      mode == InForce(k, {"-Bstatic", "-static", "-Bdynamic"})
      name == IF lib /\ Len(argv[k]) = 1 THEN Text(argv[k + 1]) ELSE Text(argv[k])
      exts == IF mode \in {"-Bstatic", "-static"} THEN <<"a">> ELSE <<"so", "a">>
      dirs == {d \in DOMAIN Search : \E e \in ToSet(exts) : <<Search[d], <<name, e>>>> \in DOMAIN disk.found}
      dir == Search[Min(dirs)]
      ext == exts[Min({e \in DOMAIN exts : <<dir, <<name, exts[e]>>>> \in DOMAIN disk.found})]
  IN  [path |-> IF lib THEN disk.found[<<dir, <<name, ext>>>>] ELSE name,
       whole |-> InForce(k, {"--whole-archive", "--no-whole-archive"}) = "--whole-archive",
       needed |-> InForce(k, {"--as-needed", "--no-as-needed"}) = "--as-needed",
       start_lib |-> \E j \in 1 .. k - 1 : Is(j, {"--start-lib"}) /\ ~\E i \in j .. k - 1 : Is(i, {"--end-lib"})]
Named == LET order == SetToSortSeq(Inputs, <) IN [k \in DOMAIN order |-> Expected(order[k])]

(* Everything that comes from f when scripts are followed, d levels deep.  *)
ScriptDepth == Cardinality({p \in DOMAIN disk.kind : IsScript(p)})
Leaves[d \in 0 .. ScriptDepth] ==
  [f \in {File(p, g) : p \in DOMAIN disk.kind \cup {h.path : h \in ToSet(Named)}, g \in ToSet(Named)} |->
     IF ~IsScript(f.path) THEN <<f>>
     ELSE IF d = 0 THEN << >>
     ELSE FlattenSeq([k \in DOMAIN RefsOf(f) |-> Leaves[d - 1][RefsOf(f)[k]]])]
Count(s, x) == Cardinality({k \in DOMAIN s : s[k] = x})

(* The files that are loaded are those the command line names: what it     *)
(* names directly in its order and first, each under the modes in force at *)
(* its place, whatever was pushed, popped and spliced in before; then all  *)
(* that scripts lead to, as often as they do, under the modes of the       *)
(* script; the start-up objects around all of it, or none.                 *)
InputsSound ==
  pc = "load" =>
    LET injected == \E k \in DOMAIN inputs : inputs[k].path \in ToSet(disk.crt)
        mid == IF injected THEN SubSeq(inputs, 4, Len(inputs) - 2) ELSE inputs
        direct == SelectSeq(Named, LAMBDA f : ~IsScript(f.path))
        all == FlattenSeq([k \in DOMAIN Named |-> Leaves[ScriptDepth][Named[k]]])
    IN
    /\ SubSeq(mid, 1, Len(direct)) = direct
    /\ Len(mid) = Len(all) /\ \A x \in ToSet(all) : Count(mid, x) = Count(all, x)
    /\ injected =>
         /\ [k \in 1..3 |-> inputs[k].path] = SubSeq(disk.crt, 1, 3)
         /\ [k \in 1..2 |-> inputs[Len(inputs) - 2 + k].path] = SubSeq(disk.crt, 4, 5)

(* No script leads back to itself.                                         *)
Scripts == {p \in DOMAIN disk.kind : IsScript(p)}
Leads(p, q) == \E k \in DOMAIN disk.refs[p] : q \in RefPaths(p, disk.refs[p][k])
Acyclic ==
  \E level \in [Scripts -> 0 .. Cardinality(Scripts)] :
    \A p, q \in Scripts : Leads(p, q) => level[q] < level[p]

(* Reading the command line ends, also when response files name each       *)
(* other, and so does following scripts, unless one leads back to itself   *)
(* (expand_inputs keeps no record of what it has expanded).                *)
CommandLineEnds == <>(pc \in {"load", "error"} \/ (pc = "expand" /\ ~Acyclic))
=============================================================================
