---------------------------- MODULE CommandLine ----------------------------
(***************************************************************************)
(* peony/src/args.rs: response files are spliced in, arguments read from   *)
(* left to right under modes that apply to the inputs after them, and the  *)
(* arguments that matter for the output become the key of the cache.       *)
(*                                                                         *)
(* An argument is a sequence of its parts: <<"--as-needed">>, a flag with  *)
(* its value in it <<"-l", "m">>, a plain word <<"", "main.o">>, and       *)
(* <<"@", "f">> for a response file.                                       *)
(***************************************************************************)
EXTENDS Naturals, SequencesExt

CONSTANTS
  CommandLines,     \* the command lines considered
  ResponseFiles,    \* readable response files: name to file (canonical)
  Contents,         \* file to its arguments
  MaxNesting        \* response files in response files: 16

(* An argument has one part or two; no argument is empty.                  *)
IsArgument(t) == (t = <<t[1]>> /\ t[1] # "") \/ t = <<t[1], t[2]>>
IsCommandLine(c) == c \in Seq(ToSet(c)) /\ \A k \in DOMAIN c : IsArgument(c[k])
ASSUME ArgumentsAssumption ==
  /\ \A c \in CommandLines : IsCommandLine(c)
  /\ \A f \in DOMAIN ResponseFiles : IsCommandLine(Contents[ResponseFiles[f]])

VARIABLES
  pc,         \* "response", "parse", then the passes of InputFiles
  frames,     \* response files being read, each with what is left of it
  argv,       \* raw_args: the arguments after expansion
  at,         \* the next argument
  st          \* the parser: modes, stack, pending flag and Args

cvars == <<pc, frames, argv, at, st>>

(* The value of an argument as text.                                       *)
Text(t) == Last(t)

(* Flags that set or clear fields of Args, flags whose value is the last   *)
(* one given, and flags whose values add up.                               *)
Settings ==
  [gc |-> <<"--gc-sections", "--no-gc-sections">>, icf |-> <<"--icf", "--no-icf">>,
   build_id |-> <<"--build-id", "">>, strip |-> <<"-s", "">>,
   incremental |-> <<"--incremental", "--no-incremental">>,
   daemon |-> <<"--daemon", "">>, stats |-> <<"--stats", "">>,
   pie |-> <<"-pie", "-no-pie">>, no_crt |-> <<"--no-crt", "">>,
   shared |-> <<"-shared", "">>, relocatable |-> <<"-r", "">>,
   no_undefined |-> <<"--no-undefined", "--allow-shlib-undefined">>]
FieldsOf(w) == {f \in DOMAIN Settings : w \in {Settings[f][1], Settings[f][2]}}
Singles ==
  [output |-> "-o", entry |-> "-e", base |-> "--base-address", threads |-> "--threads",
   cache_report |-> "--cache-report", soname |-> "-soname"]
Lists ==
  [library_paths |-> "-L", linker_scripts |-> "-T", defsym |-> "--defsym", undefined |-> "-u"]
Modes ==
  {"--whole-archive", "--no-whole-archive", "--as-needed", "--no-as-needed",
   "-Bstatic", "-Bdynamic", "-static"}
IgnoredWithValue == {"-m", "-rpath-link"}
Values(F) == {F[f] : f \in DOMAIN F}
ValueFlags == Values(Singles) \cup Values(Lists) \cup IgnoredWithValue \cup {"-l", "--wrap"}
TakesValue(t) == Len(t) = 1 /\ t[1] \in ValueFlags

Start ==
  [modes |-> [whole |-> FALSE, needed |-> FALSE, library |-> "any"],
   start_lib |-> FALSE, stack |-> << >>,
   pending |-> "", specs |-> << >>, error |-> "none", unsupported |-> {},
   on |-> [f \in DOMAIN Settings |-> f = "incremental"],
   single |-> [f \in DOMAIN Singles |-> CASE f = "output" -> "a.out"
                                          [] f = "entry" -> "_start"
                                          [] f = "base" -> "0x400000"
                                          [] OTHER -> ""],
   given |-> {}, list |-> [f \in DOMAIN Lists |-> << >>]]

Init ==
  /\ pc = "response" /\ at = 1 /\ argv = << >> /\ st = Start
  /\ \E c \in CommandLines : frames = <<[file |-> "", rest |-> c]>>
-----------------------------------------------------------------------------
(* expand_response_args_inner: the frames are the recursion, the files in  *)
(* them the seen set.                                                      *)
Top == Last(frames)
Seen == {frames[k].file : k \in DOMAIN frames}
Advance == [frames EXCEPT ![Len(frames)].rest = Tail(@)]

CopyArgument ==
  /\ pc = "response" /\ Top.rest # << >> /\ Top.rest[1][1] # "@"
  /\ argv' = Append(argv, Top.rest[1])
  /\ frames' = Advance
  /\ UNCHANGED <<pc, at, st>>

Enterable(f) ==
  /\ f \in DOMAIN ResponseFiles /\ ResponseFiles[f] \notin Seen
  /\ Len(frames) <= MaxNesting

EnterFile ==
  /\ pc = "response" /\ Top.rest # << >> /\ Top.rest[1][1] = "@"
  /\ Enterable(Text(Top.rest[1]))
  /\ LET f == ResponseFiles[Text(Top.rest[1])]
     IN  frames' = Append(Advance, [file |-> f, rest |-> Contents[f]])
  /\ UNCHANGED <<pc, argv, at, st>>

(* Unreadable, recursive or too deep.                                      *)
RejectFile ==
  /\ pc = "response" /\ Top.rest # << >> /\ Top.rest[1][1] = "@"
  /\ ~Enterable(Text(Top.rest[1]))
  /\ pc' = "error" /\ st' = [st EXCEPT !.error = "response file"]
  /\ UNCHANGED <<frames, argv, at>>

LeaveFile ==
  /\ pc = "response" /\ Top.rest = << >> /\ Len(frames) > 1
  /\ frames' = Front(frames)
  /\ UNCHANGED <<pc, argv, at, st>>

ExpandedAll ==
  /\ pc = "response" /\ Top.rest = << >> /\ Len(frames) = 1
  /\ pc' = "parse"
  /\ UNCHANGED <<frames, argv, at, st>>
-----------------------------------------------------------------------------
(* parse_expanded_args, one argument.                                      *)
Spec1(s, kind, name) ==
  [s EXCEPT !.specs = Append(@, [kind |-> kind, name |-> name, whole |-> s.modes.whole, needed |-> s.modes.needed,
                                 library |-> s.modes.library, start_lib |-> s.start_lib])]
Bail(s, e) == [s EXCEPT !.error = e]

SetSingle(s, f, v) == [s EXCEPT !.single[f] = v, !.given = @ \cup {f}]
AddToList(s, f, v) == [s EXCEPT !.list[f] = Append(@, v)]
NameOf(F, flag) == CHOOSE f \in DOMAIN F : F[f] = flag

TakeValue(s, flag, v) ==
  CASE flag \in Values(Singles) -> SetSingle(s, NameOf(Singles, flag), v)
    [] flag \in Values(Lists) -> AddToList(s, NameOf(Lists, flag), v)
    [] flag = "-l" -> Spec1(s, "library", v)
    [] flag = "--wrap" -> [s EXCEPT !.unsupported = @ \cup {"--wrap"}]
    [] OTHER -> s

SetMode(s, m) ==
  CASE m \in {"--whole-archive", "--no-whole-archive"} -> [s EXCEPT !.modes.whole = m = "--whole-archive"]
    [] m \in {"--as-needed", "--no-as-needed"} -> [s EXCEPT !.modes.needed = m = "--as-needed"]
    [] m = "-Bstatic" -> [s EXCEPT !.modes.library = "static"]
    [] m = "-Bdynamic" -> [s EXCEPT !.modes.library = "dynamic"]
    [] m = "-static" -> [s EXCEPT !.modes.library = "static", !.on.pie = FALSE]

(* --daemon needs the cache and --no-incremental ends both.                *)
SetField(s, f, v) ==
  CASE f = "daemon" -> [s EXCEPT !.on.daemon = TRUE, !.on.incremental = TRUE]
    [] f = "incremental" /\ ~v -> [s EXCEPT !.on.daemon = FALSE, !.on.incremental = FALSE]
    [] OTHER -> [s EXCEPT !.on[f] = v]

(* Bug: the state is pushed and popped without --as-needed.                *)
PopStateKeeping(s) ==
  IF s.stack = << >> THEN Bail(s, "pop-state")
  ELSE [s EXCEPT !.modes = [Last(s.stack) EXCEPT !.needed = s.modes.needed], !.stack = Front(@)]
PopState(s) ==
  IF s.stack = << >> THEN Bail(s, "pop-state")
  ELSE [s EXCEPT !.modes = Last(s.stack), !.stack = Front(@)]

(* A flag by itself.                                                       *)
ReadFlag(s, w) ==
  CASE w \in ValueFlags -> [s EXCEPT !.pending = w]
    [] FieldsOf(w) # {} ->
         LET f == CHOOSE f \in FieldsOf(w) : TRUE IN SetField(s, f, Settings[f][1] = w)
    [] w \in Modes -> SetMode(s, w)
    [] w = "--push-state" -> [s EXCEPT !.stack = Append(@, s.modes)]
    [] w = "--pop-state" -> PopState(s)
    [] w = "--start-lib" -> IF s.start_lib THEN Bail(s, "start-lib") ELSE [s EXCEPT !.start_lib = TRUE]
    [] w = "--end-lib" -> IF ~s.start_lib THEN Bail(s, "end-lib") ELSE [s EXCEPT !.start_lib = FALSE]
    [] OTHER -> s

ParseArg(s, t) ==
  CASE s.error # "none" -> s
    [] s.error = "none" /\ s.pending # "" -> [TakeValue(s, s.pending, Text(t)) EXCEPT !.pending = ""]
    [] OTHER ->
         CASE Len(t) = 1 -> ReadFlag(s, t[1])
           [] Len(t) = 2 /\ t[1] = "" -> Spec1(s, "path", t[2])
           [] OTHER -> TakeValue(s, t[1], t[2])

(* At the end: a value that is missing, modes that were not closed.        *)
AtEnd(s) ==
  CASE s.error # "none" -> s
    [] s.error = "none" /\ s.pending \notin IgnoredWithValue \cup {"", "--wrap"} -> Bail(s, "missing value")
    [] OTHER ->
         LET e == [s EXCEPT !.pending = "", !.unsupported = @ \cup ({s.pending} \cap {"--wrap"})]
         IN  IF s.start_lib THEN Bail(e, "end-lib") ELSE IF s.stack # << >> THEN Bail(e, "push-state") ELSE e

ReadUpTo(args) ==
  LET read[k \in 0 .. Len(args)] == IF k = 0 THEN Start ELSE ParseArg(read[k - 1], args[k])
  IN  read
Parse(args) == AtEnd(ReadUpTo(args)[Len(args)])

ReadArgument ==
  /\ pc = "parse" /\ at \in DOMAIN argv /\ st.error = "none"
  /\ st' = ParseArg(st, argv[at]) /\ at' = at + 1
  /\ UNCHANGED <<pc, frames, argv>>

(* reject_unsupported_flags and the rest of main before any file is read:  *)
(* -shared wins over -pie, and -r does not use the cache.                  *)
ParsedAll ==
  LET e == AtEnd(st) IN
  /\ pc = "parse" /\ (at \notin DOMAIN argv \/ st.error # "none")
  /\ st' = IF e.error # "none" THEN e
           ELSE IF e.unsupported # {} THEN Bail(e, "unsupported")
           ELSE [e EXCEPT !.on.pie = @ /\ ~e.on.shared, !.on.incremental = @ /\ ~e.on.relocatable,
                           !.on.daemon = @ /\ ~e.on.relocatable]
  /\ pc' = IF st'.error # "none" THEN "error" ELSE "controls"
  /\ UNCHANGED <<frames, argv, at>>

Reading == CopyArgument \/ EnterFile \/ RejectFile \/ LeaveFile \/ ExpandedAll \/ ReadArgument \/ ParsedAll
-----------------------------------------------------------------------------
(* cache_key_args: diagnostics and scheduling are left out.                *)
Diagnostics == {<<"--incremental">>, <<"--no-incremental">>, <<"--daemon">>, <<"--stats">>}
Scheduling == {"--cache-report", "--threads"}

(* Bug: the value of a flag that is left out stays.                        *)
KeyArgNoSkip(r, t) == IF t \in Diagnostics \/ t[1] \in Scheduling THEN r ELSE [r EXCEPT !.out = Append(@, t)]
KeyArg(r, t) ==
  CASE r.skip -> [r EXCEPT !.skip = FALSE]
    [] ~r.skip /\ t \in Diagnostics -> r
    [] ~r.skip /\ t[1] \in Scheduling -> [r EXCEPT !.skip = Len(t) = 1]
    [] OTHER -> [r EXCEPT !.out = Append(@, t)]
KeyUpTo(args) ==
  LET key[k \in 0 .. Len(args)] ==
        IF k = 0 THEN [skip |-> FALSE, out |-> << >>] ELSE KeyArg(key[k - 1], args[k])
  IN  key
CacheKeyArgs(args) == KeyUpTo(args)[Len(args)].out
-----------------------------------------------------------------------------
(* What the output depends on.                                             *)
Relevant(s) ==
  [s EXCEPT !.on.stats = FALSE, !.on.incremental = FALSE, !.on.daemon = FALSE, !.single.threads = "", !.single.cache_report = "",
            !.given = @ \ {"threads", "cache_report"}]

(* No value of a flag is itself a flag that the key leaves out.            *)
PlainValues == \A k \in 1 .. Len(argv) - 1 : TakesValue(argv[k]) => argv[k + 1][1] = ""

(* The cache is keyed by what cache_key_args keeps: a command line that is *)
(* accepted means the same link as its key does, so two command lines with *)
(* one key mean one link ("changes to diagnostics must not make a reusable *)
(* output look dirty, while real linker-mode changes still invalidate").   *)
KeyDeterminesLink ==
  pc = "controls" /\ PlainValues =>
    Relevant(Parse(CacheKeyArgs(argv))) = Relevant(Parse(argv))
=============================================================================
