------------------------------- MODULE Relink -------------------------------
(***************************************************************************)
(* The incremental link of one output: peony's driver (main.rs) and the    *)
(* cache it keeps beside the output (peony-cache), one invocation at a     *)
(* time.  Files on disk are variables; everything an invocation holds in   *)
(* memory is the record link.  A crash or an error exit may end an         *)
(* invocation between any two of its steps and in the middle of the        *)
(* in-place write of the output.                                           *)
(*                                                                         *)
(* A file's stat fingerprint (size, mtime, inode) is a stamp: every write  *)
(* of a file gives it a stamp no file had before.                          *)
(***************************************************************************)
EXTENDS LinkImage

CONSTANTS
  RaceWindow,   \* may a file change between a link's reading it and
                \* recording its stamp, and a script after a link of it?
  MaxClock      \* bound: writes to files in one behaviour

ASSUME RelinkAssumption == RaceWindow \in BOOLEAN /\ MaxClock \in Nat

VARIABLES
  inputs,     \* inputs[f]: content and stamp of input f
  control,    \* content of the linker and version scripts
  output,     \* the output file: image, length, stamp
  manifest,   \* <output>.incr/manifest.bin
  blob,       \* <output>.incr/layout.bin
  link,       \* the running invocation
  clock       \* the last stamp given out

disk == <<inputs, control, output, manifest, blob>>
vars == <<inputs, control, output, manifest, blob, link, clock>>

(* No file, or an absent optional part of one.                             *)
NoFile == [none |-> TRUE]

NoLink ==
  [pc |-> "idle", args |-> NoFile, control |-> NoFile, incremental |-> FALSE,
   quiet |-> TRUE, cs |-> NoFile, changed |-> {}, layout |-> NoFile,
   syms |-> NoFile, reused |-> FALSE, mode |-> "full", red |-> {},
   front_end |-> NoFile, write_blob |-> FALSE, fast |-> NoFile, fast_output |-> NoFile]

Contents == [f \in Files |-> inputs[f].content]
Stamps == [f \in Files |-> inputs[f].stamp]

Init ==
  /\ inputs = [f \in Files |-> [content |-> First[f], stamp |-> 0]]
  /\ control \in Controls
  /\ output = NoFile
  /\ manifest = NoFile
  /\ blob = NoFile
  /\ link = NoLink
  /\ clock = 0
-----------------------------------------------------------------------------
(* The user's side: an editor or compiler rewrites an input or a script,   *)
(* something deletes or overwrites the output.                             *)

InWindow == link.pc \in {"layout", "plan", "emit", "blob", "stat"}

DiskMayChange == clock < MaxClock /\ (InWindow => RaceWindow)

(* A change while a link runs means that link promises nothing.            *)
Disturb == link' = IF link.pc = "idle" THEN link ELSE [link EXCEPT !.quiet = FALSE]

Edit(f) ==
  /\ DiskMayChange
  /\ \E c \in Versions[f] \ {inputs[f].content} :
       inputs' = [inputs EXCEPT ![f] = [content |-> c, stamp |-> clock + 1]]
  /\ clock' = clock + 1
  /\ Disturb
  /\ UNCHANGED <<control, output, manifest, blob>>

(* No stamp of a script is recorded.                                       *)
EditControl ==
  /\ DiskMayChange
  /\ RaceWindow \/ (link.pc = "idle" /\ manifest = NoFile)
  /\ control' \in Controls \ {control}
  /\ clock' = clock + 1
  /\ Disturb
  /\ UNCHANGED <<inputs, output, manifest, blob>>

(* Also while a link is about to patch the output or to record it.         *)
RemoveOutput ==
  /\ clock < MaxClock
  /\ output # NoFile
  /\ output' = NoFile
  /\ clock' = clock + 1
  /\ Disturb
  /\ UNCHANGED <<inputs, control, manifest, blob>>

OverwriteOutput ==
  /\ DiskMayChange
  /\ output # NoFile
  /\ output' = [output EXCEPT !.image.bytes = [p \in Places |-> NoChunk],
                              !.stamp = clock + 1]
  /\ clock' = clock + 1
  /\ Disturb
  /\ UNCHANGED <<inputs, control, manifest, blob>>
-----------------------------------------------------------------------------
(* The gates of peony-cache.  An input's path is its number, so the tests  *)
(* of path and count hold; the epoch key folds the flags and the same      *)
(* mtimes the fast fingerprints hold.                                      *)

(* Bug: the output is not compared with the one that was recorded.         *)
StateUsableAnyOutput(a) ==
  manifest # NoFile /\ output # NoFile /\ manifest.args = a

(* The tests try_reuse and load_changed_state share.                       *)
StateUsable(a) ==
  /\ manifest # NoFile /\ output # NoFile
  /\ manifest.args = a
  /\ manifest.fast_output = [stamp |-> output.stamp, len |-> output.len]

(* load_changed_state: the inputs whose stat differs from the record.      *)
ChangedInputs == {f \in Files : inputs[f].stamp # manifest.fast[f]}

(* read_layout_blob, and the test of its hash against the snapshot's.      *)
BlobMatches == blob # NoFile /\ blob.layout = manifest.front_end.blob_hash
-----------------------------------------------------------------------------
(* An invocation about to exit with success.                               *)
Finished == [NoLink EXCEPT !.pc = "done", !.args = link.args, !.quiet = link.quiet,
                           !.incremental = link.incremental]

(* main, up to the first gate.                                             *)
Start(a, inc) ==
  /\ link.pc = "idle"
  /\ clock < MaxClock
  /\ link' = [NoLink EXCEPT !.pc = IF inc THEN "reuse" ELSE "parse",
                            !.args = a,
                            !.control = control,
                            !.incremental = inc]
  /\ UNCHANGED <<disk, clock>>

(* try_reuse: nothing changed, the output stands.                          *)
Reusable(a) == StateUsable(a) /\ ChangedInputs = {}

TryReuse ==
  /\ link.pc = "reuse"
  /\ \/ /\ Reusable(link.args)
        /\ link' = Finished
     \/ /\ ~Reusable(link.args)
        /\ link' = [link EXCEPT !.pc = IF Eligible(link.args) THEN "fast" ELSE "parse"]
  /\ UNCHANGED <<disk, clock>>

(* try_parse_only_changed up to its emit: only plain objects changed, each *)
(* has the digest the snapshot recorded and only simple relocations.       *)
ParseOnlyChangedApplies ==
  /\ StateUsable(link.args)
  /\ manifest.front_end # NoFile
  /\ ChangedInputs # {} /\ ChangedInputs \subseteq Plain
  /\ BlobMatches
  /\ \A f \in ChangedInputs :
       /\ Digest(inputs[f].content) = manifest.front_end.digests[f]
       /\ inputs[f].content.simple

TryParseOnlyChanged ==
  /\ link.pc = "fast"
  /\ \/ /\ ~ParseOnlyChangedApplies
        /\ link' = [link EXCEPT !.pc = "parse"]
     \/ /\ ParseOnlyChangedApplies
        /\ link' = [link EXCEPT !.pc = "emit", !.mode = "view",
                                !.cs = Contents,
                                !.changed = ChangedInputs,
                                !.layout = blob.layout,
                                !.syms = manifest.syms,
                                !.front_end = manifest.front_end]
  /\ UNCHANGED <<disk, clock>>

(* load_and_resolve reads every input.                                     *)
LoadAndResolve ==
  /\ link.pc = "parse"
  /\ link' = [link EXCEPT !.pc = "layout", !.cs = Contents]
  /\ UNCHANGED <<disk, clock>>

(* try_reuse_layout: the digests of unchanged inputs come from the         *)
(* snapshot, those of changed ones from what was just parsed.              *)
CurrentDigests ==
  [f \in Files |-> IF f \in ChangedInputs THEN Digest(link.cs[f])
                                          ELSE manifest.front_end.digests[f]]

(* Bug: drivers_hash is not compared.                                      *)
LayoutReusableAnyDrivers ==
  /\ link.incremental /\ Eligible(link.args)
  /\ StateUsable(link.args)
  /\ manifest.front_end # NoFile
  /\ ChangedInputs \subseteq Plain
  /\ BlobMatches

LayoutReusable ==
  /\ link.incremental /\ Eligible(link.args)
  /\ StateUsable(link.args)
  /\ manifest.front_end # NoFile
  /\ ChangedInputs \subseteq Plain
  /\ DriversHash(link.args, CurrentDigests) = manifest.front_end.drivers_hash
  /\ BlobMatches

(* build_front_end_snapshot for a layout computed from scratch.            *)
FreshSnapshot(a, cs, l) ==
  LET ds == [f \in Files |-> Digest(cs[f])] IN
  [drivers_hash |-> DriversHash(a, ds), blob_hash |-> l, digests |-> ds]

ChooseLayout ==
  /\ link.pc = "layout"
  /\ \/ /\ LayoutReusable
        /\ link' = [link EXCEPT !.pc = "plan", !.reused = TRUE,
                                !.changed = ChangedInputs,
                                !.layout = blob.layout,
                                !.syms = SymbolAddresses(blob.layout, link.cs),
                                !.front_end = manifest.front_end]
     \/ /\ ~LayoutReusable
        /\ LET l == Layout(link.args, link.control, link.cs)
               fe == link.incremental /\ Eligible(link.args)
           IN link' = [link EXCEPT
                !.pc = "plan",
                !.layout = l,
                !.syms = SymbolAddresses(l, link.cs),
                !.front_end = IF fe THEN FreshSnapshot(link.args, link.cs, l) ELSE NoFile,
                !.write_blob = fe]
  /\ UNCHANGED <<disk, clock>>

(* incremental_emit_plan and plan_partial_relink.                          *)
PatchAccepted ==
  /\ link.incremental
  /\ StateUsable(link.args)
  /\ SectionsInPlace(manifest.sections, SectionRecords(link.layout))

PlanEmit ==
  /\ link.pc = "plan"
  /\ \/ /\ ~PatchAccepted
        /\ link' = [link EXCEPT !.pc = "emit", !.mode = "full"]
     \/ /\ PatchAccepted
        /\ link.reused
        /\ link' = [link EXCEPT !.pc = "emit", !.mode = "objects"]
     \/ /\ PatchAccepted
        /\ ~link.reused
        /\ link' = [link EXCEPT !.pc = "emit", !.mode = "red",
             !.red = RedSections(link.cs, ChangedInputs, Moved(manifest.syms, link.syms))]
  /\ UNCHANGED <<disk, clock>>

(* emit_with_filter patches only a file that has the layout's length.      *)
SameLength == output # NoFile /\ output.len = FileSize(link.layout)

(* The image the chosen emit leaves.                                       *)
Emitted ==
  CASE link.mode = "full"    -> EmitFull(link.layout, link.syms, link.cs)
    [] link.mode = "objects" -> EmitObjects(output.image, link.layout, link.syms,
                                            link.cs, link.changed)
    [] link.mode = "view"    -> EmitFromView(output.image, link.layout, link.syms,
                                             link.cs, link.changed)
    [] link.mode = "red"     -> EmitRed(output.image, link.layout, link.syms,
                                        link.cs, link.red)

Emit ==
  /\ link.pc = "emit"
  /\ link.mode # "full" => SameLength
  /\ output' = [image |-> Emitted, len |-> FileSize(link.layout), stamp |-> clock + 1]
  /\ clock' = clock + 1
  /\ link' = IF link.incremental THEN [link EXCEPT !.pc = "blob"] ELSE Finished
  /\ UNCHANGED <<inputs, control, manifest, blob>>

(* A declined patch: main falls back to emit_full, try_parse_only_changed  *)
(* gives up in favour of the whole link.                                   *)
EmitDeclined ==
  /\ link.pc = "emit"
  /\ link.mode # "full" /\ ~SameLength
  /\ link' = IF link.mode = "view"
             THEN [NoLink EXCEPT !.pc = "parse", !.args = link.args,
                                 !.control = link.control,
                                 !.incremental = TRUE, !.quiet = link.quiet]
             ELSE [link EXCEPT !.mode = "full"]
  /\ UNCHANGED <<disk, clock>>

(* Bug: a layout.bin that exists is not replaced.                          *)
WriteBlobOnce ==
  /\ link.pc = "blob"
  /\ blob' = IF link.write_blob /\ blob = NoFile
            THEN [layout |-> link.layout, stamp |-> clock] ELSE blob
  /\ link' = [link EXCEPT !.pc = "stat"]
  /\ UNCHANGED <<inputs, control, output, manifest, clock>>

(* record_link_with_sections: layout.bin first, ...                        *)
WriteBlob ==
  /\ link.pc = "blob"
  /\ blob' = IF link.write_blob THEN [layout |-> link.layout, stamp |-> clock] ELSE blob
  /\ link' = [link EXCEPT !.pc = "stat"]
  /\ UNCHANGED <<inputs, control, output, manifest, clock>>

(* Bug: an existing record of the output is carried over.                  *)
StatFilesOldOutput ==
  /\ link.pc = "stat"
  /\ link' = IF output = NoFile THEN NoLink
             ELSE [link EXCEPT !.pc = "commit",
                               !.fast = Stamps,
                               !.fast_output =
                                  IF manifest # NoFile THEN manifest.fast_output
                                  ELSE [stamp |-> output.stamp, len |-> output.len]]
  /\ UNCHANGED <<disk, clock>>

(* ... then the stat of every input and of the output, which ends the     *)
(* invocation with an error when the output is gone, ...                   *)
StatFiles ==
  /\ link.pc = "stat"
  /\ link' = IF output = NoFile THEN NoLink
             ELSE [link EXCEPT !.pc = "commit",
                               !.fast = Stamps,
                               !.fast_output = [stamp |-> output.stamp, len |-> output.len]]
  /\ UNCHANGED <<disk, clock>>

(* ... and the manifest, written to a temporary file and renamed.          *)
CommitManifest ==
  /\ link.pc = "commit"
  /\ manifest' = [args |-> link.args, fast |-> link.fast,
                  fast_output |-> link.fast_output,
                  sections |-> SectionRecords(link.layout),
                  syms |-> link.syms, front_end |-> link.front_end]
  /\ link' = Finished
  /\ UNCHANGED <<inputs, control, output, blob, clock>>

(* Exit with success.                                                      *)
Exit ==
  /\ link.pc = "done"
  /\ link' = NoLink
  /\ UNCHANGED <<disk, clock>>

(* A crash, or an error exit, between two steps.                           *)
Abort ==
  /\ link.pc \notin {"idle", "done"}
  /\ link' = NoLink
  /\ UNCHANGED <<disk, clock>>

(* A crash inside the in-place write: some chunks have their new bytes.    *)
(* emit_full on a file of another length truncates it first.               *)
CrashInEmit ==
  /\ link.pc = "emit"
  /\ link.mode # "full" => SameLength
  /\ \E written \in SUBSET Places :
       output' = [image |-> [head  |-> Emitted.head,
                             bytes |-> [p \in Places |->
                                IF p \in written THEN Emitted.bytes[p]
                                ELSE IF SameLength THEN output.image.bytes[p] ELSE NoChunk]],
                  len |-> FileSize(link.layout),
                  stamp |-> clock + 1]
  /\ clock' = clock + 1
  /\ link' = NoLink
  /\ UNCHANGED <<inputs, control, manifest, blob>>

LinkStep ==
  \/ TryReuse \/ TryParseOnlyChanged \/ LoadAndResolve \/ ChooseLayout
  \/ PlanEmit \/ Emit \/ EmitDeclined \/ WriteBlob \/ StatFiles \/ CommitManifest \/ Exit

Next ==
  \/ \E f \in Files : Edit(f)
  \/ EditControl \/ RemoveOutput \/ OverwriteOutput
  \/ \E a \in Args, inc \in BOOLEAN : Start(a, inc)
  \/ LinkStep \/ Abort \/ CrashInEmit

Spec == Init /\ [][Next]_vars
-----------------------------------------------------------------------------
(* Stamps in use have been given out, a patch rewrites patchable sections. *)
TypeOK ==
  /\ clock \in Nat
  /\ Contents \in Reading
  /\ inputs \in [Files -> [content : AllVersions, stamp : 0..clock]]
  /\ control \in Controls
  /\ output # NoFile => output.stamp \in 1..clock
  /\ manifest # NoFile => /\ manifest.args \in Args
                          /\ \A f \in Files : manifest.fast[f] \in 0..clock
                          /\ manifest.fast_output.stamp \in 1..clock
  /\ link.pc \in {"idle", "reuse", "fast", "parse", "layout", "plan", "emit",
                  "blob", "stat", "commit", "done"}
  /\ link.pc # "idle" => link.args \in Args
  /\ link.mode \in {"full", "objects", "view", "red"}
  /\ link.reused \in BOOLEAN
  /\ link.pc \in {"reuse", "fast", "parse", "layout"} => link.reused = FALSE
  /\ link.changed \subseteq Files
  /\ link.red \subseteq AllocSections
  /\ link.pc = "commit" => /\ \A f \in Files : link.fast[f] \in 0..clock
                           /\ link.fast_output.stamp \in 1..clock

(* The rule of the README: a link that ends with success, with nothing     *)
(* changing while it ran, leaves what a full link of the current inputs    *)
(* with its flags would have written.                                      *)
NeverStale ==
  (link.pc = "done" /\ link.quiet) =>
    /\ output # NoFile
    /\ output.image = FullLink(link.args, control, Contents)

(* try_reuse_layout and try_parse_only_changed: a cached layout is taken   *)
(* only when computing it afresh would give the same one, so the fast path *)
(* changes how long a link takes and nothing else.                         *)
ReusedLayoutIsFresh ==
  (link.pc \in {"plan", "emit"} /\ (link.reused \/ link.mode = "view")) =>
     link.layout = Layout(link.args, link.control, link.cs)

(* The manifest m tells the truth about one reading cs of the inputs: its  *)
(* records are those of a full link of cs, an input that still has its     *)
(* recorded stamp has its content in cs, and an output with the recorded   *)
(* stamp is that full link.                                                *)
Describes(m, cs) ==
  LET l == Layout(m.args, control, cs) IN
  /\ m.sections = SectionRecords(l)
  /\ m.syms = SymbolAddresses(l, cs)
  /\ m.front_end # NoFile => m.front_end = FreshSnapshot(m.args, cs, l)
  /\ \A f \in Files : inputs[f].stamp = m.fast[f] => inputs[f].content = cs[f]
  /\ (output # NoFile /\ output.stamp = m.fast_output.stamp) =>
       /\ output.image = FullLink(m.args, control, cs)
       /\ output.len = FileSize(l)

(* Whatever was edited, patched, aborted or overwritten since, the         *)
(* manifest on disk (record_link_with_sections) never claims more than it  *)
(* may: try_reuse and load_changed_state can trust its stamps.             *)
RecordFaithful ==
  manifest # NoFile => \E cs \in Reading : Describes(manifest, cs)

(* The comment in record_link_with_sections: a manifest only ever commits  *)
(* a blob_hash whose layout.bin is already on disk, also when this link    *)
(* did not write layout.bin itself.                                        *)
CommitNamesBlob ==
  [][(manifest' # manifest /\ manifest'.front_end # NoFile) =>
       blob # NoFile /\ blob.layout = manifest'.front_end.blob_hash]_vars

(* What an undisturbed incremental link records lets try_reuse accept the  *)
(* same command line at once: a record that can never be met would make    *)
(* every link a full one without anyone noticing.                          *)
QuietRelinkReuses ==
  (link.pc = "done" /\ link.quiet /\ link.incremental) => Reusable(link.args)

(* Every invocation ends: a declined patch or fast path falls back to work *)
(* that cannot be declined again.                                          *)
LinksEnd == (link.pc # "idle") ~> (link.pc = "idle")
=============================================================================
