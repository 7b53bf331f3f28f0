---------------------------- MODULE DaemonRelink ----------------------------
(***************************************************************************)
(* Relink with a resident daemon (daemon.rs).  The daemon keeps layout,    *)
(* symbols and front-end snapshot of one command line in memory and        *)
(* patches the output on behalf of the clients that reach its socket; a    *)
(* client it turns away, or that finds no daemon, links by itself.  The    *)
(* daemon reads the cache file by file when it starts, which may overlap a *)
(* link, and may be killed at any time.                                    *)
(***************************************************************************)
EXTENDS Relink

CONSTANTS
  DaemonArgs,   \* the command line the daemon was started with
  Envs          \* the environments considered

ASSUME DaemonAssumption ==
  /\ DaemonArgs \in Args
  /\ Envs \subseteq [soleWriter : BOOLEAN, loadAlone : BOOLEAN,
                races : BOOLEAN, writes : Nat]

VARIABLES
  env,          \* never changes.  soleWriter: the output is only written by
                \* incremental links with DaemonArgs that run to their end;
                \* races: scripts change, and inputs change also between
                \* being read and being recorded;
                \* loadAlone: the daemon never loads while a link runs;
                \* writes: bound, the user acts before that many writes
  daemon,       \* DaemonState, and where serve or load is
  turn          \* "ask": the client has yet to try the daemon; "served": the
                \* daemon patches for it; "own": it links by itself

NoDaemon ==
  [pc |-> "down", layout |-> NoFile, syms |-> NoFile, front_end |-> NoFile,
   fps |-> NoFile, blob_stamp |-> 0]

dvars == <<vars, env, daemon, turn>>

DInit == Init /\ env \in Envs /\ daemon = NoDaemon /\ turn = "own"
-----------------------------------------------------------------------------
(* load, one read of the cache at a time.                                  *)

Loading == daemon.pc \in {"manifest", "blob", "baseline", "stamp"}

(* ensure_autospawn, or the user, starts a daemon; it exits at once when   *)
(* there is no cache to load.                                              *)
Spawn ==
  /\ daemon.pc = "down"
  /\ blob # NoFile
  /\ env.loadAlone => link.pc = "idle"
  /\ daemon' = [daemon EXCEPT !.pc = "manifest"]
  /\ UNCHANGED <<vars, env, turn>>

(* load_changed_state and its snapshot.                                    *)
LoadManifest ==
  /\ daemon.pc = "manifest"
  /\ daemon' = IF StateUsable(DaemonArgs) /\ manifest.front_end # NoFile
               THEN [daemon EXCEPT !.pc = "blob", !.syms = manifest.syms,
                                   !.front_end = manifest.front_end]
               ELSE NoDaemon
  /\ UNCHANGED <<vars, env, turn>>

(* read_layout_blob, with the hash the snapshot names.                     *)
LoadBlob ==
  /\ daemon.pc = "blob"
  /\ daemon' = IF blob.layout = daemon.front_end.blob_hash
               THEN [daemon EXCEPT !.pc = "baseline", !.layout = blob.layout]
               ELSE NoDaemon
  /\ UNCHANGED <<vars, env, turn>>

(* manifest_fast_inputs reads the manifest a second time.                  *)
LoadBaseline ==
  /\ daemon.pc = "baseline"
  /\ daemon' = [daemon EXCEPT !.pc = "stamp", !.fps = manifest.fast]
  /\ UNCHANGED <<vars, env, turn>>

(* Last the mtime of layout.bin; then the socket is bound.                 *)
LoadStamp ==
  /\ daemon.pc = "stamp"
  /\ daemon' = [daemon EXCEPT !.pc = "serving", !.blob_stamp = blob.stamp]
  /\ UNCHANGED <<vars, env, turn>>
-----------------------------------------------------------------------------
(* A request.                                                              *)

DStart(a, inc) ==
  /\ Start(a, inc)
  /\ clock < env.writes
  /\ env.soleWriter => a = DaemonArgs /\ inc
  /\ env.loadAlone => ~Loading
  /\ turn' = IF inc THEN "ask" ELSE "own"
  /\ UNCHANGED <<env, daemon>>

(* Bug: a client waits for a daemon that has not bound its socket yet.     *)
NoDaemonAtAll ==
  /\ link.pc = "reuse" /\ turn = "ask"
  /\ daemon.pc = "down"
  /\ turn' = "own"
  /\ UNCHANGED <<vars, env, daemon>>

(* try_delegate: a client that reaches no daemon links by itself.          *)
NoDaemonToAsk ==
  /\ link.pc = "reuse" /\ turn = "ask"
  /\ daemon.pc = "down" \/ Loading
  /\ turn' = "own"
  /\ UNCHANGED <<vars, env, daemon>>

Asked == link.pc = "reuse" /\ turn = "ask" /\ daemon.pc = "serving"

(* STATUS_FALLBACK.                                                        *)
Fallback == turn' = "own" /\ UNCHANGED <<vars, env>>

(* handle: a request with other flags.                                     *)
HandleOtherArgs ==
  /\ Asked
  /\ link.args # DaemonArgs
  /\ Fallback
  /\ UNCHANGED daemon

(* handle: layout.bin was rewritten, so everything is loaded again; the    *)
(* client waits, so no link runs meanwhile.                                *)
Loadable == /\ StateUsable(DaemonArgs) /\ manifest.front_end # NoFile
            /\ blob.layout = manifest.front_end.blob_hash

(* Bug: only the input fingerprints are brought up to date.                *)
HandleReloadInputs ==
  /\ Asked
  /\ link.args = DaemonArgs
  /\ blob.stamp # daemon.blob_stamp
  /\ daemon' = [daemon EXCEPT !.fps = manifest.fast, !.blob_stamp = blob.stamp]
  /\ UNCHANGED <<vars, env, turn>>

HandleReload ==
  /\ Asked
  /\ link.args = DaemonArgs
  /\ blob.stamp # daemon.blob_stamp
  /\ \/ /\ ~Loadable
        /\ Fallback
        /\ UNCHANGED daemon
     \/ /\ Loadable
        /\ daemon' = [daemon EXCEPT !.layout = blob.layout, !.syms = manifest.syms,
                                    !.front_end = manifest.front_end,
                                    !.fps = manifest.fast, !.blob_stamp = blob.stamp]
        /\ UNCHANGED <<vars, env, turn>>

Current == Asked /\ link.args = DaemonArgs /\ blob.stamp = daemon.blob_stamp

ChangedSinceServed == {f \in Files : inputs[f].stamp # daemon.fps[f]}

(* Bug: every request is answered "no change" once one was served.         *)
HandleNoChangeAlways ==
  /\ Current
  /\ link' = Finished
  /\ UNCHANGED <<disk, clock, env, daemon, turn>>

(* handle: STATUS_NOCHANGE.  The output itself is not looked at.           *)
HandleNoChange ==
  /\ Current
  /\ ChangedSinceServed = {}
  /\ link' = Finished
  /\ UNCHANGED <<disk, clock, env, daemon, turn>>

(* emit_parse_only_changed over the resident state.                        *)
PatchFits ==
  /\ ChangedSinceServed \subseteq Plain
  /\ \A f \in ChangedSinceServed :
       /\ Digest(inputs[f].content) = daemon.front_end.digests[f]
       /\ inputs[f].content.simple
  /\ output # NoFile /\ output.len = FileSize(daemon.layout)

HandleDeclined ==
  /\ Current
  /\ ChangedSinceServed # {} /\ ~PatchFits
  /\ Fallback
  /\ UNCHANGED daemon

HandleEmit ==
  /\ Current
  /\ ChangedSinceServed # {} /\ PatchFits
  /\ output' = [image |-> EmitFromView(output.image, daemon.layout, daemon.syms,
                                       Contents, ChangedSinceServed),
                len |-> output.len, stamp |-> clock + 1]
  /\ clock' = clock + 1
  /\ daemon' = [daemon EXCEPT !.pc = "record"]
  /\ turn' = "served"
  /\ UNCHANGED <<inputs, control, manifest, blob, link, env>>

(* Resident fingerprints and manifest are refreshed; STATUS_RELINKED, also *)
(* when the output is gone by now and no manifest can be written.          *)
HandleRecord ==
  /\ daemon.pc = "record"
  /\ \/ /\ output # NoFile
        /\ manifest' = [args |-> DaemonArgs, fast |-> Stamps,
                        fast_output |-> [stamp |-> output.stamp, len |-> output.len],
                        sections |-> SectionRecords(daemon.layout),
                        syms |-> daemon.syms, front_end |-> daemon.front_end]
     \/ output = NoFile /\ UNCHANGED manifest
  /\ daemon' = [daemon EXCEPT !.pc = "serving", !.fps = Stamps, !.blob_stamp = blob.stamp]
  /\ link' = IF link.pc = "reuse" /\ turn = "served" THEN Finished ELSE link
  /\ UNCHANGED <<inputs, control, output, blob, clock, env, turn>>

(* The idle timeout, or a kill.  A client that waits for the answer reads  *)
(* end of file and links by itself.                                        *)
DaemonEnds ==
  /\ daemon.pc # "down"
  /\ daemon' = NoDaemon
  /\ turn' = "own"
  /\ UNCHANGED <<vars, env>>
-----------------------------------------------------------------------------
(* One-shot steps.  TryReuse waits for the daemon's answer.                *)
OwnLinkStep ==
  /\ LinkStep
  /\ link.pc = "reuse" => turn = "own"
  /\ UNCHANGED <<env, daemon, turn>>

OwnAbort ==
  /\ env.soleWriter => link.pc \notin {"blob", "stat", "commit"}
  /\ Abort
  /\ UNCHANGED <<env, daemon, turn>>

OwnCrash ==
  /\ ~env.soleWriter
  /\ CrashInEmit
  /\ UNCHANGED <<env, daemon, turn>>

UserStep ==
  /\ clock < env.writes
  /\ InWindow => env.races
  /\ \/ /\ daemon.pc = "record" => env.races
        /\ \E f \in Files : Edit(f)
     \/ env.races /\ EditControl
     \/ ~env.soleWriter /\ (RemoveOutput \/ OverwriteOutput)
  /\ UNCHANGED <<env, daemon, turn>>

LoadStep == LoadManifest \/ LoadBlob \/ LoadBaseline \/ LoadStamp

HandleStep ==
  \/ HandleOtherArgs \/ HandleReload \/ HandleNoChange
  \/ HandleDeclined \/ HandleEmit \/ HandleRecord

DNext ==
  \/ UserStep
  \/ \E a \in Args, inc \in BOOLEAN : DStart(a, inc)
  \/ Spawn \/ LoadStep \/ NoDaemonToAsk \/ HandleStep \/ DaemonEnds
  \/ OwnLinkStep \/ OwnAbort \/ OwnCrash

DSpec == DInit /\ [][DNext]_dvars

(* Client and daemon are processes the system lets run.                    *)
DFairSpec ==
  /\ DSpec
  /\ WF_dvars(OwnLinkStep)
  /\ WF_dvars(NoDaemonToAsk)
  /\ WF_dvars(HandleStep)
-----------------------------------------------------------------------------
SoundEnv == env.soleWriter /\ env.loadAlone /\ ~env.races

(* README's one rule through the daemon: in a sound environment a link it  *)
(* answered, or handed back to the client, left the bytes of a full link.  *)
DaemonNeverStale == SoundEnv => NeverStale

(* While layout.bin keeps its mtime, the daemon's resident state is the    *)
(* one the files on disk would load: it never patches with a layout other  *)
(* than the one of the link whose stamps it compares.                      *)
ResidentMatchesDisk ==
  /\ env.loadAlone
  /\ daemon.pc \in {"serving", "record"}
  /\ blob.stamp = daemon.blob_stamp
  => blob.layout = daemon.layout /\ daemon.front_end.blob_hash = daemon.layout
=============================================================================
