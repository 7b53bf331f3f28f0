---------------------------- MODULE DaemonProofs ----------------------------
(***************************************************************************)
(* Proofs about links that use a cache, with and without the daemon.       *)
(*                                                                         *)
(* First Relink by itself: NeverStale for every number of inputs and       *)
(* sections, every set of contents and every sequence of edits, aborts and *)
(* crashes, under the conditions Sound names.  Run RelinkRace shows that   *)
(* the one about files that change while they are read cannot be dropped.  *)
(*                                                                         *)
(* Then the resident daemon: what it keeps in memory matches the cache on  *)
(* disk whenever it is used, and what it answers is a full link.  The      *)
(* second rests on the invariant of the first part, which the daemon's     *)
(* steps keep as well.                                                     *)
(*                                                                         *)
(* Last the daemons' socket: daemons that are never started at the same    *)
(* time serve one at a time, however many there are and whatever is        *)
(* killed.                                                                 *)
(***************************************************************************)
EXTENDS DaemonRelink, DaemonSocket, TLAPS

(* Every section is allocatable, and no relocation goes through a local    *)
(* symbol.                                                                 *)
SoundImage ==
  /\ AllocSections = Sections
  /\ \A f \in Files : \A c \in Versions[f] : \A s \in Sections : c.lrefs[s] = {}

(* Also, no input changes between being read and being recorded, and no    *)
(* script once there is a record.                                          *)
Sound == RaceWindow = FALSE /\ SoundImage
-----------------------------------------------------------------------------
(* What the operators of LinkImage depend on.                              *)

(* Sizes and demands determine the layout compute_layout gives.            *)
LEMMA SameSizesSameLayout ==
  ASSUME NEW a, NEW k, NEW cs, NEW ds,
         \A f \in Files : \A s \in Sections : cs[f].size[s] = ds[f].size[s],
         \A f \in Files : Demand(cs[f]) = Demand(ds[f])
  PROVE  Layout(a, k, cs) = Layout(a, k, ds)
<1>1. \A s \in Sections : SectionSize(cs, s) = SectionSize(ds, s)
  <2> TAKE s \in Sections
  <2>1. [f \in Files |-> cs[f].size[s]] = [f \in Files |-> ds[f].size[s]]
    OBVIOUS
  <2> QED BY <2>1 DEF SectionSize
<1>2. \A s \in Sections : SectionBase(cs, s) = SectionBase(ds, s)
  <2> TAKE s \in Sections
  <2>1. [t \in 1..(s - 1) |-> SectionSize(cs, t)] = [t \in 1..(s - 1) |-> SectionSize(ds, t)]
    BY <1>1, ImageAssumption DEF Sections
  <2> QED BY <2>1 DEF SectionBase
<1>3. \A f \in Files : \A s \in Sections : Place(cs, f, s) = Place(ds, f, s)
  <2> TAKE f \in Files
  <2> TAKE s \in Sections
  <2>1. [g \in 1..(f - 1) |-> cs[g].size[s]] = [g \in 1..(f - 1) |-> ds[g].size[s]]
    BY ImageAssumption DEF Files
  <2> QED BY <2>1, <1>2 DEF Place
<1> QED BY <1>1, <1>2, <1>3 DEF Layout

(* A matching object_layout_digest stands for the sizes and the demand,    *)
(* when every section is allocatable.                                      *)
LEMMA SameDigestsSameLayout ==
  ASSUME SoundImage, NEW a, NEW k, NEW cs, NEW ds,
         \A f \in Files : Digest(cs[f]) = Digest(ds[f])
  PROVE  /\ Layout(a, k, cs) = Layout(a, k, ds)
         /\ \A f \in Files : cs[f].off = ds[f].off
<1>1. \A f \in Files : /\ Demand(cs[f]) = Demand(ds[f])
                       /\ [s \in Sections |-> cs[f].size[s]] = [s \in Sections |-> ds[f].size[s]]
  BY DEF Digest, SoundImage
<1>2. \A f \in Files : \A s \in Sections : cs[f].size[s] = ds[f].size[s]
  <2> TAKE f \in Files
  <2> TAKE s \in Sections
  <2>1. [t \in Sections |-> cs[f].size[t]][s] = [t \in Sections |-> ds[f].size[t]][s]
    BY <1>1
  <2> QED BY <2>1
<1>3. \A f \in Files : cs[f].off = ds[f].off
  BY <1>1 DEF Demand
<1> QED BY <1>1, <1>2, <1>3, SameSizesSameLayout

(* A section that plan_partial_relink leaves green holds the bytes a full  *)
(* emit would write.                                                       *)
LEMMA GreenSectionsStand ==
  ASSUME SoundImage, NEW a, NEW k, NEW cs \in Reading, NEW ds \in Reading, NEW changed,
         \A f \in Files \ changed : cs[f] = ds[f],
         NEW l, l = Layout(a, k, cs), NEW m, m = Layout(a, k, ds),
         NEW syms, syms = SymbolAddresses(l, cs), NEW old, old = SymbolAddresses(m, ds),
         SectionsInPlace(SectionRecords(m), SectionRecords(l)),
         FileSize(l) = FileSize(m),
         NEW f \in Files, NEW s \in Sections,
         s \notin RedSections(cs, changed, Moved(old, syms))
  PROVE  Chunk(l, syms, cs, f, s) = Chunk(m, old, ds, f, s)
<1>1. /\ l.size = [t \in Sections |-> SectionSize(cs, t)]
      /\ m.size = [t \in Sections |-> SectionSize(ds, t)]
      /\ l.at = [g \in Files |-> [t \in Sections |-> Place(cs, g, t)]]
      /\ m.at = [g \in Files |-> [t \in Sections |-> Place(ds, g, t)]]
  BY DEF Layout
<1>2. \A t \in Sections : SectionSize(cs, t) \in {0, SectionSize(ds, t)}
  <2> TAKE t \in Sections
  <2>1. SectionSize(cs, t) \in Nat
    BY SumAssumption
  <2>2. SectionRecords(l)[t].size = SectionSize(cs, t) /\ SectionRecords(m)[t].size = SectionSize(ds, t)
    BY <1>1 DEF SectionRecords, SoundImage
  <2>3. SectionSize(cs, t) > 0 => SectionRecords(m)[t] = SectionRecords(l)[t]
    BY <2>2 DEF SectionsInPlace, SoundImage
  <2> QED BY <2>1, <2>2, <2>3
<1>3. \A t \in Sections : SectionSize(cs, t) = SectionSize(ds, t)
  BY <1>1, <1>2, SumAssumption DEF FileSize
<1>4. \A g \in changed \cap Files : cs[g].size[s] = 0
  <2> SUFFICES ASSUME NEW g \in changed \cap Files PROVE cs[g].size[s] = 0
    OBVIOUS
  <2>1. ~(cs[g].size[s] > 0)
    BY DEF RedSections, SoundImage
  <2>2. cs[g].size[s] \in Nat
    BY ImageAssumption DEF Reading
  <2> QED BY <2>1, <2>2
<1>5. \A g \in Files : cs[g].size[s] = ds[g].size[s]
  <2>1. \A g \in Files : cs[g].size[s] \in {0, ds[g].size[s]}
    BY <1>4
  <2> QED BY <2>1, <1>3, SumAssumption
<1>6. l.at[f][s] = m.at[f][s]
  <2>1. [t \in 1..(s - 1) |-> SectionSize(cs, t)] = [t \in 1..(s - 1) |-> SectionSize(ds, t)]
    BY <1>3, ImageAssumption DEF Sections
  <2>2. [g \in 1..(f - 1) |-> cs[g].size[s]] = [g \in 1..(f - 1) |-> ds[g].size[s]]
    BY <1>5, ImageAssumption DEF Files
  <2>3. Place(cs, f, s) = Place(ds, f, s)
    BY <2>1, <2>2 DEF Place, SectionBase
  <2> QED BY <1>1, <2>3
<1>7. CASE cs[f].size[s] = 0
  BY <1>5, <1>7 DEF Chunk
<1>8. CASE cs[f].size[s] # 0
  <2>1. f \notin changed /\ cs[f] = ds[f]
    BY <1>4, <1>8
  <2>2. \A g \in cs[f].refs[s] : syms[g] = old[g]
    <3> TAKE g \in cs[f].refs[s]
    <3>1. g \in Files
      BY ImageAssumption DEF Reading
    <3>2. g \notin Moved(old, syms)
      BY DEF RedSections, SoundImage
    <3> QED BY <3>1, <3>2 DEF Moved
  <2>3. [g \in cs[f].refs[s] |-> syms[g]] = [g \in ds[f].refs[s] |-> old[g]]
    BY <2>1, <2>2
  <2>4. cs[f].lrefs[s] = {} /\ ds[f].lrefs[s] = {}
    BY <2>1 DEF SoundImage, Reading
  <2>5. [t \in cs[f].lrefs[s] |-> l.at[f][t]] = [t \in ds[f].lrefs[s] |-> m.at[f][t]]
    BY <2>4
  <2> QED BY <1>5, <1>6, <2>1, <2>3, <2>5 DEF Chunk
<1> QED BY <1>7, <1>8
-----------------------------------------------------------------------------
(* The inductive invariant.  RecordFaithful says what the disk promises;   *)
(* the rest says what a running invocation knows at each of its steps.     *)

(* What CommitManifest would write.                                        *)
Pending ==
  [args |-> link.args, fast |-> link.fast, fast_output |-> link.fast_output,
   sections |-> SectionRecords(link.layout), syms |-> link.syms,
   front_end |-> link.front_end]

(* The contents in memory are those on disk up to the stat of the inputs.  *)
ReadingOK ==
  /\ link.pc \notin {"idle", "done"} => link.control = control
  /\ link.pc \in {"layout", "plan", "emit", "blob", "stat", "commit"} => link.cs \in Reading
  /\ InWindow => link.cs = Contents

(* However it was obtained, the layout is the one compute_layout gives.    *)
LayoutOK ==
  link.pc \in {"plan", "emit", "blob", "stat", "commit"} =>
    /\ link.layout = Layout(link.args, control, link.cs)
    /\ link.syms = SymbolAddresses(link.layout, link.cs)
    /\ link.front_end # NoFile => link.front_end = FreshSnapshot(link.args, link.cs, link.layout)

(* While a cached layout is in use the record it came from still holds.    *)
CachedOK ==
  (\/ link.pc = "plan" /\ link.reused
   \/ link.pc = "emit" /\ link.mode \in {"objects", "view"}) =>
    /\ output # NoFile => StateUsable(link.args)
    /\ link.changed = ChangedInputs
    /\ manifest.front_end # NoFile
    /\ link.layout = manifest.front_end.blob_hash
    /\ link.syms = manifest.syms
    /\ (link.pc = "emit" /\ link.mode = "view") => \A f \in link.changed : link.cs[f].simple

(* So does the record a red/green plan was made from.                      *)
RedOK ==
  (link.pc = "emit" /\ link.mode = "red") =>
    /\ output # NoFile => StateUsable(link.args)
    /\ SectionsInPlace(manifest.sections, SectionRecords(link.layout))
    /\ link.red = RedSections(link.cs, ChangedInputs, Moved(manifest.syms, link.syms))

(* After the emit the output is the full link of what was read.            *)
EmittedOK ==
  /\ (link.pc \in {"blob", "stat"} /\ output # NoFile) =>
       /\ output.image = FullLink(link.args, control, link.cs)
       /\ output.len = FileSize(link.layout)
  /\ link.pc = "commit" => Describes(Pending, link.cs)
  /\ (link.pc = "commit" /\ link.quiet) =>
       /\ output # NoFile
       /\ output.image = FullLink(link.args, control, link.cs)
       /\ link.cs = Contents

Inv == /\ TypeOK /\ RecordFaithful /\ ReadingOK /\ LayoutOK /\ CachedOK
       /\ RedOK /\ EmittedOK /\ NeverStale
-----------------------------------------------------------------------------
(* A manifest goes on telling the truth when what it describes keeps its   *)
(* stamp or gets a new one.                                                *)
LEMMA DescribesKept ==
  ASSUME NEW m, NEW cs, Describes(m, cs), control' = control,
         \A f \in Files : inputs'[f] = inputs[f] \/ inputs'[f].stamp # m.fast[f],
         output' = output \/ output' = NoFile \/ output'.stamp # m.fast_output.stamp
  PROVE  Describes(m, cs)'
BY DEF Describes

(* The manifest on disk, when a step writes at most files with new stamps. *)
LEMMA RecordKept ==
  ASSUME TypeOK, RecordFaithful, manifest' = manifest, control' = control,
         \A f \in Files : inputs'[f] = inputs[f] \/ inputs'[f].stamp = clock + 1,
         output' = output \/ output' = NoFile \/ output'.stamp = clock + 1
  PROVE  RecordFaithful'
<1> SUFFICES ASSUME manifest # NoFile
             PROVE  \E cs \in Reading : Describes(manifest, cs)'
  BY DEF RecordFaithful
<1>1. PICK cs \in Reading : Describes(manifest, cs)
  BY DEF RecordFaithful
<1>2. \A f \in Files : inputs'[f] = inputs[f] \/ inputs'[f].stamp # manifest.fast[f]
  BY DEF TypeOK
<1>3. output' = output \/ output' = NoFile \/ output'.stamp # manifest.fast_output.stamp
  BY DEF TypeOK
<1>4. \A m : Describes(m, cs) /\ m = manifest => Describes(m, cs)'
  BY <1>2, <1>3, DescribesKept
<1>5. Describes(manifest, cs)'
  BY <1>1, <1>4 DEF Describes
<1> QED BY <1>5

(* The initial states.                                                     *)
LEMMA InitInv == ASSUME Init PROVE Inv
<1>1. Contents = First
  BY ImageAssumption DEF Init, Contents, Reading
<1>2. TypeOK
  <2>1. inputs \in [Files -> [content : AllVersions, stamp : 0..clock]]
    BY ImageAssumption DEF Init, Reading
  <2> QED BY <1>1, <2>1, ImageAssumption DEF Init, TypeOK, NoLink
<1> QED BY <1>2 DEF Init, Inv, NoLink, RecordFaithful, ReadingOK, LayoutOK, CachedOK,
           RedOK, EmittedOK, NeverStale, InWindow

(* A script is edited before the first link of it is recorded.             *)
LEMMA EditControlInv == ASSUME Sound, Inv, EditControl PROVE Inv'
<1>1. /\ link.pc = "idle" /\ manifest = NoFile /\ link' = link /\ manifest' = manifest
      /\ inputs' = inputs /\ output' = output /\ blob' = blob /\ clock' = clock + 1
      /\ control' \in Controls
  BY DEF EditControl, Sound, Disturb
<1>2. TypeOK'
  <2>1. clock \in Nat /\ Contents' = Contents
    BY <1>1 DEF Inv, TypeOK, Contents
  <2>2. inputs' \in [Files -> [content : AllVersions, stamp : 0..clock']]
    BY <1>1, <2>1 DEF Inv, TypeOK
  <2> QED BY <1>1, <2>1, <2>2 DEF Inv, TypeOK
<1> QED BY <1>1, <1>2 DEF Inv, RecordFaithful, ReadingOK, LayoutOK, CachedOK, RedOK,
           EmittedOK, NeverStale, InWindow

(* An edit of an input or of the output: no input is edited and no output  *)
(* overwritten between a link's reading of the inputs and its record of    *)
(* them.                                                                   *)
LEMMA UserInv ==
  ASSUME Inv,
         \/ ~InWindow /\ \E f \in Files : Edit(f)
         \/ RemoveOutput
         \/ ~InWindow /\ OverwriteOutput
  PROVE  Inv'
<1>2. /\ control' = control /\ manifest' = manifest /\ blob' = blob /\ clock' = clock + 1
      /\ InWindow => inputs' = inputs /\ output' = NoFile
      /\ Disturb
      /\ \A f \in Files : inputs'[f] = inputs[f] \/ inputs'[f].stamp = clock + 1
      /\ output' = output \/ output' = NoFile \/ output'.stamp = clock + 1
  <2>1. CASE ~InWindow /\ \E f \in Files : Edit(f)
    BY <2>1 DEF Edit, Inv, TypeOK
  <2>2. CASE RemoveOutput
    BY <2>2 DEF RemoveOutput
  <2>3. CASE ~InWindow /\ OverwriteOutput
    BY <2>3 DEF OverwriteOutput
  <2> QED BY <2>1, <2>2, <2>3
<1>3. /\ link.pc # "idle" => ~link'.quiet
      /\ link'.pc = link.pc /\ link'.args = link.args /\ link'.control = link.control
      /\ link'.cs = link.cs /\ link'.mode = link.mode /\ link'.changed = link.changed
      /\ link'.red = link.red /\ link'.reused = link.reused /\ link'.fast = link.fast
      /\ link'.fast_output = link.fast_output /\ link'.layout = link.layout
      /\ link'.syms = link.syms /\ link'.front_end = link.front_end
  BY <1>2 DEF Disturb
<1>4. TypeOK'
  <2>1. clock \in Nat /\ clock + 1 \in Nat
    BY DEF Inv, TypeOK
  <2>2. inputs' \in [Files -> [content : AllVersions, stamp : 0..clock']]
    <3>1. ASSUME NEW f \in Files, Edit(f) PROVE <2>2
      <4>1. PICK c \in Versions[f] :
              inputs' = [inputs EXCEPT ![f] = [content |-> c, stamp |-> clock + 1]]
        BY <3>1 DEF Edit
      <4>2. [content |-> c, stamp |-> clock + 1] \in [content : AllVersions, stamp : 0..clock']
        BY <1>2, <2>1 DEF AllVersions
      <4>3. inputs \in [Files -> [content : AllVersions, stamp : 0..clock']]
        BY <1>2, <2>1 DEF Inv, TypeOK
      <4> QED BY <4>1, <4>2, <4>3
    <3>2. CASE inputs' = inputs
      BY <1>2, <2>1, <3>2 DEF Inv, TypeOK
    <3> QED BY <3>1, <3>2 DEF RemoveOutput, OverwriteOutput
  <2>3. Contents' \in Reading
    <3>1. ASSUME NEW f \in Files, Edit(f) PROVE Contents' \in Reading
      <4>1. PICK c \in Versions[f] :
              inputs' = [inputs EXCEPT ![f] = [content |-> c, stamp |-> clock + 1]]
        BY <3>1 DEF Edit
      <4>2. \A g \in Files : Contents'[g] \in Versions[g]
        <5> TAKE g \in Files
        <5>1. Contents[g] \in Versions[g]
          BY DEF Inv, TypeOK, Reading
        <5>2. Contents'[g] = inputs'[g].content /\ Contents[g] = inputs[g].content
          BY DEF Contents
        <5> QED BY <4>1, <5>1, <5>2
      <4>3. Contents' \in [Files -> AllVersions]
        BY <4>2 DEF Contents, AllVersions
      <4> QED BY <4>2, <4>3 DEF Reading
    <3> QED BY <3>1 DEF RemoveOutput, OverwriteOutput, Inv, TypeOK, Contents
  <2> QED BY <1>2, <1>3, <2>1, <2>2, <2>3 DEF Inv, TypeOK
<1>5. RecordFaithful'
  BY <1>2, RecordKept DEF Inv
<1>6. EmittedOK'
  <2>1. ASSUME link.pc = "commit" PROVE Describes(Pending, link.cs)'
    <3> DEFINE m == Pending
               cs == link.cs
    <3>1. Pending' = Pending /\ link'.cs = link.cs
      BY <1>3 DEF Pending
    <3>2. /\ \A f \in Files : inputs'[f] = inputs[f] \/ inputs'[f].stamp # Pending.fast[f]
          /\ output' = output \/ output' = NoFile \/ output'.stamp # Pending.fast_output.stamp
      BY <1>2, <2>1 DEF Inv, TypeOK, Pending
    <3>3. \A n, ds : Describes(n, ds) /\ n = Pending => Describes(n, ds)'
      BY <1>2, <3>2, DescribesKept
    <3>4. Describes(Pending, link.cs)
      BY <2>1 DEF Inv, EmittedOK
    <3> QED BY <3>1, <3>3, <3>4 DEF Describes
  <2> QED BY <1>2, <1>3, <2>1 DEF EmittedOK, InWindow
<1>7. ReadingOK' /\ LayoutOK' /\ CachedOK' /\ RedOK' /\ NeverStale'
  <2>1. ReadingOK' /\ LayoutOK' /\ NeverStale'
    BY <1>2, <1>3 DEF ReadingOK, LayoutOK, NeverStale, InWindow, Inv, Contents
  <2>2. CASE ~InWindow
    BY <1>3, <2>1, <2>2 DEF CachedOK, RedOK, InWindow
  <2>3. CASE InWindow
    BY <1>2, <1>3, <2>1, <2>3 DEF CachedOK, RedOK, ChangedInputs, Inv
  <2> QED BY <2>1, <2>2, <2>3
<1> QED BY <1>4, <1>5, <1>6, <1>7 DEF Inv
-----------------------------------------------------------------------------
(* Steps that touch no file.                                               *)
LEMMA StartInv ==
  ASSUME Inv, NEW a \in Args, NEW inc \in BOOLEAN, Start(a, inc)
  PROVE  Inv'
<1>1. TypeOK'
  BY DEF Inv, TypeOK, Start, disk, NoLink, Contents
<1>2. RecordFaithful'
  BY RecordKept DEF Inv, Start, disk
<1> QED BY <1>1, <1>2 DEF Inv, Start, disk, NoLink, ReadingOK, LayoutOK, CachedOK, RedOK,
           EmittedOK, NeverStale, InWindow

(* try_reuse accepts: every input has its recorded stamp, so the reading   *)
(* the manifest describes is what the inputs hold now.                     *)
LEMMA ReuseIsFullLink ==
  ASSUME Inv, NEW a, Reusable(a)
  PROVE  output # NoFile /\ output.image = FullLink(a, control, Contents)
<1>1. PICK cs \in Reading : Describes(manifest, cs)
  BY DEF Reusable, StateUsable, Inv, RecordFaithful
<1>2. \A f \in Files : inputs[f].content = cs[f]
  BY <1>1 DEF Reusable, ChangedInputs, Describes
<1>3. Contents = cs
  BY <1>2 DEF Contents, Reading
<1> QED BY <1>1, <1>3 DEF Reusable, StateUsable, Describes

(* try_reuse: what it accepts is the full link already, what it refuses    *)
(* is left to the later gates.                                             *)
LEMMA TryReuseInv == ASSUME Inv, TryReuse PROVE Inv'
<1>1. UNCHANGED <<disk, clock>> /\ link.pc = "reuse"
  BY DEF TryReuse
<1>2. RecordFaithful'
  BY <1>1, RecordKept DEF Inv, disk
<1>3. CASE Reusable(link.args) /\ link' = Finished
  <2>1. /\ link'.pc = "done" /\ link'.args = link.args /\ link'.mode = "full"
        /\ link'.changed = {} /\ link'.red = {} /\ link'.reused = FALSE
    BY <1>3 DEF Finished, NoLink
  <2>2. output # NoFile /\ output.image = FullLink(link.args, control, Contents)
    BY <1>3, ReuseIsFullLink
  <2>3. TypeOK'
    BY <1>1, <2>1 DEF Inv, TypeOK, disk, Contents
  <2>4. NeverStale'
    BY <1>1, <2>1, <2>2 DEF NeverStale, disk, Contents
  <2> QED BY <1>2, <2>1, <2>3, <2>4
          DEF Inv, ReadingOK, LayoutOK, CachedOK, RedOK, EmittedOK, InWindow
<1>4. CASE ~Reusable(link.args)
  <2>1. PICK p \in {"fast", "parse"} : link' = [link EXCEPT !.pc = p]
    <3>1. link' = [link EXCEPT !.pc = IF Eligible(link.args) THEN "fast" ELSE "parse"]
      BY <1>4 DEF TryReuse
    <3>2. CASE Eligible(link.args)
      BY <3>1, <3>2
    <3>3. CASE ~Eligible(link.args)
      BY <3>1, <3>3
    <3> QED BY <3>2, <3>3
  <2>2. /\ link'.pc \in {"fast", "parse"} /\ link'.args = link.args
        /\ link'.control = link.control /\ link'.mode = link.mode
        /\ link'.changed = link.changed /\ link'.red = link.red /\ link'.reused = link.reused
    BY <2>1
  <2>3. TypeOK'
    BY <1>1, <2>2 DEF Inv, TypeOK, disk, Contents
  <2> QED BY <1>1, <1>2, <2>2, <2>3 DEF Inv, disk, ReadingOK, LayoutOK, CachedOK, RedOK,
             EmittedOK, InWindow, NeverStale
<1> QED BY <1>3, <1>4 DEF TryReuse

(* load_and_resolve: the reading is what the inputs hold.                  *)
LEMMA LoadAndResolveInv == ASSUME Inv, LoadAndResolve PROVE Inv'
<1>1. TypeOK'
  BY DEF Inv, TypeOK, LoadAndResolve, disk, Contents
<1>2. RecordFaithful'
  BY RecordKept DEF Inv, LoadAndResolve, disk
<1> QED BY <1>1, <1>2 DEF Inv, TypeOK, LoadAndResolve, disk, Contents, ReadingOK, LayoutOK,
           CachedOK, RedOK, EmittedOK, NeverStale, InWindow

(* The end of an invocation, by exit, error or kill.                       *)
LEMMA ExitInv == ASSUME Inv, Exit \/ Abort PROVE Inv'
<1>1. UNCHANGED <<disk, clock>> /\ link' = NoLink
  BY DEF Exit, Abort
<1>2. TypeOK'
  BY <1>1 DEF Inv, TypeOK, disk, NoLink, Contents
<1>3. RecordFaithful'
  BY <1>1, RecordKept DEF Inv, disk
<1> QED BY <1>1, <1>2, <1>3 DEF Inv, disk, NoLink, ReadingOK, LayoutOK, CachedOK, RedOK,
           EmittedOK, NeverStale, InWindow

(* A cached layout is taken: both fast paths rest on the recorded digests. *)
LEMMA CachedLayoutIsFresh ==
  ASSUME SoundImage, Inv, NEW a, NEW cs \in Reading, cs = Contents,
         StateUsable(a), manifest.front_end # NoFile,
         \A f \in ChangedInputs : Digest(cs[f]) = manifest.front_end.digests[f]
  PROVE  /\ manifest.front_end.blob_hash = Layout(a, control, cs)
         /\ manifest.syms = SymbolAddresses(Layout(a, control, cs), cs)
         /\ manifest.front_end = FreshSnapshot(a, cs, Layout(a, control, cs))
<1>1. PICK ds \in Reading : Describes(manifest, ds)
  BY DEF StateUsable, Inv, RecordFaithful
<1> DEFINE fe == manifest.front_end
           l == Layout(a, control, ds)
<1>2. manifest.args = a /\ fe = FreshSnapshot(a, ds, l) /\ manifest.syms = SymbolAddresses(l, ds)
  BY <1>1 DEF StateUsable, Describes
<1>3. fe.blob_hash = l /\ fe.digests = [f \in Files |-> Digest(ds[f])]
  BY <1>2 DEF FreshSnapshot
<1>4. \A f \in Files : Digest(cs[f]) = Digest(ds[f])
  <2> TAKE f \in Files
  <2>1. CASE f \in ChangedInputs
    BY <1>3, <2>1
  <2>2. CASE f \notin ChangedInputs
    <3>1. cs[f] = ds[f]
      BY <1>1, <2>2 DEF ChangedInputs, Describes, Contents
    <3> QED BY <3>1
  <2> QED BY <2>1, <2>2
<1>5. Layout(a, control, cs) = l /\ \A f \in Files : cs[f].off = ds[f].off
  BY <1>4, SameDigestsSameLayout
<1>6. SymbolAddresses(l, cs) = SymbolAddresses(l, ds)
  BY <1>5 DEF SymbolAddresses
<1>7. [f \in Files |-> Digest(cs[f])] = [f \in Files |-> Digest(ds[f])]
  BY <1>4
<1>8. FreshSnapshot(a, cs, l) = FreshSnapshot(a, ds, l)
  BY <1>7 DEF FreshSnapshot
<1> HIDE DEF l
<1> QED BY <1>2, <1>3, <1>5, <1>6, <1>8

(* try_parse_only_changed: the cached layout and symbols it takes are the  *)
(* fresh ones.                                                             *)
LEMMA TryParseOnlyChangedInv == ASSUME SoundImage, Inv, TryParseOnlyChanged PROVE Inv'
<1>1. UNCHANGED <<disk, clock>> /\ link.pc = "fast"
  BY DEF TryParseOnlyChanged
<1>2. RecordFaithful'
  BY <1>1, RecordKept DEF Inv, disk
<1>3. CASE link' = [link EXCEPT !.pc = "parse"]
  <2>1. TypeOK'
    BY <1>1, <1>3 DEF Inv, TypeOK, disk, Contents
  <2> QED BY <1>1, <1>2, <1>3, <2>1 DEF Inv, disk, ReadingOK, LayoutOK, CachedOK, RedOK,
             EmittedOK, InWindow, NeverStale
<1>4. CASE ParseOnlyChangedApplies
  <2>1. /\ link'.pc = "emit" /\ link'.mode = "view" /\ link'.cs = Contents
        /\ link'.changed = ChangedInputs /\ link'.layout = blob.layout
        /\ link'.syms = manifest.syms /\ link'.front_end = manifest.front_end
        /\ link'.args = link.args /\ link'.control = link.control /\ link'.red = link.red
        /\ link'.reused = link.reused
    <3>1. link' = [link EXCEPT !.pc = "emit", !.mode = "view",
                                !.cs = Contents,
                                !.changed = ChangedInputs,
                                !.layout = blob.layout,
                                !.syms = manifest.syms,
                                !.front_end = manifest.front_end]
      BY <1>4 DEF TryParseOnlyChanged
    <3> QED BY <3>1
  <2>2. TypeOK'
    BY <1>1, <2>1 DEF Inv, TypeOK, disk, Contents, ChangedInputs
  <2>3. Contents \in Reading /\ \A f \in ChangedInputs : Contents[f] = inputs[f].content
    BY DEF Inv, TypeOK, ChangedInputs, Contents
  <2>4. /\ StateUsable(link.args) /\ manifest.front_end # NoFile
        /\ \A f \in ChangedInputs : Digest(Contents[f]) = manifest.front_end.digests[f]
        /\ \A f \in ChangedInputs : Contents[f].simple
        /\ blob.layout = manifest.front_end.blob_hash
    BY <1>4, <2>3 DEF ParseOnlyChangedApplies, BlobMatches
  <2> DEFINE l == Layout(link.args, control, Contents)
  <2>5. /\ manifest.front_end.blob_hash = l
        /\ manifest.syms = SymbolAddresses(l, Contents)
        /\ manifest.front_end = FreshSnapshot(link.args, Contents, l)
    BY <2>3, <2>4, CachedLayoutIsFresh
  <2>6. Contents' = Contents /\ control' = control /\ manifest' = manifest /\ output' = output
        /\ inputs' = inputs
    BY <1>1 DEF disk, Contents
  <2>7. ReadingOK'
    BY <1>1, <2>1, <2>3, <2>6 DEF ReadingOK, Inv, InWindow
  <2>8. LayoutOK'
    BY <2>1, <2>4, <2>5, <2>6 DEF LayoutOK
  <2>9. CachedOK'
    BY <2>1, <2>4, <2>5, <2>6 DEF CachedOK, StateUsable, ChangedInputs
  <2> QED BY <1>2, <2>1, <2>2, <2>7, <2>8, <2>9 DEF Inv, RedOK, EmittedOK, NeverStale
<1> QED BY <1>3, <1>4 DEF TryParseOnlyChanged

(* try_reuse_layout, or compute_layout.                                    *)
LEMMA ChooseLayoutInv == ASSUME SoundImage, Inv, ChooseLayout PROVE Inv'
<1>1. UNCHANGED <<disk, clock>> /\ link.pc = "layout"
  BY DEF ChooseLayout
<1>2. RecordFaithful'
  BY <1>1, RecordKept DEF Inv, disk
<1>3. /\ Contents' = Contents /\ control' = control /\ manifest' = manifest /\ output' = output
      /\ inputs' = inputs
  BY <1>1 DEF disk, Contents
<1>4. link.cs \in Reading /\ link.cs = Contents /\ link.control = control
  BY <1>1 DEF Inv, ReadingOK, InWindow
<1>5. CASE LayoutReusable
  <2>1. /\ link'.pc = "plan" /\ link'.reused = TRUE /\ link'.changed = ChangedInputs
        /\ link'.layout = blob.layout
        /\ link'.syms = SymbolAddresses(blob.layout, link.cs)
        /\ link'.front_end = manifest.front_end
        /\ link'.cs = link.cs /\ link'.args = link.args /\ link'.control = link.control
        /\ link'.mode = link.mode /\ link'.red = link.red
    <3>1. link' = [link EXCEPT !.pc = "plan", !.reused = TRUE,
                                !.changed = ChangedInputs,
                                !.layout = blob.layout,
                                !.syms = SymbolAddresses(blob.layout, link.cs),
                                !.front_end = manifest.front_end]
      BY <1>5 DEF ChooseLayout
    <3> QED BY <3>1
  <2>2. TypeOK'
    BY <1>1, <2>1 DEF Inv, TypeOK, disk, Contents, ChangedInputs
  <2>3. /\ StateUsable(link.args) /\ manifest.front_end # NoFile
        /\ blob.layout = manifest.front_end.blob_hash
    BY <1>5 DEF LayoutReusable, BlobMatches
  <2>4. \A f \in ChangedInputs : Digest(link.cs[f]) = manifest.front_end.digests[f]
    <3>1. PICK ds \in Reading : Describes(manifest, ds)
      BY <2>3 DEF StateUsable, Inv, RecordFaithful
    <3>2. manifest.front_end = FreshSnapshot(manifest.args, ds, Layout(manifest.args, control, ds))
      BY <2>3, <3>1 DEF Describes
    <3>3. manifest.front_end.drivers_hash = DriversHash(manifest.args, manifest.front_end.digests)
      BY <3>2 DEF FreshSnapshot
    <3>4. CurrentDigests = manifest.front_end.digests
      BY <1>5, <3>3 DEF LayoutReusable, DriversHash
    <3> TAKE f \in ChangedInputs
    <3>5. f \in Files /\ CurrentDigests[f] = Digest(link.cs[f])
      BY DEF CurrentDigests, ChangedInputs
    <3> QED BY <3>4, <3>5
  <2> DEFINE l == Layout(link.args, control, link.cs)
  <2>5. /\ manifest.front_end.blob_hash = l
        /\ manifest.syms = SymbolAddresses(l, link.cs)
        /\ manifest.front_end = FreshSnapshot(link.args, link.cs, l)
    BY <1>4, <2>3, <2>4, CachedLayoutIsFresh
  <2>6. ReadingOK' /\ LayoutOK'
    BY <1>3, <1>4, <2>1, <2>3, <2>5 DEF ReadingOK, LayoutOK, InWindow
  <2>7. CachedOK'
    BY <1>3, <2>1, <2>3, <2>5 DEF CachedOK, StateUsable, ChangedInputs
  <2> QED BY <1>2, <2>1, <2>2, <2>6, <2>7 DEF Inv, RedOK, EmittedOK, NeverStale
<1>6. CASE ~LayoutReusable
  <2> DEFINE l == Layout(link.args, link.control, link.cs)
             fe == link.incremental /\ Eligible(link.args)
  <2>1. link' = [link EXCEPT
                !.pc = "plan",
                !.layout = l,
                !.syms = SymbolAddresses(l, link.cs),
                !.front_end = IF fe THEN FreshSnapshot(link.args, link.cs, l) ELSE NoFile,
                !.write_blob = fe]
    BY <1>6 DEF ChooseLayout
  <2> HIDE DEF l, fe
  <2>2. /\ link'.pc = "plan" /\ link'.layout = l
        /\ link'.syms = SymbolAddresses(l, link.cs)
        /\ link'.front_end = IF fe THEN FreshSnapshot(link.args, link.cs, l) ELSE NoFile
        /\ link'.cs = link.cs /\ link'.args = link.args /\ link'.control = link.control
        /\ link'.mode = link.mode /\ link'.red = link.red /\ link'.changed = link.changed
        /\ link'.reused = link.reused
    BY <2>1
  <2>3. TypeOK'
    BY <1>1, <2>2 DEF Inv, TypeOK, disk, Contents
  <2>4. ReadingOK'
    BY <1>3, <1>4, <2>2 DEF ReadingOK, InWindow
  <2>5. LayoutOK'
    BY <1>3, <1>4, <2>2 DEF LayoutOK, l
  <2>6. link.reused = FALSE
    BY <1>1 DEF Inv, TypeOK
  <2> QED BY <1>2, <2>2, <2>3, <2>4, <2>5, <2>6 DEF Inv, CachedOK, RedOK, EmittedOK, NeverStale
<1> QED BY <1>5, <1>6

(* incremental_emit_plan: a patch starts from the image of the reading     *)
(* the manifest describes.                                                 *)
LEMMA PlanEmitInv == ASSUME Inv, PlanEmit PROVE Inv'
<1>1. UNCHANGED <<disk, clock>> /\ link.pc = "plan"
  BY DEF PlanEmit
<1>2. RecordFaithful'
  BY <1>1, RecordKept DEF Inv, disk
<1>3. /\ Contents' = Contents /\ control' = control /\ manifest' = manifest /\ output' = output
      /\ inputs' = inputs /\ clock' = clock
  BY <1>1 DEF disk, Contents
<1> DEFINE kept == /\ link'.pc = "emit" /\ link'.args = link.args
                   /\ link'.control = link.control /\ link'.cs = link.cs
                   /\ link'.layout = link.layout /\ link'.syms = link.syms
                   /\ link'.front_end = link.front_end /\ link'.changed = link.changed
                   /\ link'.reused = link.reused
<1>4. ASSUME kept, link'.mode \in {"full", "objects", "red"}, link'.red \subseteq AllocSections
      PROVE  TypeOK' /\ ReadingOK' /\ LayoutOK' /\ EmittedOK' /\ NeverStale'
  BY <1>1, <1>3, <1>4 DEF Inv, TypeOK, ReadingOK, LayoutOK, EmittedOK, NeverStale, InWindow
<1>5. CASE ~PatchAccepted
  <2>1. kept /\ link'.mode = "full" /\ link'.red = link.red
    <3>1. link' = [link EXCEPT !.pc = "emit", !.mode = "full"]
      BY <1>5 DEF PlanEmit
    <3> QED BY <3>1
  <2>2. link.red \subseteq AllocSections
    BY DEF Inv, TypeOK
  <2> QED BY <1>2, <1>4, <2>1, <2>2 DEF Inv, CachedOK, RedOK
<1>6. CASE PatchAccepted /\ link.reused
  <2>1. kept /\ link'.mode = "objects" /\ link'.red = link.red
    <3>1. link' = [link EXCEPT !.pc = "emit", !.mode = "objects"]
      BY <1>6 DEF PlanEmit
    <3> QED BY <3>1
  <2>2. link.red \subseteq AllocSections
    BY DEF Inv, TypeOK
  <2>3. CachedOK'
    BY <1>1, <1>3, <1>6, <2>1 DEF Inv, CachedOK, StateUsable, ChangedInputs
  <2> QED BY <1>2, <1>4, <2>1, <2>2, <2>3 DEF Inv, RedOK
<1>7. CASE PatchAccepted /\ ~link.reused
  <2> DEFINE red == RedSections(link.cs, ChangedInputs, Moved(manifest.syms, link.syms))
  <2>1. link' = [link EXCEPT !.pc = "emit", !.mode = "red", !.red = red]
    BY <1>7 DEF PlanEmit
  <2>2. red \subseteq AllocSections
    BY DEF RedSections
  <2> HIDE DEF red
  <2>3. kept /\ link'.mode = "red" /\ link'.red = red
    BY <2>1
  <2>4. RedOK'
    BY <1>3, <1>7, <2>3 DEF RedOK, PatchAccepted, StateUsable, ChangedInputs, red
  <2> QED BY <1>2, <1>4, <2>2, <2>3, <2>4 DEF Inv, CachedOK
<1> QED BY <1>5, <1>6, <1>7

(* Whichever way the image is written, it is the full link.                *)
LEMMA EmittedIsFullLink ==
  ASSUME SoundImage, Inv, link.pc = "emit", link.mode # "full" => SameLength
  PROVE  Emitted = FullLink(link.args, control, link.cs)
<1> DEFINE cs == link.cs
           l == link.layout
           syms == link.syms
<1>1. /\ cs \in Reading /\ cs = Contents
      /\ l = Layout(link.args, control, cs) /\ syms = SymbolAddresses(l, cs)
  BY DEF Inv, ReadingOK, LayoutOK, InWindow
<1>2. FullLink(link.args, control, cs) = EmitFull(l, syms, cs)
  BY <1>1 DEF FullLink
<1>3. CASE link.mode = "full"
  BY <1>2, <1>3 DEF Emitted
<1>4. ASSUME link.mode \in {"objects", "view"}
      PROVE  EmitObjects(output.image, l, syms, cs, link.changed) = EmitFull(l, syms, cs)
  <2>1. /\ StateUsable(link.args) /\ link.changed = ChangedInputs
        /\ manifest.front_end # NoFile
        /\ l = manifest.front_end.blob_hash /\ syms = manifest.syms
    BY <1>4 DEF Inv, CachedOK, SameLength
  <2>2. PICK ds \in Reading : Describes(manifest, ds)
    BY <2>1 DEF StateUsable, Inv, RecordFaithful
  <2>3. Layout(link.args, control, ds) = l /\ SymbolAddresses(l, ds) = syms
    BY <2>1, <2>2 DEF Describes, StateUsable, FreshSnapshot
  <2>4. output.image = EmitFull(l, syms, ds)
    <3>1. output.image = FullLink(link.args, control, ds)
      BY <2>1, <2>2 DEF Describes, StateUsable
    <3> QED BY <2>3, <3>1 DEF FullLink
  <2>5. \A f \in Files \ link.changed : cs[f] = ds[f]
    BY <1>1, <2>1, <2>2 DEF Describes, ChangedInputs, Contents
  <2>6. \A f \in Files \ link.changed : \A s \in Sections :
          Chunk(l, syms, cs, f, s) = Chunk(l, syms, ds, f, s)
    <3> HIDE DEF cs, l, syms
    <3> QED BY <2>5 DEF Chunk
  <2> HIDE DEF cs, l, syms
  <2>7. \A p \in Places : p[1] \in Files /\ p[2] \in Sections
    BY DEF Places
  <2>8. EmitObjects(output.image, l, syms, cs, link.changed).bytes = EmitFull(l, syms, cs).bytes
    <3>1. \A p \in Places : output.image.bytes[p] = Chunk(l, syms, ds, p[1], p[2])
      BY <2>4 DEF EmitFull
    <3> QED BY <2>6, <2>7, <3>1 DEF EmitObjects, EmitFull
  <2>9. output.image.head = EmitFull(l, syms, cs).head
    BY <2>4 DEF EmitFull
  <2> QED BY <2>8, <2>9 DEF EmitObjects, EmitFull
<1>5. CASE link.mode = "objects"
  BY <1>2, <1>4, <1>5 DEF Emitted
<1>6. CASE link.mode = "view"
  <2>1. \A f \in link.changed : cs[f].simple
    BY <1>6 DEF Inv, CachedOK
  <2>2. {f \in link.changed : cs[f].simple} = link.changed
    BY <2>1
  <2>3. EmitFromView(output.image, l, syms, cs, link.changed)
          = EmitObjects(output.image, l, syms, cs, link.changed)
    <3> HIDE DEF cs, l, syms
    <3> QED BY <2>2 DEF EmitFromView, EmitObjects
  <2> QED BY <1>2, <1>4, <1>6, <2>3 DEF Emitted
<1>7. CASE link.mode = "red"
  <2>1. /\ StateUsable(link.args)
        /\ SectionsInPlace(manifest.sections, SectionRecords(l))
        /\ link.red = RedSections(cs, ChangedInputs, Moved(manifest.syms, syms))
    BY <1>7 DEF Inv, RedOK, SameLength
  <2>2. PICK ds \in Reading : Describes(manifest, ds)
    BY <2>1 DEF StateUsable, Inv, RecordFaithful
  <2> DEFINE m == Layout(link.args, control, ds)
  <2>3. /\ manifest.sections = SectionRecords(m) /\ manifest.syms = SymbolAddresses(m, ds)
        /\ output.image = FullLink(link.args, control, ds) /\ output.len = FileSize(m)
    BY <2>1, <2>2 DEF Describes, StateUsable
  <2>4. FileSize(l) = FileSize(m)
    BY <1>7, <2>3 DEF SameLength
  <2>5. \A f \in Files \ ChangedInputs : cs[f] = ds[f]
    BY <1>1, <2>2 DEF Describes, ChangedInputs, Contents
  <2>6. output.image = EmitFull(m, manifest.syms, ds)
    BY <2>3 DEF FullLink
  <2> HIDE DEF m
  <2>7. ASSUME NEW f \in Files, NEW s \in Sections, s \notin link.red
        PROVE  Chunk(l, syms, cs, f, s) = Chunk(m, manifest.syms, ds, f, s)
    <3> HIDE DEF cs, l, syms
    <3>1. m = Layout(link.args, control, ds)
      BY DEF m
    <3> QED BY <1>1, <2>1, <2>3, <2>4, <2>5, <2>7, <3>1, GreenSectionsStand
  <2>8. EmitRed(output.image, l, syms, cs, link.red).bytes = EmitFull(l, syms, cs).bytes
    <3> HIDE DEF cs, l, syms
    <3>1. \A p \in Places : p[1] \in Files /\ p[2] \in Sections
      BY DEF Places
    <3>2. \A p \in Places : output.image.bytes[p] = Chunk(m, manifest.syms, ds, p[1], p[2])
      BY <2>6 DEF EmitFull
    <3> QED BY <2>7, <3>1, <3>2 DEF EmitRed, EmitFull
  <2>9. EmitRed(output.image, l, syms, cs, link.red) = EmitFull(l, syms, cs)
    BY <2>8 DEF EmitRed, EmitFull
  <2> QED BY <1>2, <1>7, <2>9 DEF Emitted
<1> QED BY <1>3, <1>5, <1>6, <1>7 DEF Inv, TypeOK

(* The output is written to its end.                                       *)
LEMMA EmitInv == ASSUME SoundImage, Inv, Emit PROVE Inv'
<1>1. /\ link.pc = "emit" /\ clock' = clock + 1
      /\ output' = [image |-> Emitted, len |-> FileSize(link.layout), stamp |-> clock + 1]
      /\ inputs' = inputs /\ control' = control /\ manifest' = manifest /\ blob' = blob
      /\ Contents' = Contents
  BY DEF Emit, Contents
<1>2. /\ output' # NoFile /\ output'.stamp = clock + 1 /\ output'.len = FileSize(link.layout)
      /\ output'.image = FullLink(link.args, control, link.cs)
  <2>1. Emitted = FullLink(link.args, control, link.cs)
    BY EmittedIsFullLink DEF Emit
  <2>2. output' # NoFile
    BY <1>1 DEF NoFile
  <2> QED BY <1>1, <2>1, <2>2
<1>3. RecordFaithful'
  BY <1>1, <1>2, RecordKept DEF Inv
<1>4. clock \in Nat /\ link.cs = Contents /\ link.cs \in Reading
  BY <1>1 DEF Inv, TypeOK, ReadingOK, InWindow
<1>5. /\ clock' \in Nat /\ Contents' \in Reading /\ control' \in Controls
      /\ inputs' \in [Files -> [content : AllVersions, stamp : 0..clock']]
      /\ output'.stamp \in 1..clock'
      /\ manifest' # NoFile => /\ manifest'.args \in Args
                               /\ \A f \in Files : manifest'.fast[f] \in 0..clock'
                               /\ manifest'.fast_output.stamp \in 1..clock'
  BY <1>1, <1>2, <1>4 DEF Inv, TypeOK
<1>6. CASE link' = [link EXCEPT !.pc = "blob"]
  <2>1. /\ link'.pc = "blob" /\ link'.args = link.args /\ link'.control = link.control
        /\ link'.cs = link.cs /\ link'.layout = link.layout /\ link'.syms = link.syms
        /\ link'.front_end = link.front_end /\ link'.changed = link.changed
        /\ link'.reused = link.reused /\ link'.mode = link.mode /\ link'.red = link.red
    BY <1>6
  <2>2. TypeOK'
    BY <1>1, <1>2, <1>4, <1>5, <2>1 DEF Inv, TypeOK
  <2>3. ReadingOK' /\ LayoutOK' /\ EmittedOK'
    BY <1>1, <1>2, <2>1 DEF Inv, ReadingOK, LayoutOK, EmittedOK, InWindow
  <2> QED BY <1>3, <2>1, <2>2, <2>3 DEF Inv, CachedOK, RedOK, NeverStale
<1>7. CASE link' = Finished
  <2>1. /\ link'.pc = "done" /\ link'.args = link.args /\ link'.mode = "full"
        /\ link'.changed = {} /\ link'.red = {} /\ link'.reused = FALSE
    BY <1>7 DEF Finished, NoLink
  <2>2. TypeOK'
    <3>1. link.args \in Args
      BY <1>1 DEF Inv, TypeOK
    <3> QED BY <1>5, <2>1, <3>1 DEF TypeOK
  <2>3. NeverStale'
    BY <1>1, <1>2, <1>4, <2>1 DEF NeverStale
  <2> QED BY <1>3, <2>1, <2>2, <2>3
          DEF Inv, ReadingOK, LayoutOK, CachedOK, RedOK, EmittedOK, InWindow
<1> QED
  <2>1. link' = IF link.incremental THEN [link EXCEPT !.pc = "blob"] ELSE Finished
    BY DEF Emit
  <2> QED BY <1>6, <1>7, <2>1

(* A declined patch leaves the output as it was.                           *)
LEMMA EmitDeclinedInv == ASSUME Inv, EmitDeclined PROVE Inv'
<1>1. UNCHANGED <<disk, clock>> /\ link.pc = "emit"
  BY DEF EmitDeclined
<1>2. RecordFaithful'
  BY <1>1, RecordKept DEF Inv, disk
<1>3. CASE link.mode = "view"
  <2>1. /\ link'.pc = "parse" /\ link'.args = link.args /\ link'.control = link.control
        /\ link'.mode = "full" /\ link'.changed = {} /\ link'.red = {} /\ link'.reused = FALSE
    <3>1. link' = [NoLink EXCEPT !.pc = "parse", !.args = link.args,
                                 !.control = link.control,
                                 !.incremental = TRUE, !.quiet = link.quiet]
      BY <1>3 DEF EmitDeclined
    <3> QED BY <3>1 DEF NoLink
  <2>2. TypeOK'
    BY <1>1, <2>1 DEF Inv, TypeOK, disk, Contents
  <2> QED BY <1>1, <1>2, <2>1, <2>2 DEF Inv, disk, ReadingOK, LayoutOK, CachedOK, RedOK,
             EmittedOK, InWindow, NeverStale
<1>4. CASE link.mode # "view"
  <2>1. /\ link'.pc = "emit" /\ link'.args = link.args /\ link'.control = link.control
        /\ link'.cs = link.cs /\ link'.layout = link.layout /\ link'.syms = link.syms
        /\ link'.front_end = link.front_end /\ link'.changed = link.changed
        /\ link'.reused = link.reused /\ link'.mode = "full" /\ link'.red = link.red
    <3>1. link' = [link EXCEPT !.mode = "full"]
      BY <1>4 DEF EmitDeclined
    <3> QED BY <1>1, <3>1
  <2>2. TypeOK'
    BY <1>1, <2>1 DEF Inv, TypeOK, disk, Contents
  <2>3. ReadingOK' /\ LayoutOK'
    BY <1>1, <2>1 DEF Inv, disk, ReadingOK, LayoutOK, InWindow, Contents
  <2> QED BY <1>2, <2>1, <2>2, <2>3 DEF Inv, CachedOK, RedOK, EmittedOK, NeverStale
<1> QED BY <1>3, <1>4

(* layout.bin is written before the manifest that names it.                *)
LEMMA WriteBlobInv == ASSUME Inv, WriteBlob PROVE Inv'
<1>1. /\ link.pc = "blob" /\ link' = [link EXCEPT !.pc = "stat"]
      /\ inputs' = inputs /\ control' = control /\ output' = output
      /\ manifest' = manifest /\ clock' = clock
  BY DEF WriteBlob
<1>2. RecordFaithful'
  BY <1>1, RecordKept DEF Inv
<1>3. /\ link'.pc = "stat" /\ link'.args = link.args /\ link'.control = link.control
      /\ link'.cs = link.cs /\ link'.layout = link.layout /\ link'.syms = link.syms
      /\ link'.front_end = link.front_end /\ link'.changed = link.changed
      /\ link'.reused = link.reused /\ link'.mode = link.mode /\ link'.red = link.red
  BY <1>1
<1>4. TypeOK'
  BY <1>1, <1>3 DEF Inv, TypeOK, Contents
<1>5. ReadingOK' /\ LayoutOK' /\ EmittedOK'
  BY <1>1, <1>3 DEF Inv, ReadingOK, LayoutOK, EmittedOK, InWindow, Contents
<1> QED BY <1>2, <1>3, <1>4, <1>5 DEF Inv, CachedOK, RedOK, NeverStale

(* The stamps recorded are those of the reading and of the image written.  *)
LEMMA StampsInv == ASSUME Inv, StatFiles, output # NoFile PROVE Inv'
<1>1. /\ link.pc = "stat" /\ UNCHANGED <<disk, clock>>
  BY DEF StatFiles
<1>2. RecordFaithful'
  BY <1>1, RecordKept DEF Inv, disk
<1>3. link' = [link EXCEPT !.pc = "commit", !.fast = Stamps,
                           !.fast_output = [stamp |-> output.stamp, len |-> output.len]]
  BY DEF StatFiles
<1>4. /\ link'.pc = "commit" /\ link'.args = link.args /\ link'.control = link.control
      /\ link'.cs = link.cs /\ link'.layout = link.layout /\ link'.syms = link.syms
      /\ link'.front_end = link.front_end /\ link'.changed = link.changed
      /\ link'.reused = link.reused /\ link'.mode = link.mode /\ link'.red = link.red
      /\ link'.fast = Stamps /\ link'.fast_output = [stamp |-> output.stamp, len |-> output.len]
  BY <1>3
<1>5. output # NoFile /\ output.stamp \in 1..clock /\ \A f \in Files : Stamps[f] \in 0..clock
  BY <1>1 DEF Inv, TypeOK, EmittedOK, Stamps
<1>6. TypeOK'
  BY <1>1, <1>4, <1>5 DEF Inv, TypeOK, disk, Contents
<1>7. ReadingOK' /\ LayoutOK'
  BY <1>1, <1>4 DEF Inv, ReadingOK, LayoutOK, InWindow, Contents, disk
<1>8. Describes(Pending, link.cs)'
  <2>1. /\ link.layout = Layout(link.args, control, link.cs)
        /\ link.syms = SymbolAddresses(link.layout, link.cs)
        /\ link.front_end # NoFile =>
             link.front_end = FreshSnapshot(link.args, link.cs, link.layout)
        /\ output.image = FullLink(link.args, control, link.cs)
        /\ output.len = FileSize(link.layout)
        /\ \A f \in Files : inputs[f].content = link.cs[f]
    BY <1>1, <1>5 DEF Inv, LayoutOK, EmittedOK, ReadingOK, InWindow, Contents
  <2>2. Pending' = [args |-> link.args, fast |-> Stamps,
                    fast_output |-> [stamp |-> output.stamp, len |-> output.len],
                    sections |-> SectionRecords(link.layout), syms |-> link.syms,
                    front_end |-> link.front_end]
    BY <1>4 DEF Pending
  <2>3. inputs' = inputs /\ output' = output /\ control' = control /\ link'.cs = link.cs
    BY <1>1, <1>4 DEF disk
  <2> QED BY <2>1, <2>2, <2>3 DEF Describes
<1>9. EmittedOK'
  BY <1>1, <1>4, <1>5, <1>8 DEF EmittedOK, Inv, ReadingOK, InWindow, Contents, disk
<1> QED BY <1>2, <1>4, <1>6, <1>7, <1>9 DEF Inv, CachedOK, RedOK, NeverStale

(* An output that is gone by then ends the invocation.                     *)
LEMMA StatFilesInv == ASSUME Inv, StatFiles PROVE Inv'
<1>1. CASE output = NoFile
  BY <1>1, ExitInv DEF StatFiles, Abort
<1>2. CASE output # NoFile
  BY <1>2, StampsInv
<1> QED BY <1>1, <1>2

(* The manifest that is committed describes the reading.                   *)
LEMMA CommitManifestInv == ASSUME Inv, CommitManifest PROVE Inv'
<1>1. /\ link.pc = "commit" /\ link' = Finished /\ manifest' = Pending
      /\ inputs' = inputs /\ control' = control /\ output' = output /\ clock' = clock
      /\ Contents' = Contents
  BY DEF CommitManifest, Pending, Contents
<1>2. /\ link'.pc = "done" /\ link'.args = link.args /\ link'.mode = "full"
      /\ link'.changed = {} /\ link'.red = {} /\ link'.reused = FALSE
      /\ link'.quiet = link.quiet
  BY <1>1 DEF Finished, NoLink
<1>3. RecordFaithful'
  <2>1. Describes(Pending, link.cs) /\ link.cs \in Reading
    BY <1>1 DEF Inv, EmittedOK, ReadingOK
  <2>2. \A m, cs : Describes(m, cs) => Describes(m, cs)'
    BY <1>1 DEF Describes
  <2>3. \E cs \in Reading : Describes(manifest, cs)'
    BY <1>1, <2>1, <2>2 DEF Describes
  <2> QED BY <2>3 DEF RecordFaithful
<1>4. TypeOK'
  <2>1. /\ manifest'.args = link.args /\ manifest'.fast = link.fast
        /\ manifest'.fast_output = link.fast_output
    BY <1>1 DEF Pending
  <2> QED BY <1>1, <1>2, <2>1 DEF Inv, TypeOK
<1>5. NeverStale'
  BY <1>1, <1>2 DEF Inv, EmittedOK, NeverStale
<1> QED BY <1>2, <1>3, <1>4, <1>5
        DEF Inv, ReadingOK, LayoutOK, CachedOK, RedOK, EmittedOK, InWindow

(* A torn output has a stamp of its own, which no manifest holds.          *)
LEMMA CrashInEmitInv == ASSUME Inv, CrashInEmit PROVE Inv'
<1>1. /\ clock' = clock + 1 /\ output'.stamp = clock + 1 /\ link' = NoLink
      /\ inputs' = inputs /\ control' = control /\ manifest' = manifest
  BY DEF CrashInEmit
<1>2. RecordFaithful'
  BY <1>1, RecordKept DEF Inv
<1>3. clock \in Nat
  BY DEF Inv, TypeOK
<1>4. inputs' \in [Files -> [content : AllVersions, stamp : 0..clock']]
  BY <1>1, <1>3 DEF Inv, TypeOK
<1>5. TypeOK'
  BY <1>1, <1>3, <1>4 DEF Inv, TypeOK, NoLink, Contents
<1> QED BY <1>1, <1>2, <1>5 DEF Inv, NoLink, ReadingOK, LayoutOK, CachedOK, RedOK,
           EmittedOK, NeverStale, InWindow

LEMMA StutterInv == ASSUME Inv, UNCHANGED vars PROVE Inv'
<1>1. RecordFaithful'
  BY RecordKept DEF Inv, vars
<1>2. TypeOK' /\ ReadingOK' /\ LayoutOK' /\ NeverStale'
  BY DEF Inv, vars, TypeOK, ReadingOK, LayoutOK, NeverStale, InWindow, Contents
<1>3. CachedOK' /\ RedOK'
  BY DEF Inv, vars, CachedOK, RedOK, StateUsable, ChangedInputs
<1>4. EmittedOK'
  BY DEF Inv, vars, EmittedOK, Describes, Pending, Contents
<1> QED BY <1>1, <1>2, <1>3, <1>4 DEF Inv

LEMMA LinkStepInv == ASSUME SoundImage, Inv, LinkStep PROVE Inv'
BY TryReuseInv, TryParseOnlyChangedInv, LoadAndResolveInv, ChooseLayoutInv, PlanEmitInv,
   EmitInv, EmitDeclinedInv, WriteBlobInv, StatFilesInv, CommitManifestInv, ExitInv DEF LinkStep

(* Every step keeps the invariant.                                         *)
LEMMA NextInv == ASSUME Sound, Inv, [Next]_vars PROVE Inv'
<1>1. CASE UNCHANGED vars
  BY <1>1, StutterInv
<1>2. CASE \/ \E f \in Files : Edit(f)
           \/ RemoveOutput \/ OverwriteOutput
  BY <1>2, UserInv DEF Sound, Edit, OverwriteOutput, DiskMayChange
<1>3. CASE LinkStep
  BY <1>3, LinkStepInv DEF Sound
<1> QED BY <1>1, <1>2, <1>3, EditControlInv, StartInv, ExitInv, CrashInEmitInv DEF Next

(* The invariant holds throughout every run of the linker.                 *)
THEOREM Invariance == ASSUME Sound PROVE Spec => []Inv
<1>1. Init => Inv
  BY InitInv
<1>2. Inv /\ [Next]_vars => Inv'
  BY NextInv
<1> QED BY <1>1, <1>2, PTL DEF Spec

(* The README's promise, for any inputs, edits, aborts and crashes: a link *)
(* that succeeds undisturbed leaves the bytes of a full link.              *)
THEOREM NeverStaleHolds == ASSUME Sound PROVE Spec => []NeverStale
<1>1. Inv => NeverStale
  BY DEF Inv
<1> QED BY <1>1, Invariance, PTL

(* What record_link_with_sections commits stays true of the disk.          *)
THEOREM RecordHolds == ASSUME Sound PROVE Spec => []RecordFaithful
<1>1. Inv => RecordFaithful
  BY DEF Inv
<1> QED BY <1>1, Invariance, PTL

(* A cached layout is only ever used where computing it afresh would give  *)
(* the same one.                                                           *)
THEOREM ReuseIsPure == ASSUME Sound PROVE Spec => []ReusedLayoutIsFresh
<1>1. Inv => ReusedLayoutIsFresh
  BY DEF Inv, ReadingOK, LayoutOK, ReusedLayoutIsFresh
<1> QED BY <1>1, Invariance, PTL
-----------------------------------------------------------------------------
(* The protocol of layout.bin and manifest.bin needs none of these         *)
(* conditions: it holds with edits at any time, and of any kind.           *)
ProtocolOK ==
  /\ link.pc \in {"idle", "reuse", "fast", "parse", "layout", "plan", "emit",
                  "blob", "stat", "commit", "done"}
  /\ link.pc \in {"reuse", "fast", "parse", "layout"} =>
       link.front_end = NoFile /\ link.write_blob = FALSE
  /\ (link.pc \in {"plan", "emit", "blob"} /\ link.front_end # NoFile) =>
       IF link.write_blob THEN link.layout = link.front_end.blob_hash
       ELSE blob # NoFile /\ blob.layout = link.front_end.blob_hash
  /\ (link.pc \in {"stat", "commit"} /\ link.front_end # NoFile) =>
       blob # NoFile /\ blob.layout = link.front_end.blob_hash
  /\ (link.pc = "commit" /\ link.quiet) =>
       /\ output # NoFile /\ link.fast = Stamps
       /\ link.fast_output = [stamp |-> output.stamp, len |-> output.len]
  /\ QuietRelinkReuses

(* Steps of the user leave the caches alone and end the link's quiet.      *)
LEMMA UserProtocol ==
  ASSUME ProtocolOK,
         \/ \E f \in Files : Edit(f)
         \/ EditControl \/ RemoveOutput \/ OverwriteOutput
  PROVE  ProtocolOK'
<1>1. blob' = blob /\ Disturb
  BY DEF Edit, EditControl, RemoveOutput, OverwriteOutput
<1>2. /\ link.pc # "idle" => ~link'.quiet
      /\ link'.pc = link.pc /\ link'.front_end = link.front_end
      /\ link'.write_blob = link.write_blob /\ link'.layout = link.layout
  BY <1>1 DEF Disturb
<1> QED BY <1>1, <1>2 DEF ProtocolOK, QuietRelinkReuses

(* Steps that only change what is in memory, up to the choice of layout.   *)
LEMMA EarlyProtocol ==
  ASSUME ProtocolOK,
         \/ \E a \in Args, inc \in BOOLEAN : Start(a, inc)
         \/ TryReuse \/ TryParseOnlyChanged \/ LoadAndResolve \/ Exit \/ Abort
  PROVE  ProtocolOK'
<1>1. CASE \E a \in Args, inc \in BOOLEAN : Start(a, inc)
  <2>1. /\ link'.pc \in {"reuse", "parse"} /\ link'.front_end = NoFile
        /\ link'.write_blob = FALSE
    BY <1>1 DEF Start, NoLink
  <2> QED BY <2>1 DEF ProtocolOK, QuietRelinkReuses
<1>2. CASE TryReuse
  <2>1. CASE Reusable(link.args) /\ link' = Finished
    <3>1. link'.pc = "done" /\ link'.args = link.args
      BY <2>1 DEF Finished, NoLink
    <3>2. Reusable(link.args)'
      BY <1>2, <2>1, <3>1 DEF TryReuse, Reusable, StateUsable, ChangedInputs, disk
    <3> QED BY <3>1, <3>2 DEF ProtocolOK, QuietRelinkReuses
  <2>2. CASE ~Reusable(link.args)
    <3>1. link' = [link EXCEPT !.pc = IF Eligible(link.args) THEN "fast" ELSE "parse"]
      BY <1>2, <2>2 DEF TryReuse
    <3>2. /\ link'.pc \in {"fast", "parse"} /\ link'.front_end = link.front_end
          /\ link'.write_blob = link.write_blob
      <4>1. CASE Eligible(link.args)
        BY <3>1, <4>1
      <4>2. CASE ~Eligible(link.args)
        BY <3>1, <4>2
      <4> QED BY <4>1, <4>2
    <3>3. link.pc = "reuse"
      BY <1>2 DEF TryReuse
    <3> QED BY <3>2, <3>3 DEF ProtocolOK, QuietRelinkReuses
  <2> QED BY <1>2, <2>1, <2>2 DEF TryReuse
<1>3. CASE TryParseOnlyChanged
  <2>1. link.pc = "fast" /\ blob' = blob
    BY <1>3 DEF TryParseOnlyChanged, disk
  <2>2. CASE link' = [link EXCEPT !.pc = "parse"]
    BY <2>1, <2>2 DEF ProtocolOK, QuietRelinkReuses
  <2>3. CASE ParseOnlyChangedApplies
    <3>1. link' = [link EXCEPT !.pc = "emit", !.mode = "view",
                                !.cs = Contents,
                                !.changed = ChangedInputs,
                                !.layout = blob.layout,
                                !.syms = manifest.syms,
                                !.front_end = manifest.front_end]
      BY <1>3, <2>3 DEF TryParseOnlyChanged
    <3>2. /\ link'.pc = "emit" /\ link'.front_end = manifest.front_end
          /\ link'.write_blob = link.write_blob
      BY <3>1
    <3>3. blob # NoFile /\ blob.layout = manifest.front_end.blob_hash
      BY <2>3 DEF ParseOnlyChangedApplies, BlobMatches
    <3> QED BY <2>1, <3>2, <3>3 DEF ProtocolOK, QuietRelinkReuses
  <2> QED BY <1>3, <2>2, <2>3 DEF TryParseOnlyChanged
<1>4. CASE LoadAndResolve
  <2>1. /\ link'.pc = "layout" /\ link'.front_end = link.front_end
        /\ link'.write_blob = link.write_blob /\ link.pc = "parse"
    BY <1>4 DEF LoadAndResolve
  <2> QED BY <2>1 DEF ProtocolOK, QuietRelinkReuses
<1>5. CASE Exit \/ Abort
  <2>1. link'.pc = "idle"
    BY <1>5 DEF Exit, Abort, NoLink
  <2> QED BY <2>1 DEF ProtocolOK, QuietRelinkReuses
<1> QED BY <1>1, <1>2, <1>3, <1>4, <1>5

(* From the choice of layout to the end of the emit.                       *)
LEMMA EmitProtocol ==
  ASSUME ProtocolOK, ChooseLayout \/ PlanEmit \/ Emit \/ EmitDeclined \/ CrashInEmit
  PROVE  ProtocolOK'
<1>1. CASE ChooseLayout
  <2>1. link.pc = "layout" /\ blob' = blob
    BY <1>1 DEF ChooseLayout, disk
  <2>2. CASE LayoutReusable
    <3>1. link' = [link EXCEPT !.pc = "plan", !.reused = TRUE,
                                !.changed = ChangedInputs,
                                !.layout = blob.layout,
                                !.syms = SymbolAddresses(blob.layout, link.cs),
                                !.front_end = manifest.front_end]
      BY <1>1, <2>2 DEF ChooseLayout
    <3>2. /\ link'.pc = "plan" /\ link'.front_end = manifest.front_end
          /\ link'.write_blob = link.write_blob
      BY <3>1
    <3>3. blob # NoFile /\ blob.layout = manifest.front_end.blob_hash
      BY <2>2 DEF LayoutReusable, BlobMatches
    <3> QED BY <2>1, <3>2, <3>3 DEF ProtocolOK, QuietRelinkReuses
  <2>3. CASE ~LayoutReusable
    <3> DEFINE l == Layout(link.args, link.control, link.cs)
               fe == link.incremental /\ Eligible(link.args)
    <3>1. link' = [link EXCEPT
                !.pc = "plan",
                !.layout = l,
                !.syms = SymbolAddresses(l, link.cs),
                !.front_end = IF fe THEN FreshSnapshot(link.args, link.cs, l) ELSE NoFile,
                !.write_blob = fe]
      BY <1>1, <2>3 DEF ChooseLayout
    <3>2. FreshSnapshot(link.args, link.cs, l).blob_hash = l
      BY DEF FreshSnapshot
    <3> HIDE DEF l, fe
    <3>3. /\ link'.pc = "plan" /\ link'.layout = l
          /\ link'.front_end = IF fe THEN FreshSnapshot(link.args, link.cs, l) ELSE NoFile
          /\ link'.write_blob = fe
      BY <3>1
    <3> QED BY <3>2, <3>3 DEF ProtocolOK, QuietRelinkReuses
  <2> QED BY <2>2, <2>3
<1>2. CASE PlanEmit
  <2>1. /\ link.pc = "plan" /\ link'.pc = "emit" /\ blob' = blob
        /\ link'.front_end = link.front_end /\ link'.write_blob = link.write_blob
        /\ link'.layout = link.layout
    <3> DEFINE red == RedSections(link.cs, ChangedInputs, Moved(manifest.syms, link.syms))
    <3>1. \/ link' = [link EXCEPT !.pc = "emit", !.mode = "full"]
          \/ link' = [link EXCEPT !.pc = "emit", !.mode = "objects"]
          \/ link' = [link EXCEPT !.pc = "emit", !.mode = "red", !.red = red]
      BY <1>2 DEF PlanEmit
    <3> HIDE DEF red
    <3>2. /\ link'.pc = "emit" /\ link'.front_end = link.front_end
          /\ link'.write_blob = link.write_blob /\ link'.layout = link.layout
      <4>1. CASE link' = [link EXCEPT !.pc = "emit", !.mode = "full"]
        BY <4>1
      <4>2. CASE link' = [link EXCEPT !.pc = "emit", !.mode = "objects"]
        BY <4>2
      <4>3. CASE link' = [link EXCEPT !.pc = "emit", !.mode = "red", !.red = red]
        BY <4>3
      <4> QED BY <3>1, <4>1, <4>2, <4>3
    <3>3. link.pc = "plan" /\ blob' = blob
      BY <1>2 DEF PlanEmit, disk
    <3> QED BY <3>2, <3>3
  <2> QED BY <2>1 DEF ProtocolOK, QuietRelinkReuses
<1>3. CASE Emit
  <2>1. link.pc = "emit" /\ blob' = blob
    BY <1>3 DEF Emit
  <2>2. CASE link.incremental
    <3>1. /\ link'.pc = "blob" /\ link'.front_end = link.front_end
          /\ link'.write_blob = link.write_blob /\ link'.layout = link.layout
      BY <1>3, <2>2 DEF Emit
    <3> QED BY <2>1, <3>1 DEF ProtocolOK, QuietRelinkReuses
  <2>3. CASE ~link.incremental
    <3>1. link' = Finished
      BY <1>3, <2>3 DEF Emit
    <3>2. link'.pc = "done" /\ ~link'.incremental
      BY <2>3, <3>1 DEF Finished, NoLink
    <3> QED BY <3>2 DEF ProtocolOK, QuietRelinkReuses
  <2> QED BY <2>2, <2>3
<1>4. CASE EmitDeclined
  <2>1. link.pc = "emit" /\ blob' = blob
    BY <1>4 DEF EmitDeclined, disk
  <2>2. CASE link.mode = "view"
    <3>1. link' = [NoLink EXCEPT !.pc = "parse", !.args = link.args,
                                 !.control = link.control,
                                 !.incremental = TRUE, !.quiet = link.quiet]
      BY <1>4, <2>2 DEF EmitDeclined
    <3>2. link'.pc = "parse" /\ link'.front_end = NoFile /\ link'.write_blob = FALSE
      BY <3>1 DEF NoLink
    <3> QED BY <3>2 DEF ProtocolOK, QuietRelinkReuses
  <2>3. CASE link.mode # "view"
    <3>1. link' = [link EXCEPT !.mode = "full"]
      BY <1>4, <2>3 DEF EmitDeclined
    <3>2. /\ link'.pc = "emit" /\ link'.front_end = link.front_end
          /\ link'.write_blob = link.write_blob /\ link'.layout = link.layout
      BY <2>1, <3>1
    <3> QED BY <2>1, <3>2 DEF ProtocolOK, QuietRelinkReuses
  <2> QED BY <2>2, <2>3
<1>5. CASE CrashInEmit
  <2>1. link'.pc = "idle"
    BY <1>5 DEF CrashInEmit, NoLink
  <2> QED BY <2>1 DEF ProtocolOK, QuietRelinkReuses
<1> QED BY <1>1, <1>2, <1>3, <1>4, <1>5

(* The steps of record_link_with_sections, and the end of the invocation.  *)
LEMMA RecordProtocol ==
  ASSUME ProtocolOK, WriteBlob \/ StatFiles \/ CommitManifest
  PROVE  ProtocolOK'
<1>1. CASE WriteBlob
  <2>1. /\ link.pc = "blob" /\ link'.pc = "stat" /\ link'.front_end = link.front_end
        /\ blob' = IF link.write_blob THEN [layout |-> link.layout, stamp |-> clock] ELSE blob
    BY <1>1 DEF WriteBlob
  <2>2. link.write_blob => blob' # NoFile /\ blob'.layout = link.layout
    BY <2>1 DEF NoFile
  <2> QED BY <2>1, <2>2 DEF ProtocolOK, QuietRelinkReuses
<1>2. CASE StatFiles
  <2>1. link.pc = "stat" /\ UNCHANGED <<disk, clock>>
    BY <1>2 DEF StatFiles
  <2>2. CASE output = NoFile
    <3>1. link'.pc = "idle"
      BY <1>2, <2>2 DEF StatFiles, NoLink
    <3> QED BY <3>1 DEF ProtocolOK, QuietRelinkReuses
  <2>3. CASE output # NoFile
    <3>1. link' = [link EXCEPT !.pc = "commit", !.fast = Stamps,
                               !.fast_output = [stamp |-> output.stamp, len |-> output.len]]
      BY <1>2, <2>3 DEF StatFiles
    <3>2. /\ link'.pc = "commit" /\ link'.front_end = link.front_end /\ link'.fast = Stamps
          /\ link'.fast_output = [stamp |-> output.stamp, len |-> output.len]
      BY <3>1
    <3> QED BY <2>1, <2>3, <3>2 DEF ProtocolOK, QuietRelinkReuses, disk, Stamps
  <2> QED BY <2>2, <2>3
<1>3. CASE CommitManifest
  <2>1. /\ link.pc = "commit" /\ link'.pc = "done" /\ link'.args = link.args
        /\ link'.quiet = link.quiet
        /\ inputs' = inputs /\ output' = output
        /\ manifest'.args = link.args /\ manifest'.fast = link.fast
        /\ manifest'.fast_output = link.fast_output /\ manifest' # NoFile
    BY <1>3 DEF CommitManifest, Finished, NoLink, NoFile
  <2>2. ASSUME link.quiet PROVE Reusable(link.args)'
    <3>1. /\ output # NoFile /\ link.fast = Stamps
          /\ link.fast_output = [stamp |-> output.stamp, len |-> output.len]
      BY <2>1, <2>2 DEF ProtocolOK
    <3>2. \A f \in Files : Stamps[f] = inputs[f].stamp
      BY DEF Stamps
    <3> QED BY <2>1, <3>1, <3>2 DEF Reusable, StateUsable, ChangedInputs
  <2> QED BY <2>1, <2>2 DEF ProtocolOK, QuietRelinkReuses
<1> QED BY <1>1, <1>2, <1>3

(* The protocol invariant, for every behaviour of the specification.       *)
THEOREM ProtocolInvariance == Spec => []ProtocolOK
<1>1. Init => ProtocolOK
  BY DEF Init, NoLink, ProtocolOK, QuietRelinkReuses
<1>2. ProtocolOK /\ [Next]_vars => ProtocolOK'
  <2> SUFFICES ASSUME ProtocolOK, [Next]_vars PROVE ProtocolOK'
    OBVIOUS
  <2>1. CASE UNCHANGED vars
    BY <2>1 DEF vars, ProtocolOK, QuietRelinkReuses, Reusable, StateUsable, ChangedInputs, Stamps
  <2>2. CASE Next
    BY <2>2, UserProtocol, EarlyProtocol, EmitProtocol, RecordProtocol DEF Next, LinkStep
  <2> QED BY <2>1, <2>2
<1> QED BY <1>1, <1>2, PTL DEF Spec

(* What a quiet incremental link records, the next one can use.            *)
THEOREM QuietRelinksReuse == Spec => []QuietRelinkReuses
<1>1. ProtocolOK => QuietRelinkReuses
  BY DEF ProtocolOK
<1> QED BY <1>1, ProtocolInvariance, PTL

(* A manifest never names a layout.bin that is not there.                  *)
THEOREM CommitsNameBlobs == Spec => CommitNamesBlob
<1>1. ProtocolOK /\ [Next]_vars =>
        [(manifest' # manifest /\ manifest'.front_end # NoFile) =>
           blob # NoFile /\ blob.layout = manifest'.front_end.blob_hash]_vars
  <2> SUFFICES ASSUME ProtocolOK, Next, manifest' # manifest, manifest'.front_end # NoFile
               PROVE  blob # NoFile /\ blob.layout = manifest'.front_end.blob_hash
    BY DEF vars
  <2>1. CommitManifest
    BY DEF Next, LinkStep, Edit, EditControl, RemoveOutput, OverwriteOutput, Start, TryReuse,
           TryParseOnlyChanged, LoadAndResolve, ChooseLayout, PlanEmit, Emit, EmitDeclined,
           WriteBlob, StatFiles, Exit, Abort, CrashInEmit, disk
  <2>2. link.pc = "commit" /\ manifest'.front_end = link.front_end
    BY <2>1 DEF CommitManifest
  <2> QED BY <2>2 DEF ProtocolOK
<1> QED BY <1>1, ProtocolInvariance, PTL DEF Spec, CommitNamesBlob
-----------------------------------------------------------------------------
(* The daemon.                                                             *)
Up == daemon.pc \in {"serving", "record"}

(* layout.bin gets a stamp it did not have before, because the link that   *)
(* writes it has just written the output.                                  *)
StampsGrow ==
  /\ clock \in Nat
  /\ blob # NoFile => blob.stamp \in Nat /\ blob.stamp <= clock
  /\ blob # NoFile /\ link.pc = "blob" => blob.stamp < clock

(* The stages of load, and what a serving daemon may rely on.              *)
Resident ==
  /\ daemon.pc \in {"down", "manifest", "blob", "baseline", "stamp", "serving", "record"}
  /\ Loading => link.pc = "idle"
  /\ daemon.pc # "down" => blob # NoFile
  /\ daemon.pc \in {"baseline", "stamp"} => blob.layout = daemon.layout
  /\ daemon.pc \in {"baseline", "stamp", "serving", "record"} =>
       daemon.front_end.blob_hash = daemon.layout
  /\ Up => /\ daemon.blob_stamp \in Nat /\ daemon.blob_stamp <= blob.stamp
           /\ blob.stamp = daemon.blob_stamp => blob.layout = daemon.layout
  /\ daemon.pc = "record" => /\ blob.stamp = daemon.blob_stamp
                             /\ link.incremental => link.pc = "reuse" /\ turn # "own"

(* A client waits for the daemon in the first gate only.                   *)
LinkKnown ==
  /\ link.pc \in {"idle", "reuse", "fast", "parse", "layout", "plan", "emit",
                  "blob", "stat", "commit", "done"}
  /\ link.pc \in {"reuse", "fast", "blob", "stat", "commit"} => link.incremental
  /\ link.pc = "emit" /\ link.mode = "view" => link.incremental
  /\ link.pc = "idle" => ~link.incremental
  /\ link.incremental \in BOOLEAN

ResInv == env.loadAlone => StampsGrow /\ Resident /\ LinkKnown

(* What a step of the running link does to the stamps.                     *)
LEMMA LinkStepShape ==
  ASSUME LinkKnown, LinkStep
  PROVE  /\ LinkKnown' /\ link.pc # "idle"
         /\ clock' = clock \/ clock' = clock + 1
         /\ \/ blob' = blob
            \/ /\ link.pc = "blob" /\ clock' = clock
               /\ blob' = [layout |-> link.layout, stamp |-> clock]
         /\ link'.pc = "blob" => clock' = clock + 1 /\ blob' = blob
         /\ ~link.incremental => ~link'.incremental
<1>1. CASE TryReuse
  <2>1. link.pc = "reuse" /\ UNCHANGED <<disk, clock>>
    BY <1>1 DEF TryReuse
  <2>2. link'.pc \in {"done", "fast", "parse"} /\ link'.incremental = link.incremental
    <3>1. CASE link' = Finished
      BY <3>1 DEF Finished, NoLink
    <3>2. CASE link' = [link EXCEPT !.pc = IF Eligible(link.args) THEN "fast" ELSE "parse"]
      <4>1. PICK p \in {"fast", "parse"} : link' = [link EXCEPT !.pc = p]
        <5>1. CASE Eligible(link.args) BY <3>2, <5>1
        <5>2. CASE ~Eligible(link.args) BY <3>2, <5>2
        <5> QED BY <5>1, <5>2
      <4> QED BY <4>1
    <3> QED BY <1>1, <3>1, <3>2 DEF TryReuse
  <2> QED BY <2>1, <2>2 DEF LinkKnown, disk
<1>2. CASE TryParseOnlyChanged
  <2>1. link.pc = "fast" /\ UNCHANGED <<disk, clock>>
    BY <1>2 DEF TryParseOnlyChanged
  <2>2. link'.pc \in {"emit", "parse"} /\ link'.incremental = link.incremental
    <3>1. CASE link' = [link EXCEPT !.pc = "parse"]
      BY <3>1
    <3>2. CASE link' = [link EXCEPT !.pc = "emit", !.mode = "view", !.cs = Contents,
                                    !.changed = ChangedInputs, !.layout = blob.layout,
                                    !.syms = manifest.syms, !.front_end = manifest.front_end]
      BY <3>2
    <3> QED BY <1>2, <3>1, <3>2 DEF TryParseOnlyChanged
  <2> QED BY <2>1, <2>2 DEF LinkKnown, disk
<1>3. CASE LoadAndResolve
  BY <1>3 DEF LoadAndResolve, LinkKnown, disk
<1>4. CASE ChooseLayout
  <2>1. link.pc = "layout" /\ UNCHANGED <<disk, clock>>
    BY <1>4 DEF ChooseLayout
  <2>2. link'.pc = "plan" /\ link'.incremental = link.incremental
    <3>1. CASE LayoutReusable
      <4>1. link' = [link EXCEPT !.pc = "plan", !.reused = TRUE, !.changed = ChangedInputs,
                                 !.layout = blob.layout,
                                 !.syms = SymbolAddresses(blob.layout, link.cs),
                                 !.front_end = manifest.front_end]
        BY <1>4, <3>1 DEF ChooseLayout
      <4> QED BY <4>1
    <3>2. CASE ~LayoutReusable
      <4> DEFINE l == Layout(link.args, link.control, link.cs)
                 wb == link.incremental /\ Eligible(link.args)
                 fe == IF wb THEN FreshSnapshot(link.args, link.cs, l) ELSE NoFile
      <4>1. link' = [link EXCEPT !.pc = "plan", !.layout = l, !.syms = SymbolAddresses(l, link.cs),
                                 !.front_end = fe, !.write_blob = wb]
        BY <1>4, <3>2 DEF ChooseLayout
      <4> HIDE DEF l, wb, fe
      <4> QED BY <4>1
    <3> QED BY <3>1, <3>2
  <2> QED BY <2>1, <2>2 DEF LinkKnown, disk
<1>5. CASE PlanEmit
  <2>1. link.pc = "plan" /\ UNCHANGED <<disk, clock>>
    BY <1>5 DEF PlanEmit
  <2>2. link'.pc = "emit" /\ link'.incremental = link.incremental /\ link'.mode # "view"
    <3>1. CASE link' = [link EXCEPT !.pc = "emit", !.mode = "full"]
      BY <3>1
    <3>2. CASE link' = [link EXCEPT !.pc = "emit", !.mode = "objects"]
      BY <3>2
    <3>3. CASE link' = [link EXCEPT !.pc = "emit", !.mode = "red",
               !.red = RedSections(link.cs, ChangedInputs, Moved(manifest.syms, link.syms))]
      BY <3>3
    <3> QED BY <1>5, <3>1, <3>2, <3>3 DEF PlanEmit
  <2> QED BY <2>1, <2>2 DEF LinkKnown, disk
<1>6. CASE Emit
  <2>1. link.pc = "emit" /\ clock' = clock + 1 /\ blob' = blob
    BY <1>6 DEF Emit
  <2>2. \/ link'.pc = "blob" /\ link'.incremental = link.incremental /\ link.incremental
        \/ link'.pc = "done" /\ link'.incremental = link.incremental
    BY <1>6 DEF Emit, Finished, NoLink
  <2> QED BY <2>1, <2>2 DEF LinkKnown
<1>7. CASE EmitDeclined
  <2>1. link.pc = "emit" /\ UNCHANGED <<disk, clock>>
    BY <1>7 DEF EmitDeclined
  <2>2. \/ link.mode = "view" /\ link'.pc = "parse" /\ link'.incremental = TRUE
        \/ link'.pc = "emit" /\ link'.incremental = link.incremental /\ link'.mode = "full"
    <3>1. CASE link.mode = "view"
      <4>1. link' = [NoLink EXCEPT !.pc = "parse", !.args = link.args, !.control = link.control,
                                   !.incremental = TRUE, !.quiet = link.quiet]
        BY <1>7, <3>1 DEF EmitDeclined
      <4> QED BY <3>1, <4>1 DEF NoLink
    <3>2. CASE link.mode # "view"
      <4>1. link' = [link EXCEPT !.mode = "full"]
        BY <1>7, <3>2 DEF EmitDeclined
      <4> QED BY <2>1, <4>1
    <3> QED BY <3>1, <3>2
  <2> QED BY <2>1, <2>2 DEF LinkKnown, disk
<1>8. CASE WriteBlob
  <2>1. link.pc = "blob" /\ clock' = clock
    BY <1>8 DEF WriteBlob
  <2>2. blob' = blob \/ blob' = [layout |-> link.layout, stamp |-> clock]
    BY <1>8 DEF WriteBlob
  <2>3. link'.pc = "stat" /\ link'.incremental = link.incremental
    BY <1>8 DEF WriteBlob
  <2> QED BY <2>1, <2>2, <2>3 DEF LinkKnown
<1>9. CASE StatFiles
  <2>1. link.pc = "stat" /\ UNCHANGED <<disk, clock>>
    BY <1>9 DEF StatFiles
  <2>2. \/ link'.pc = "idle" /\ link'.incremental = FALSE
        \/ link'.pc = "commit" /\ link'.incremental = link.incremental
    <3>1. CASE link' = NoLink
      BY <3>1 DEF NoLink
    <3>2. CASE link' = [link EXCEPT !.pc = "commit", !.fast = Stamps,
                          !.fast_output = [stamp |-> output.stamp, len |-> output.len]]
      BY <3>2
    <3> QED BY <1>9, <3>1, <3>2 DEF StatFiles
  <2> QED BY <2>1, <2>2 DEF LinkKnown, disk
<1>10. CASE CommitManifest
  <2>1. link.pc = "commit" /\ blob' = blob /\ clock' = clock
    BY <1>10 DEF CommitManifest
  <2>2. link'.pc = "done" /\ link'.incremental = link.incremental
    BY <1>10 DEF CommitManifest, Finished, NoLink
  <2> QED BY <2>1, <2>2 DEF LinkKnown
<1>11. CASE Exit
  BY <1>11 DEF Exit, LinkKnown, NoLink, disk
<1> QED BY <1>1, <1>2, <1>3, <1>4, <1>5, <1>6, <1>7, <1>8, <1>9, <1>10, <1>11 DEF LinkStep

LEMMA LinkStepResident ==
  ASSUME StampsGrow, Resident, LinkKnown, LinkStep, link.pc = "reuse" => turn = "own",
         UNCHANGED <<env, daemon, turn>>
  PROVE  StampsGrow' /\ Resident' /\ LinkKnown'
<1>1. /\ LinkKnown' /\ link.pc # "idle"
      /\ clock' = clock \/ clock' = clock + 1
      /\ \/ blob' = blob
         \/ /\ link.pc = "blob" /\ clock' = clock
            /\ blob' = [layout |-> link.layout, stamp |-> clock]
      /\ link'.pc = "blob" => clock' = clock + 1 /\ blob' = blob
      /\ ~link.incremental => ~link'.incremental
  BY LinkStepShape
<1>2. blob' # blob => blob' # NoFile /\ blob'.stamp = clock
  BY <1>1 DEF NoFile
<1>3. StampsGrow'
  <2>1. CASE blob' = blob
    BY <1>1, <2>1 DEF StampsGrow
  <2>2. CASE blob' # blob
    BY <1>1, <1>2, <2>2 DEF StampsGrow
  <2> QED BY <2>1, <2>2
<1>4. Resident'
  <2>1. ~Loading /\ ~Loading'
    BY <1>1 DEF Resident, Loading
  <2>2. daemon.pc = "record" => ~link.incremental
    BY DEF Resident
  <2>3. CASE blob' = blob
    BY <1>1, <2>1, <2>2, <2>3 DEF Resident, Up, Loading
  <2>4. CASE blob' # blob
    <3>1. link.pc = "blob" /\ link.incremental /\ blob' # NoFile /\ blob'.stamp = clock
      BY <1>1, <1>2, <2>4 DEF LinkKnown
    <3>2. daemon.pc # "record"
      BY <2>2, <3>1
    <3>3. daemon.pc = "serving" => /\ daemon.blob_stamp \in Nat /\ daemon.blob_stamp <= blob.stamp
                                   /\ blob.stamp \in Nat /\ blob.stamp < clock /\ clock \in Nat
      BY <3>1 DEF Resident, Up, StampsGrow
    <3>4. daemon.pc = "serving" => /\ daemon.blob_stamp <= blob'.stamp
                                   /\ blob'.stamp # daemon.blob_stamp
      BY <3>1, <3>3
    <3> QED BY <2>1, <3>1, <3>2, <3>3, <3>4 DEF Resident, Up, Loading
  <2> QED BY <2>3, <2>4
<1> QED BY <1>1, <1>3, <1>4

(* A step that ends or starts an invocation, or changes a file the daemon  *)
(* does not keep.                                                          *)
LEMMA OtherResident ==
  ASSUME StampsGrow, Resident, LinkKnown', blob' = blob,
         clock' = clock \/ clock' = clock + 1,
         Loading => link'.pc = "idle",
         link'.pc = "blob" => link.pc = "blob",
         daemon.pc = "record" => (link'.incremental => link'.pc = "reuse" /\ turn' # "own"),
         UNCHANGED <<env, daemon>>
  PROVE  StampsGrow' /\ Resident'
<1>1. StampsGrow'
  BY DEF StampsGrow
<1>2. Resident'
  BY DEF Resident, Loading, Up
<1> QED BY <1>1, <1>2

LEMMA DisturbKeeps ==
  ASSUME LinkKnown, Disturb
  PROVE  /\ LinkKnown' /\ link'.pc = link.pc /\ link'.incremental = link.incremental
         /\ link'.args = link.args /\ link'.cs = link.cs /\ link'.layout = link.layout
         /\ link'.syms = link.syms /\ link'.front_end = link.front_end
         /\ link'.write_blob = link.write_blob /\ link'.fast = link.fast
         /\ link'.fast_output = link.fast_output
<1>1. /\ link'.pc = link.pc /\ link'.incremental = link.incremental /\ link'.mode = link.mode
      /\ link'.args = link.args /\ link'.cs = link.cs /\ link'.layout = link.layout
      /\ link'.syms = link.syms /\ link'.front_end = link.front_end
      /\ link'.write_blob = link.write_blob /\ link'.fast = link.fast
      /\ link'.fast_output = link.fast_output
  BY DEF Disturb
<1> QED BY <1>1 DEF LinkKnown

LEMMA FinishedKnown ==
  ASSUME LinkKnown, link.pc # "idle", link' = Finished
  PROVE  LinkKnown' /\ link'.pc = "done" /\ link'.incremental = link.incremental
                    /\ link'.args = link.args
BY DEF LinkKnown, Finished, NoLink

(* The daemon's own steps.                                                 *)
LEMMA DaemonResident ==
  ASSUME env.loadAlone, StampsGrow, Resident, LinkKnown,
         Spawn \/ LoadStep \/ NoDaemonToAsk \/ HandleStep \/ DaemonEnds
  PROVE  StampsGrow' /\ Resident' /\ LinkKnown'
<1> USE DEF vars, Loading, Up
<1>1. CASE Spawn
  BY <1>1 DEF Spawn, StampsGrow, Resident, LinkKnown
<1>2. CASE LoadManifest
  BY <1>2 DEF LoadManifest, StampsGrow, Resident, LinkKnown, NoDaemon
<1>3. CASE LoadBlob
  BY <1>3 DEF LoadBlob, StampsGrow, Resident, LinkKnown, NoDaemon
<1>4. CASE LoadBaseline
  BY <1>4 DEF LoadBaseline, StampsGrow, Resident, LinkKnown
<1>5. CASE LoadStamp
  <2>1. /\ daemon'.pc = "serving" /\ daemon'.blob_stamp = blob.stamp
        /\ daemon'.layout = daemon.layout /\ daemon'.front_end = daemon.front_end
        /\ daemon.pc = "stamp" /\ UNCHANGED <<vars, env, turn>>
    BY <1>5 DEF LoadStamp
  <2> QED BY <2>1 DEF StampsGrow, Resident, LinkKnown
<1>6. CASE NoDaemonToAsk
  BY <1>6 DEF NoDaemonToAsk, StampsGrow, Resident, LinkKnown
<1>7. CASE HandleOtherArgs \/ HandleDeclined
  BY <1>7 DEF HandleOtherArgs, HandleDeclined, Fallback, Asked, Current, StampsGrow, Resident,
              LinkKnown
<1>8. CASE HandleReload
  <2>1. CASE Fallback /\ UNCHANGED daemon
    BY <1>8, <2>1 DEF HandleReload, Fallback, Asked, StampsGrow, Resident, LinkKnown
  <2>2. CASE /\ Loadable
             /\ daemon' = [daemon EXCEPT !.layout = blob.layout, !.syms = manifest.syms,
                                    !.front_end = manifest.front_end,
                                    !.fps = manifest.fast, !.blob_stamp = blob.stamp]
             /\ UNCHANGED <<vars, env, turn>>
    <3>1. /\ daemon'.pc = "serving" /\ daemon'.blob_stamp = blob.stamp
          /\ daemon'.layout = blob.layout /\ daemon'.front_end = manifest.front_end
          /\ daemon.pc = "serving" /\ blob.layout = manifest.front_end.blob_hash
      BY <1>8, <2>2 DEF HandleReload, Asked, Loadable
    <3> QED BY <2>2, <3>1 DEF StampsGrow, Resident, LinkKnown
  <2> QED BY <1>8, <2>1, <2>2 DEF HandleReload
<1>9. CASE HandleNoChange
  <2>1. /\ link' = Finished /\ link.pc = "reuse" /\ daemon.pc = "serving"
        /\ blob' = blob /\ clock' = clock /\ UNCHANGED <<env, daemon>>
    BY <1>9 DEF HandleNoChange, Current, Asked, disk
  <2>2. LinkKnown' /\ link'.pc = "done" /\ link'.incremental = link.incremental
    BY <2>1, FinishedKnown
  <2> QED BY <2>1, <2>2, OtherResident
<1>10. CASE HandleEmit
  <2>1. /\ daemon.pc = "serving" /\ daemon'.pc = "record" /\ turn' = "served"
        /\ daemon'.layout = daemon.layout /\ daemon'.front_end = daemon.front_end
        /\ daemon'.blob_stamp = daemon.blob_stamp
        /\ blob.stamp = daemon.blob_stamp /\ link.pc = "reuse"
        /\ blob' = blob /\ link' = link /\ clock' = clock + 1
    BY <1>10 DEF HandleEmit, Current, Asked
  <2> QED BY <2>1 DEF StampsGrow, Resident, LinkKnown
<1>11. CASE HandleRecord
  <2>1. /\ daemon.pc = "record" /\ daemon'.pc = "serving" /\ daemon'.blob_stamp = blob.stamp
        /\ daemon'.layout = daemon.layout /\ daemon'.front_end = daemon.front_end
        /\ blob' = blob /\ clock' = clock
        /\ link' = IF link.pc = "reuse" /\ turn = "served" THEN Finished ELSE link
    BY <1>11 DEF HandleRecord
  <2>2. LinkKnown' /\ link'.pc \in {link.pc, "done"}
    <3>1. CASE link' = link
      BY <3>1 DEF LinkKnown
    <3>2. CASE link.pc = "reuse" /\ link' = Finished
      BY <3>2, FinishedKnown
    <3> QED BY <2>1, <3>1, <3>2
  <2> QED BY <2>1, <2>2 DEF StampsGrow, Resident
<1>12. CASE DaemonEnds
  BY <1>12 DEF DaemonEnds, NoDaemon, StampsGrow, Resident, LinkKnown
<1> QED BY <1>1, <1>2, <1>3, <1>4, <1>5, <1>6, <1>7, <1>8, <1>9, <1>10, <1>11, <1>12
        DEF LoadStep, HandleStep

LEMMA ResInvStep == ASSUME ResInv, [DNext]_dvars PROVE ResInv'
<1>1. env' = env
  BY DEF DNext, dvars, UserStep, DStart, Spawn, LoadStep, LoadManifest, LoadBlob, LoadBaseline,
         LoadStamp, NoDaemonToAsk, HandleStep, HandleOtherArgs, HandleReload, HandleNoChange,
         HandleDeclined, HandleEmit, HandleRecord, Fallback, DaemonEnds, OwnLinkStep, OwnAbort,
         OwnCrash
<1> SUFFICES ASSUME env.loadAlone PROVE StampsGrow' /\ Resident' /\ LinkKnown'
  BY <1>1 DEF ResInv
<1>2. StampsGrow /\ Resident /\ LinkKnown
  BY DEF ResInv
<1>3. CASE UserStep
  <2>1. /\ Disturb /\ blob' = blob /\ clock' = clock + 1 /\ UNCHANGED <<env, daemon, turn>>
    BY <1>3 DEF UserStep, Edit, EditControl, RemoveOutput, OverwriteOutput
  <2>2. LinkKnown' /\ link'.pc = link.pc /\ link'.incremental = link.incremental
    BY <1>2, <2>1, DisturbKeeps
  <2> QED BY <1>2, <2>1, <2>2, OtherResident DEF Resident
<1>4. ASSUME NEW a \in Args, NEW inc \in BOOLEAN, DStart(a, inc)
      PROVE  StampsGrow' /\ Resident' /\ LinkKnown'
  <2>1. /\ link'.pc = (IF inc THEN "reuse" ELSE "parse") /\ link'.incremental = inc
        /\ link'.mode = "full" /\ turn' = (IF inc THEN "ask" ELSE "own") /\ ~Loading
        /\ blob' = blob /\ clock' = clock /\ UNCHANGED <<env, daemon>>
    BY <1>4 DEF DStart, Start, NoLink, disk
  <2>2. LinkKnown'
    BY <2>1 DEF LinkKnown
  <2> QED BY <1>2, <2>1, <2>2, OtherResident
<1>5. CASE OwnLinkStep
  BY <1>2, <1>5, LinkStepResident DEF OwnLinkStep
<1>6. CASE OwnAbort \/ OwnCrash
  <2>1. /\ link' = NoLink /\ blob' = blob /\ (clock' = clock \/ clock' = clock + 1)
        /\ UNCHANGED <<env, daemon, turn>>
    BY <1>6 DEF OwnAbort, OwnCrash, Abort, CrashInEmit, disk
  <2>2. LinkKnown' /\ link'.pc = "idle" /\ ~link'.incremental
    BY <2>1 DEF LinkKnown, NoLink
  <2> QED BY <1>2, <2>1, <2>2, OtherResident
<1>7. CASE UNCHANGED dvars
  BY <1>2, <1>7 DEF dvars, vars, StampsGrow, Resident, LinkKnown, Loading, Up
<1> QED BY <1>2, <1>3, <1>4, <1>5, <1>6, <1>7, DaemonResident DEF DNext

(* While layout.bin keeps its stamp the daemon's resident state is the one *)
(* on disk (DaemonState, load, handle), whoever else links, edits or       *)
(* crashes, for any number of inputs and sections.                         *)
THEOREM ResidentStateMatches == DSpec => []ResidentMatchesDisk
<1>1. DInit => ResInv
  <2> SUFFICES ASSUME DInit PROVE StampsGrow /\ Resident /\ LinkKnown
    BY DEF ResInv
  <2> QED BY DEF DInit, Init, NoDaemon, NoLink, StampsGrow, Resident, LinkKnown, Loading, Up
<1>2. ResInv /\ [DNext]_dvars => ResInv'
  BY ResInvStep
<1>3. ResInv => ResidentMatchesDisk
  BY DEF ResInv, Resident, Up, ResidentMatchesDisk
<1> QED BY <1>1, <1>2, <1>3, PTL DEF DSpec
-----------------------------------------------------------------------------
Late == {"plan", "emit", "blob", "stat", "commit"}

(* Every link is one of the daemon's command line.                         *)
OneCommand == link.pc # "idle" => link.args = DaemonArgs /\ link.incremental

(* A snapshot is recorded for links that may be patched only, and a link   *)
(* that does not write layout.bin goes on with the snapshot of the         *)
(* manifest.                                                               *)
Snapshots ==
  /\ (manifest # NoFile /\ manifest.front_end # NoFile) => Eligible(manifest.args)
  /\ link.pc \in {"reuse", "fast", "parse", "layout"} => ~link.write_blob
  /\ (link.pc \in Late /\ link.write_blob) =>
       link.front_end # NoFile /\ link.front_end.blob_hash = link.layout
  /\ (link.pc \in Late /\ ~link.write_blob /\ Eligible(DaemonArgs)) =>
       /\ manifest # NoFile /\ manifest.front_end # NoFile
       /\ link.front_end = manifest.front_end /\ link.syms = manifest.syms
       /\ blob # NoFile /\ blob.layout = link.front_end.blob_hash
  /\ (link.pc \in {"stat", "commit"} /\ link.write_blob) =>
       blob # NoFile /\ blob.layout = link.layout
  /\ link.pc \in {"blob", "stat", "commit"} => output # NoFile
  /\ (link.pc \in Late /\ link.front_end # NoFile) => Eligible(link.args)
  /\ link.pc = "commit" =>
       link.fast_output = [stamp |-> output.stamp, len |-> output.len]

(* The manifest a running daemon was loaded from, or a later one.          *)
Served ==
  daemon.pc \in {"blob", "baseline", "stamp", "serving", "record"} =>
    /\ manifest # NoFile /\ manifest.front_end # NoFile
    /\ manifest.args = DaemonArgs
    /\ Loading => /\ StateUsable(DaemonArgs)
                  /\ daemon.syms = manifest.syms /\ daemon.front_end = manifest.front_end
    /\ daemon.pc = "stamp" => daemon.fps = manifest.fast
    /\ daemon.pc = "serving" /\ link.pc \notin {"blob", "stat", "commit"} =>
         /\ StateUsable(DaemonArgs)
         /\ blob.layout = manifest.front_end.blob_hash

(* An input that has the stamp the daemon knows has kept it, so the        *)
(* manifest knows it as well; and as long as layout.bin keeps its stamp,   *)
(* so do snapshot and symbols.                                             *)
UpToDate ==
  Up =>
    /\ \A f \in Files :
         /\ daemon.fps[f] \in 0..clock
         /\ inputs[f].stamp = daemon.fps[f] => manifest.fast[f] = inputs[f].stamp
         /\ link.pc = "commit" /\ inputs[f].stamp = daemon.fps[f] => link.fast[f] = inputs[f].stamp
    /\ blob.stamp = daemon.blob_stamp =>
         /\ daemon.front_end = manifest.front_end /\ daemon.syms = manifest.syms
    /\ (link.pc \in {"stat", "commit"} /\ link.write_blob) => blob.stamp # daemon.blob_stamp

(* Between patch and record the output is the full link of what the inputs *)
(* hold.                                                                   *)
Patched ==
  daemon.pc = "record" =>
    /\ output # NoFile /\ output.len = FileSize(daemon.layout)
    /\ output.image = FullLink(DaemonArgs, control, Contents)
    /\ daemon.layout = Layout(DaemonArgs, control, Contents)
    /\ daemon.syms = SymbolAddresses(daemon.layout, Contents)
    /\ daemon.front_end = FreshSnapshot(DaemonArgs, Contents, daemon.layout)

DInv ==
  /\ ResInv
  /\ SoundEnv => Inv /\ OneCommand /\ Snapshots /\ Served /\ UpToDate /\ Patched

(* What the steps below have in common: everything the daemon relies on    *)
(* stays as it is, except that inputs may get new stamps.                  *)
LEMMA DiskKept ==
  ASSUME Inv, OneCommand, Snapshots, Served, UpToDate, Patched,
         UNCHANGED <<control, output, manifest, blob, env, daemon>>,
         daemon.pc = "record" => inputs' = inputs,
         clock \in Nat, clock' = clock \/ clock' = clock + 1,
         \A f \in Files : inputs'[f] = inputs[f] \/ inputs'[f].stamp = clock + 1,
         link'.pc \in {"blob", "stat", "commit"} <=> link.pc \in {"blob", "stat", "commit"},
         link'.pc = "commit" => link.pc = "commit" /\ link'.fast = link.fast,
         link'.pc = "stat" => link.pc = "stat",
         link'.pc \in {"stat", "commit"} => link'.write_blob = link.write_blob
  PROVE  Served' /\ UpToDate' /\ Patched'
<1>1. Served'
  BY DEF Served, StateUsable, Loading
<1>2. UpToDate'
  <2> SUFFICES ASSUME Up PROVE UpToDate'
    BY DEF UpToDate, Up
  <2>1. ASSUME NEW f \in Files
        PROVE  /\ daemon.fps[f] \in 0..clock'
               /\ inputs'[f].stamp = daemon.fps[f] => inputs'[f] = inputs[f]
    <3>1. daemon.fps[f] \in 0..clock
      BY DEF UpToDate
    <3> QED BY <3>1
  <2>2. \A f \in Files :
         /\ daemon.fps[f] \in 0..clock'
         /\ inputs'[f].stamp = daemon.fps[f] => manifest.fast[f] = inputs'[f].stamp
         /\ link'.pc = "commit" /\ inputs'[f].stamp = daemon.fps[f] =>
              link'.fast[f] = inputs'[f].stamp
    BY <2>1 DEF UpToDate
  <2>3. (link'.pc \in {"stat", "commit"} /\ link'.write_blob) => blob.stamp # daemon.blob_stamp
    BY DEF UpToDate
  <2> QED BY <2>2, <2>3 DEF UpToDate, Up
<1>3. Patched'
  BY DEF Patched, Contents
<1> QED BY <1>1, <1>2, <1>3

(* Snapshots, when the link keeps what it holds.                           *)
LEMMA SameLinkSnapshots ==
  ASSUME Snapshots, UNCHANGED <<manifest, blob, output>>,
         link'.pc = link.pc, link'.args = link.args, link'.layout = link.layout,
         link'.syms = link.syms, link'.front_end = link.front_end,
         link'.write_blob = link.write_blob, link'.fast_output = link.fast_output
  PROVE  Snapshots'
BY DEF Snapshots

LEMMA UserDaemon ==
  ASSUME DInv, SoundEnv, UserStep
  PROVE  Inv' /\ OneCommand' /\ Snapshots' /\ Served' /\ UpToDate' /\ Patched'
<1>1. Inv /\ OneCommand /\ Snapshots /\ Served /\ UpToDate /\ Patched /\ LinkKnown
  BY DEF DInv, ResInv, SoundEnv
<1>2. /\ ~InWindow /\ daemon.pc # "record" /\ \E f \in Files : Edit(f)
      /\ UNCHANGED <<env, daemon, turn>>
  BY DEF UserStep, SoundEnv
<1>3. Inv'
  BY <1>1, <1>2, UserInv
<1>4. /\ UNCHANGED <<control, output, manifest, blob>> /\ Disturb /\ clock' = clock + 1
      /\ clock \in Nat
      /\ \A f \in Files : inputs'[f] = inputs[f] \/ inputs'[f].stamp = clock + 1
  BY <1>1, <1>2 DEF Edit, Inv, TypeOK
<1>5. /\ link'.pc = link.pc /\ link'.incremental = link.incremental
      /\ link'.args = link.args /\ link'.cs = link.cs /\ link'.layout = link.layout
      /\ link'.syms = link.syms /\ link'.front_end = link.front_end
      /\ link'.write_blob = link.write_blob /\ link'.fast = link.fast
      /\ link'.fast_output = link.fast_output
  BY <1>1, <1>4, DisturbKeeps
<1>6. OneCommand'
  BY <1>1, <1>5 DEF OneCommand
<1>7. Snapshots'
  BY <1>1, <1>4, <1>5, SameLinkSnapshots
<1>8. Served' /\ UpToDate' /\ Patched'
  BY <1>1, <1>2, <1>4, <1>5, DiskKept
<1> QED BY <1>3, <1>6, <1>7, <1>8

LEMMA StartDaemon ==
  ASSUME DInv, SoundEnv, NEW a \in Args, NEW inc \in BOOLEAN, DStart(a, inc)
  PROVE  Inv' /\ OneCommand' /\ Snapshots' /\ Served' /\ UpToDate' /\ Patched'
<1>1. Inv /\ OneCommand /\ Snapshots /\ Served /\ UpToDate /\ Patched
  BY DEF DInv
<1>2. /\ Start(a, inc) /\ link.pc = "idle" /\ UNCHANGED <<disk, clock, env, daemon>>
      /\ a = DaemonArgs /\ inc
  BY DEF DStart, Start, SoundEnv
<1>3. Inv'
  BY <1>1, <1>2, StartInv
<1>4. /\ link'.pc = "reuse" /\ link'.args = DaemonArgs /\ link'.incremental
      /\ link'.write_blob = FALSE
  BY <1>2 DEF Start, NoLink
<1>5. OneCommand' /\ Snapshots'
  BY <1>1, <1>2, <1>4 DEF OneCommand, Snapshots, Late, disk
<1>6. Served' /\ UpToDate' /\ Patched'
  BY <1>1, <1>2, <1>4, DiskKept DEF disk, Inv, TypeOK
<1> QED BY <1>3, <1>5, <1>6

LEMMA AbortDaemon ==
  ASSUME DInv, SoundEnv, OwnAbort
  PROVE  Inv' /\ OneCommand' /\ Snapshots' /\ Served' /\ UpToDate' /\ Patched'
<1>1. Inv /\ OneCommand /\ Snapshots /\ Served /\ UpToDate /\ Patched
  BY DEF DInv
<1>2. /\ Abort /\ link' = NoLink /\ UNCHANGED <<disk, clock, env, daemon>>
      /\ link.pc \notin {"blob", "stat", "commit"}
  BY DEF OwnAbort, Abort, SoundEnv
<1>3. Inv'
  BY <1>1, <1>2, ExitInv
<1>4. link'.pc = "idle"
  BY <1>2 DEF NoLink
<1>5. OneCommand' /\ Snapshots'
  BY <1>1, <1>2, <1>4 DEF OneCommand, Snapshots, Late, disk
<1>6. Served' /\ UpToDate' /\ Patched'
  BY <1>1, <1>2, <1>4, DiskKept DEF disk, Inv, TypeOK
<1> QED BY <1>3, <1>5, <1>6
-----------------------------------------------------------------------------
(* The steps of a link the client runs itself.                             *)

LEMMA FreshSnapshotShape ==
  ASSUME NEW a, NEW cs, NEW l
  PROVE  FreshSnapshot(a, cs, l) # NoFile /\ FreshSnapshot(a, cs, l).blob_hash = l
BY DEF FreshSnapshot, NoFile

(* No daemon loads or records while a link is past its first gate.         *)
LEMMA DaemonWaits ==
  ASSUME DInv, SoundEnv, OwnLinkStep
  PROVE  ~Loading /\ daemon.pc # "record" /\ link.pc # "idle"
<1>1. Resident /\ LinkKnown /\ OneCommand
  BY DEF DInv, ResInv, SoundEnv
<1>2. link.pc # "idle"
  BY <1>1, LinkStepShape DEF OwnLinkStep
<1> QED BY <1>1, <1>2 DEF Resident, OneCommand, OwnLinkStep

(* Steps that leave the disk alone.                                        *)
LEMMA MemoryDaemon ==
  ASSUME SoundImage, DInv, SoundEnv, OwnLinkStep,
         \/ TryReuse \/ TryParseOnlyChanged \/ LoadAndResolve \/ ChooseLayout \/ PlanEmit
         \/ EmitDeclined \/ Exit
  PROVE  Inv' /\ OneCommand' /\ Snapshots' /\ Served' /\ UpToDate' /\ Patched'
<1>a. Inv /\ OneCommand /\ Snapshots /\ Served /\ UpToDate /\ Patched
  BY DEF DInv
<1>b. Inv'
  BY <1>a, LinkStepInv DEF OwnLinkStep
<1>c. UNCHANGED <<disk, clock, env, daemon>> /\ clock \in Nat
  BY <1>a DEF OwnLinkStep, TryReuse, TryParseOnlyChanged, LoadAndResolve, ChooseLayout, PlanEmit,
              EmitDeclined, Exit, Inv, TypeOK
<1>d. link.pc # "idle" => link.args = DaemonArgs /\ link.incremental
  BY <1>a DEF OneCommand
<1> DEFINE Goal == /\ OneCommand' /\ Snapshots'
                   /\ link.pc \notin {"blob", "stat", "commit"}
                   /\ link'.pc \notin {"blob", "stat", "commit"}
<1>1. ASSUME TryReuse PROVE Goal
  <2>1. \/ link'.pc = "done" /\ link'.args = link.args /\ link'.incremental = link.incremental
        \/ /\ link'.pc \in {"fast", "parse"} /\ link'.args = link.args
           /\ link'.incremental = link.incremental /\ link'.write_blob = link.write_blob
    <3>1. CASE link' = Finished
      BY <3>1 DEF Finished, NoLink
    <3>2. CASE link' = [link EXCEPT !.pc = IF Eligible(link.args) THEN "fast" ELSE "parse"]
      <4>1. PICK p \in {"fast", "parse"} : link' = [link EXCEPT !.pc = p]
        <5>1. CASE Eligible(link.args) BY <3>2, <5>1
        <5>2. CASE ~Eligible(link.args) BY <3>2, <5>2
        <5> QED BY <5>1, <5>2
      <4> QED BY <4>1
    <3> QED BY <1>1, <3>1, <3>2 DEF TryReuse
  <2>2. link.pc = "reuse"
    BY <1>1 DEF TryReuse
  <2> QED BY <1>a, <1>c, <1>d, <2>1, <2>2 DEF OneCommand, Snapshots, Late, disk
<1>2. ASSUME TryParseOnlyChanged PROVE Goal
  <2>1. link.pc = "fast"
    BY <1>2 DEF TryParseOnlyChanged
  <2>2. CASE link' = [link EXCEPT !.pc = "parse"]
    <3>1. /\ link'.pc = "parse" /\ link'.args = link.args
          /\ link'.incremental = link.incremental /\ link'.write_blob = link.write_blob
      BY <2>2
    <3> QED BY <1>a, <1>c, <1>d, <2>1, <3>1 DEF OneCommand, Snapshots, Late, disk
  <2>3. CASE /\ ParseOnlyChangedApplies
             /\ link' = [link EXCEPT !.pc = "emit", !.mode = "view", !.cs = Contents,
                                     !.changed = ChangedInputs, !.layout = blob.layout,
                                     !.syms = manifest.syms, !.front_end = manifest.front_end]
    <3>1. /\ link'.pc = "emit" /\ link'.args = link.args /\ link'.layout = blob.layout
          /\ link'.incremental = link.incremental /\ link'.write_blob = link.write_blob
          /\ link'.syms = manifest.syms /\ link'.front_end = manifest.front_end
      BY <2>3
    <3>2. /\ manifest # NoFile /\ manifest.front_end # NoFile /\ manifest.args = link.args
          /\ blob # NoFile /\ blob.layout = manifest.front_end.blob_hash
      BY <2>3 DEF ParseOnlyChangedApplies, StateUsable, BlobMatches
    <3> QED BY <1>a, <1>c, <1>d, <2>1, <3>1, <3>2 DEF OneCommand, Snapshots, Late, disk
  <2> QED BY <1>2, <2>2, <2>3 DEF TryParseOnlyChanged
<1>3. ASSUME LoadAndResolve PROVE Goal
  <2>1. /\ link.pc = "parse" /\ link'.pc = "layout" /\ link'.args = link.args
        /\ link'.incremental = link.incremental /\ link'.write_blob = link.write_blob
    BY <1>3 DEF LoadAndResolve
  <2> QED BY <1>a, <1>c, <1>d, <2>1 DEF OneCommand, Snapshots, Late, disk
<1>4. ASSUME ChooseLayout PROVE Goal
  <2>1. link.pc = "layout" /\ ~link.write_blob
    BY <1>4, <1>a DEF ChooseLayout, Snapshots
  <2>2. CASE LayoutReusable
    <3>1. link' = [link EXCEPT !.pc = "plan", !.reused = TRUE, !.changed = ChangedInputs,
                               !.layout = blob.layout,
                               !.syms = SymbolAddresses(blob.layout, link.cs),
                               !.front_end = manifest.front_end]
      BY <1>4, <2>2 DEF ChooseLayout
    <3>2. /\ link'.pc = "plan" /\ link'.args = link.args /\ link'.reused = TRUE
          /\ link'.incremental = link.incremental /\ link'.write_blob = link.write_blob
          /\ link'.front_end = manifest.front_end
      BY <3>1
    <3>3. /\ manifest # NoFile /\ manifest.front_end # NoFile /\ manifest.args = link.args
          /\ blob # NoFile /\ blob.layout = manifest.front_end.blob_hash
      BY <2>2 DEF LayoutReusable, StateUsable, BlobMatches
    <3>4. link'.syms = manifest.syms
      BY <1>b, <1>c, <3>2 DEF Inv, CachedOK, disk
    <3> QED BY <1>a, <1>c, <1>d, <2>1, <3>2, <3>3, <3>4 DEF OneCommand, Snapshots, Late, disk
  <2>3. CASE ~LayoutReusable
    <3> DEFINE l == Layout(link.args, link.control, link.cs)
               wb == link.incremental /\ Eligible(link.args)
               fe == IF wb THEN FreshSnapshot(link.args, link.cs, l) ELSE NoFile
    <3>1. link' = [link EXCEPT !.pc = "plan", !.layout = l, !.syms = SymbolAddresses(l, link.cs),
                               !.front_end = fe, !.write_blob = wb]
      BY <1>4, <2>3 DEF ChooseLayout
    <3>2. wb = Eligible(link.args) /\ wb \in BOOLEAN
      BY <1>d, <2>1 DEF Eligible
    <3>3. wb => fe # NoFile /\ fe.blob_hash = l
      BY FreshSnapshotShape
    <3>4. fe # NoFile => wb
      OBVIOUS
    <3> HIDE DEF l, wb, fe
    <3>5. /\ link'.pc = "plan" /\ link'.args = link.args /\ link'.layout = l
          /\ link'.incremental = link.incremental /\ link'.write_blob = wb
          /\ link'.front_end = fe
      BY <3>1
    <3> QED BY <1>a, <1>c, <1>d, <2>1, <3>2, <3>3, <3>4, <3>5 DEF OneCommand, Snapshots, Late, disk
  <2> QED BY <2>2, <2>3
<1>5. ASSUME PlanEmit PROVE Goal
  <2>1. /\ link.pc = "plan" /\ link'.pc = "emit" /\ link'.args = link.args
        /\ link'.incremental = link.incremental /\ link'.write_blob = link.write_blob
        /\ link'.front_end = link.front_end /\ link'.syms = link.syms
        /\ link'.layout = link.layout
    <3>1. CASE link' = [link EXCEPT !.pc = "emit", !.mode = "full"]
      BY <1>5, <3>1 DEF PlanEmit
    <3>2. CASE link' = [link EXCEPT !.pc = "emit", !.mode = "objects"]
      BY <1>5, <3>2 DEF PlanEmit
    <3>3. CASE link' = [link EXCEPT !.pc = "emit", !.mode = "red",
               !.red = RedSections(link.cs, ChangedInputs, Moved(manifest.syms, link.syms))]
      BY <1>5, <3>3 DEF PlanEmit
    <3> QED BY <1>5, <3>1, <3>2, <3>3 DEF PlanEmit
  <2> QED BY <1>a, <1>c, <1>d, <2>1 DEF OneCommand, Snapshots, Late, disk
<1>6. ASSUME EmitDeclined PROVE Goal
  <2>1. link.pc = "emit"
    BY <1>6 DEF EmitDeclined
  <2>2. CASE link.mode = "view"
    <3>1. link' = [NoLink EXCEPT !.pc = "parse", !.args = link.args, !.control = link.control,
                                 !.incremental = TRUE, !.quiet = link.quiet]
      BY <1>6, <2>2 DEF EmitDeclined
    <3>2. /\ link'.pc = "parse" /\ link'.args = link.args /\ link'.incremental = TRUE
          /\ link'.write_blob = FALSE
      BY <3>1 DEF NoLink
    <3> QED BY <1>a, <1>c, <1>d, <2>1, <3>2 DEF OneCommand, Snapshots, Late, disk
  <2>3. CASE link.mode # "view"
    <3>1. link' = [link EXCEPT !.mode = "full"]
      BY <1>6, <2>3 DEF EmitDeclined
    <3>2. /\ link'.pc = "emit" /\ link'.args = link.args
          /\ link'.incremental = link.incremental /\ link'.write_blob = link.write_blob
          /\ link'.front_end = link.front_end /\ link'.syms = link.syms
          /\ link'.layout = link.layout
      BY <2>1, <3>1
    <3> QED BY <1>a, <1>c, <1>d, <2>1, <3>2 DEF OneCommand, Snapshots, Late, disk
  <2> QED BY <2>2, <2>3
<1>7. ASSUME Exit PROVE Goal
  <2>1. link.pc = "done" /\ link'.pc = "idle"
    BY <1>7 DEF Exit, NoLink
  <2> QED BY <1>a, <1>c, <2>1 DEF OneCommand, Snapshots, Late, disk
<1>8. Goal
  BY <1>1, <1>2, <1>3, <1>4, <1>5, <1>6, <1>7
<1>9. Served' /\ UpToDate' /\ Patched'
  BY <1>a, <1>c, <1>8, DiskKept DEF disk
<1> QED BY <1>b, <1>8, <1>9

(* emit rewrites the output in place; the daemon keeps no copy of it.      *)
LEMMA EmitDaemon ==
  ASSUME SoundImage, DInv, SoundEnv, OwnLinkStep, Emit
  PROVE  Inv' /\ OneCommand' /\ Snapshots' /\ Served' /\ UpToDate' /\ Patched'
<1>1. Inv /\ OneCommand /\ Snapshots /\ Served /\ UpToDate /\ Patched
  BY DEF DInv
<1>2. Inv'
  BY <1>1, LinkStepInv DEF OwnLinkStep
<1>3. ~Loading /\ daemon.pc # "record" /\ link.args = DaemonArgs /\ link.incremental
  BY <1>1, DaemonWaits DEF OneCommand
<1>4. /\ link.pc = "emit" /\ output' # NoFile /\ clock' = clock + 1 /\ clock \in Nat
      /\ link' = [link EXCEPT !.pc = "blob"]
      /\ UNCHANGED <<inputs, control, manifest, blob, env, daemon, turn>>
  BY <1>1, <1>3 DEF Emit, OwnLinkStep, Inv, TypeOK, NoFile
<1>5. /\ link'.pc = "blob" /\ link'.args = link.args /\ link'.layout = link.layout
      /\ link'.incremental = link.incremental /\ link'.write_blob = link.write_blob
      /\ link'.syms = link.syms /\ link'.front_end = link.front_end
  BY <1>4
<1>6. OneCommand' /\ Snapshots'
  BY <1>1, <1>3, <1>4, <1>5 DEF OneCommand, Snapshots, Late
<1>7. Served'
  BY <1>1, <1>3, <1>4, <1>5 DEF Served, Loading
<1>8. UpToDate'
  <2>1. \A f \in Files : daemon.fps[f] \in 0..clock => daemon.fps[f] \in 0..clock'
    BY <1>4
  <2> QED BY <1>1, <1>4, <1>5, <2>1 DEF UpToDate, Up
<1>9. Patched'
  BY <1>3, <1>4 DEF Patched
<1> QED BY <1>2, <1>6, <1>7, <1>8, <1>9

(* layout.bin is written after the output, so it gets a stamp the daemon   *)
(* does not know.                                                          *)
LEMMA WriteBlobDaemon ==
  ASSUME SoundImage, DInv, SoundEnv, OwnLinkStep, WriteBlob
  PROVE  Inv' /\ OneCommand' /\ Snapshots' /\ Served' /\ UpToDate' /\ Patched'
<1>1. /\ Inv /\ OneCommand /\ Snapshots /\ Served /\ UpToDate /\ Patched
      /\ StampsGrow /\ Resident
  BY DEF DInv, ResInv, SoundEnv
<1>2. Inv'
  BY <1>1, LinkStepInv DEF OwnLinkStep
<1>3. ~Loading /\ daemon.pc # "record" /\ link.args = DaemonArgs /\ link.incremental
  BY <1>1, DaemonWaits DEF OneCommand
<1>4. /\ link.pc = "blob"
      /\ blob' = IF link.write_blob THEN [layout |-> link.layout, stamp |-> clock] ELSE blob
      /\ UNCHANGED <<inputs, control, output, manifest, clock, env, daemon, turn>>
  BY DEF WriteBlob, OwnLinkStep
<1>5. /\ link'.pc = "stat" /\ link'.args = link.args /\ link'.layout = link.layout
      /\ link'.incremental = link.incremental /\ link'.write_blob = link.write_blob
      /\ link'.syms = link.syms /\ link'.front_end = link.front_end
  BY DEF WriteBlob
<1>6. OneCommand'
  BY <1>3, <1>5 DEF OneCommand
<1>7. link.write_blob => blob' # NoFile /\ blob'.layout = link.layout /\ blob'.stamp = clock
  BY <1>4 DEF NoFile
<1>8. ~link.write_blob => blob' = blob
  BY <1>4
<1>9. Snapshots'
  BY <1>1, <1>3, <1>4, <1>5, <1>7, <1>8 DEF Snapshots, Late
<1>10. Served'
  BY <1>1, <1>3, <1>4, <1>5 DEF Served, Loading
<1>11. (Up /\ link.write_blob) => blob'.stamp # daemon.blob_stamp
  <2> SUFFICES ASSUME Up, link.write_blob PROVE blob'.stamp # daemon.blob_stamp
    OBVIOUS
  <2>1. /\ daemon.blob_stamp \in Nat /\ daemon.blob_stamp <= blob.stamp
        /\ blob.stamp \in Nat /\ blob.stamp < clock /\ clock \in Nat
    BY <1>1, <1>4 DEF Resident, StampsGrow, Up
  <2> QED BY <1>7, <2>1
<1>12. UpToDate'
  <2>1. CASE link.write_blob
    BY <1>1, <1>4, <1>5, <1>11, <2>1 DEF UpToDate, Up
  <2>2. CASE ~link.write_blob
    BY <1>1, <1>4, <1>5, <1>8, <2>2 DEF UpToDate, Up
  <2> QED BY <2>1, <2>2
<1>13. Patched'
  BY <1>3, <1>4 DEF Patched
<1> QED BY <1>2, <1>6, <1>9, <1>10, <1>12, <1>13

LEMMA StatFilesDaemon ==
  ASSUME SoundImage, DInv, SoundEnv, OwnLinkStep, StatFiles
  PROVE  Inv' /\ OneCommand' /\ Snapshots' /\ Served' /\ UpToDate' /\ Patched'
<1>1. Inv /\ OneCommand /\ Snapshots /\ Served /\ UpToDate /\ Patched
  BY DEF DInv
<1>2. Inv'
  BY <1>1, LinkStepInv DEF OwnLinkStep
<1>3. ~Loading /\ daemon.pc # "record" /\ link.args = DaemonArgs /\ link.incremental
  BY <1>1, DaemonWaits DEF OneCommand
<1>4. /\ link.pc = "stat" /\ output # NoFile
      /\ UNCHANGED <<disk, clock, env, daemon, turn>>
  BY <1>1 DEF StatFiles, OwnLinkStep, Snapshots
<1>5. link' = [link EXCEPT !.pc = "commit", !.fast = Stamps,
                           !.fast_output = [stamp |-> output.stamp, len |-> output.len]]
  BY <1>4 DEF StatFiles
<1>6. /\ link'.pc = "commit" /\ link'.args = link.args /\ link'.layout = link.layout
      /\ link'.incremental = link.incremental /\ link'.write_blob = link.write_blob
      /\ link'.syms = link.syms /\ link'.front_end = link.front_end
      /\ link'.fast = Stamps /\ link'.fast_output = [stamp |-> output.stamp, len |-> output.len]
  BY <1>5
<1>7. OneCommand' /\ Snapshots'
  BY <1>1, <1>3, <1>4, <1>6 DEF OneCommand, Snapshots, Late, disk
<1>8. Served'
  BY <1>1, <1>3, <1>4, <1>6 DEF Served, Loading, disk
<1>9. \A f \in Files : link'.fast[f] = inputs[f].stamp
  BY <1>6 DEF Stamps
<1>10. UpToDate'
  BY <1>1, <1>4, <1>6, <1>9 DEF UpToDate, Up, disk
<1>11. Patched'
  BY <1>3, <1>4 DEF Patched
<1> QED BY <1>2, <1>7, <1>8, <1>10, <1>11

(* The record of a link the client ran itself: where layout.bin still has  *)
(* the stamp the daemon knows, the link did not write it and went on with  *)
(* the snapshot and the symbols of the old manifest.                       *)
LEMMA CommitDaemon ==
  ASSUME SoundImage, DInv, SoundEnv, OwnLinkStep, CommitManifest
  PROVE  Inv' /\ OneCommand' /\ Snapshots' /\ Served' /\ UpToDate' /\ Patched'
<1>1. Inv /\ OneCommand /\ Snapshots /\ Served /\ UpToDate /\ Patched
  BY DEF DInv
<1>2. Inv'
  BY <1>1, LinkStepInv DEF OwnLinkStep
<1>3. ~Loading /\ daemon.pc # "record" /\ link.args = DaemonArgs /\ link.incremental
  BY <1>1, DaemonWaits DEF OneCommand
<1>4. /\ link.pc = "commit" /\ output # NoFile
      /\ link.fast_output = [stamp |-> output.stamp, len |-> output.len]
      /\ UNCHANGED <<inputs, control, output, blob, clock, env, daemon, turn>>
  BY <1>1 DEF CommitManifest, OwnLinkStep, Snapshots
<1>5. /\ manifest' # NoFile /\ manifest'.args = DaemonArgs /\ manifest'.fast = link.fast
      /\ manifest'.fast_output = link.fast_output /\ manifest'.syms = link.syms
      /\ manifest'.front_end = link.front_end
  BY <1>3 DEF CommitManifest, NoFile
<1>6. link'.pc = "done" /\ link'.args = DaemonArgs /\ link'.incremental = link.incremental
  BY <1>3 DEF CommitManifest, Finished, NoLink
<1>7. OneCommand'
  BY <1>3, <1>6 DEF OneCommand
<1>8. Snapshots'
  BY <1>1, <1>3, <1>4, <1>5, <1>6 DEF Snapshots, Late
<1>9. Served'
  <2> SUFFICES ASSUME daemon.pc = "serving"
               PROVE  /\ link.front_end # NoFile /\ blob.layout = link.front_end.blob_hash
    BY <1>3, <1>4, <1>5, <1>6 DEF Served, StateUsable, Loading
  <2>1. Eligible(DaemonArgs)
    BY <1>1 DEF Served, Snapshots
  <2> QED BY <1>1, <1>4, <2>1 DEF Snapshots, Late
<1>10. UpToDate'
  <2> SUFFICES ASSUME Up PROVE UpToDate'
    BY <1>4 DEF UpToDate, Up
  <2>1. Eligible(DaemonArgs)
    BY <1>1, <1>3 DEF Served, Snapshots, Up
  <2>2. blob.stamp = daemon.blob_stamp =>
          /\ ~link.write_blob /\ link.front_end = manifest.front_end
          /\ link.syms = manifest.syms
    BY <1>1, <1>4, <2>1 DEF UpToDate, Snapshots, Late
  <2> QED BY <1>1, <1>4, <1>5, <1>6, <2>2 DEF UpToDate, Up
<1>11. Patched'
  BY <1>3, <1>4 DEF Patched
<1> QED BY <1>2, <1>7, <1>8, <1>9, <1>10, <1>11
-----------------------------------------------------------------------------
(* The daemon's steps.                                                     *)

(* Where nothing but the daemon changes, only what it keeps is at stake.   *)
LEMMA SameVars ==
  ASSUME Inv, OneCommand, Snapshots, UNCHANGED vars
  PROVE  Inv' /\ OneCommand' /\ Snapshots'
<1>1. Inv'
  BY StutterInv
<1>2. OneCommand' /\ Snapshots'
  BY DEF vars, OneCommand, Snapshots
<1> QED BY <1>1, <1>2

(* load, up to the socket, and the end of the daemon.                      *)
LEMMA LoadDaemon ==
  ASSUME DInv, SoundEnv, Spawn \/ LoadStep \/ DaemonEnds
  PROVE  Inv' /\ OneCommand' /\ Snapshots' /\ Served' /\ UpToDate' /\ Patched'
<1>1. /\ Inv /\ OneCommand /\ Snapshots /\ Served /\ UpToDate /\ Patched
      /\ Resident
  BY DEF DInv, ResInv, SoundEnv
<1>2. UNCHANGED vars
  BY DEF Spawn, LoadStep, LoadManifest, LoadBlob, LoadBaseline, LoadStamp, DaemonEnds
<1>3. Inv' /\ OneCommand' /\ Snapshots'
  BY <1>1, <1>2, SameVars
<1>4. StateUsable(DaemonArgs)' <=> StateUsable(DaemonArgs)
  BY <1>2 DEF StateUsable, vars
<1> DEFINE Goal == Served' /\ UpToDate' /\ Patched'
<1>5. ASSUME daemon'.pc \in {"down", "manifest"} PROVE Goal
  BY <1>5 DEF Served, UpToDate, Patched, Up
<1>6. ASSUME Spawn \/ DaemonEnds \/ daemon' = NoDaemon PROVE Goal
  <2>1. CASE Spawn
    BY <1>5, <2>1 DEF Spawn
  <2>2. CASE daemon' = NoDaemon
    BY <1>5, <2>2 DEF NoDaemon
  <2> QED BY <1>6, <2>1, <2>2 DEF DaemonEnds
<1>7. ASSUME LoadManifest PROVE Goal
  <2>1. CASE ~(StateUsable(DaemonArgs) /\ manifest.front_end # NoFile)
    BY <1>6, <1>7, <2>1 DEF LoadManifest
  <2>2. CASE StateUsable(DaemonArgs) /\ manifest.front_end # NoFile
    <3>1. /\ daemon'.pc = "blob" /\ daemon'.syms = manifest.syms
          /\ daemon'.front_end = manifest.front_end
      BY <1>7, <2>2 DEF LoadManifest
    <3> QED BY <1>2, <1>4, <2>2, <3>1
            DEF Served, UpToDate, Patched, Up, Loading, StateUsable, vars
  <2> QED BY <2>1, <2>2
<1>8. ASSUME LoadBlob PROVE Goal
  <2>1. CASE blob.layout # daemon.front_end.blob_hash
    BY <1>6, <1>8, <2>1 DEF LoadBlob
  <2>2. CASE blob.layout = daemon.front_end.blob_hash
    <3>1. /\ daemon.pc = "blob" /\ daemon'.pc = "baseline" /\ daemon'.syms = daemon.syms
          /\ daemon'.front_end = daemon.front_end
      BY <1>8, <2>2 DEF LoadBlob
    <3> QED BY <1>1, <1>2, <1>4, <3>1 DEF Served, UpToDate, Patched, Up, Loading, vars
  <2> QED BY <2>1, <2>2
<1>9. ASSUME LoadBaseline PROVE Goal
  <2>1. /\ daemon.pc = "baseline" /\ daemon'.pc = "stamp" /\ daemon'.syms = daemon.syms
        /\ daemon'.front_end = daemon.front_end /\ daemon'.fps = manifest.fast
    BY <1>9 DEF LoadBaseline
  <2> QED BY <1>1, <1>2, <1>4, <2>1 DEF Served, UpToDate, Patched, Up, Loading, vars
<1>10. ASSUME LoadStamp PROVE Goal
  <2>1. /\ daemon.pc = "stamp" /\ daemon'.pc = "serving" /\ daemon'.syms = daemon.syms
        /\ daemon'.front_end = daemon.front_end /\ daemon'.fps = daemon.fps
    BY <1>10 DEF LoadStamp
  <2>2. /\ link.pc = "idle" /\ blob.layout = daemon.front_end.blob_hash
        /\ manifest # NoFile /\ manifest.front_end # NoFile /\ manifest.args = DaemonArgs
        /\ StateUsable(DaemonArgs) /\ daemon.fps = manifest.fast
        /\ daemon.syms = manifest.syms /\ daemon.front_end = manifest.front_end
    BY <1>1, <2>1 DEF Resident, Served, Loading
  <2>3. \A f \in Files : manifest.fast[f] \in 0..clock
    BY <1>1, <2>2 DEF Inv, TypeOK
  <2>4. Served' /\ Patched'
    BY <1>2, <1>4, <2>1, <2>2 DEF Served, Patched, Loading, vars
  <2>5. UpToDate'
    BY <1>2, <2>1, <2>2, <2>3 DEF UpToDate, Up, vars
  <2> QED BY <2>4, <2>5
<1>11. Goal
  BY <1>6, <1>7, <1>8, <1>9, <1>10 DEF LoadStep
<1> QED BY <1>3, <1>11

(* The requests that only turn the client away, or load everything again.  *)
LEMMA TurnedAwayDaemon ==
  ASSUME DInv, SoundEnv, NoDaemonToAsk \/ HandleOtherArgs \/ HandleDeclined \/ HandleReload
  PROVE  Inv' /\ OneCommand' /\ Snapshots' /\ Served' /\ UpToDate' /\ Patched'
<1>1. Inv /\ OneCommand /\ Snapshots /\ Served /\ UpToDate /\ Patched
  BY DEF DInv
<1>2. UNCHANGED vars
  BY DEF NoDaemonToAsk, HandleOtherArgs, HandleDeclined, HandleReload, Fallback
<1>3. Inv' /\ OneCommand' /\ Snapshots'
  BY <1>1, <1>2, SameVars
<1>4. StateUsable(DaemonArgs)' <=> StateUsable(DaemonArgs)
  BY <1>2 DEF StateUsable, vars
<1>5. CASE daemon' = daemon
  BY <1>1, <1>2, <1>3, <1>4, <1>5 DEF Served, UpToDate, Patched, Up, Loading, Contents, vars
<1>6. CASE HandleReload /\ daemon' # daemon
  <2>1. /\ Loadable /\ link.pc = "reuse" /\ daemon.pc = "serving"
        /\ daemon' = [daemon EXCEPT !.layout = blob.layout, !.syms = manifest.syms,
                                    !.front_end = manifest.front_end,
                                    !.fps = manifest.fast, !.blob_stamp = blob.stamp]
    BY <1>6 DEF HandleReload, Asked
  <2>2. /\ daemon'.pc = "serving" /\ daemon'.syms = manifest.syms
        /\ daemon'.front_end = manifest.front_end /\ daemon'.fps = manifest.fast
    BY <2>1
  <2>3. \A f \in Files : manifest.fast[f] \in 0..clock
    BY <1>1, <2>1 DEF Inv, TypeOK, Loadable, StateUsable
  <2>4. Served' /\ Patched'
    BY <1>1, <1>2, <1>4, <2>1, <2>2 DEF Served, Patched, Loading, Loadable, vars
  <2>5. UpToDate'
    BY <1>2, <2>1, <2>2, <2>3 DEF UpToDate, Up, vars
  <2> QED BY <1>3, <2>4, <2>5
<1> QED BY <1>5, <1>6 DEF NoDaemonToAsk, HandleOtherArgs, HandleDeclined
(* STATUS_NOCHANGE is what try_reuse would have answered.                  *)
LEMMA NoChangeDaemon ==
  ASSUME DInv, SoundEnv, HandleNoChange
  PROVE  Inv' /\ OneCommand' /\ Snapshots' /\ Served' /\ UpToDate' /\ Patched'
<1>1. Inv /\ OneCommand /\ Snapshots /\ Served /\ UpToDate /\ Patched
  BY DEF DInv
<1>2. /\ link.pc = "reuse" /\ link.args = DaemonArgs /\ daemon.pc = "serving"
      /\ ChangedSinceServed = {} /\ link' = Finished
      /\ UNCHANGED <<disk, clock, env, daemon, turn>>
  BY DEF HandleNoChange, Current, Asked
<1>3. StateUsable(DaemonArgs)
  BY <1>1, <1>2 DEF Served
<1>4. \A f \in Files : inputs[f].stamp = manifest.fast[f]
  BY <1>1, <1>2 DEF UpToDate, Up, ChangedSinceServed
<1>5. Reusable(link.args)
  BY <1>2, <1>3, <1>4 DEF Reusable, ChangedInputs
<1>6. Inv'
  BY <1>1, <1>2, <1>5, TryReuseInv DEF TryReuse
<1>7. link'.pc = "done" /\ link'.args = link.args /\ link'.incremental = link.incremental
  BY <1>2 DEF Finished, NoLink
<1>8. OneCommand' /\ Snapshots'
  BY <1>1, <1>2, <1>7 DEF OneCommand, Snapshots, Late, disk
<1>9. Served' /\ UpToDate' /\ Patched'
  BY <1>1, <1>2, <1>7, DiskKept DEF disk, Inv, TypeOK
<1> QED BY <1>6, <1>8, <1>9

(* A patch through the symbol view gives the bytes of a full emit.         *)
LEMMA ViewPatch ==
  ASSUME NEW l, NEW syms, NEW cs, NEW ds, NEW changed,
         \A f \in Files \ changed : cs[f] = ds[f],
         \A f \in changed : cs[f].simple
  PROVE  EmitFromView(EmitFull(l, syms, ds), l, syms, cs, changed) = EmitFull(l, syms, cs)
<1>1. {f \in changed : cs[f].simple} = changed
  OBVIOUS
<1>2. EmitFromView(EmitFull(l, syms, ds), l, syms, cs, changed)
        = EmitObjects(EmitFull(l, syms, ds), l, syms, cs, changed)
  BY <1>1 DEF EmitFromView, EmitObjects
<1>3. \A f \in Files \ changed : \A s \in Sections :
        Chunk(l, syms, cs, f, s) = Chunk(l, syms, ds, f, s)
  BY DEF Chunk
<1>4. \A p \in Places : p[1] \in Files /\ p[2] \in Sections
  BY DEF Places
<1>5. EmitObjects(EmitFull(l, syms, ds), l, syms, cs, changed).bytes = EmitFull(l, syms, cs).bytes
  <2>1. \A p \in Places : EmitFull(l, syms, ds).bytes[p] = Chunk(l, syms, ds, p[1], p[2])
    BY DEF EmitFull
  <2> QED BY <1>3, <1>4, <2>1 DEF EmitObjects, EmitFull
<1> QED BY <1>2, <1>5 DEF EmitObjects, EmitFull

(* The inputs the manifest finds changed are among those the daemon finds  *)
(* changed, so the patch covers all that differs from the recorded link.   *)
LEMMA PatchIsFullLink ==
  ASSUME SoundImage, Inv, Snapshots, Served, UpToDate, Resident,
         daemon.pc = "serving", link.pc = "reuse", blob.stamp = daemon.blob_stamp, PatchFits
  PROVE  /\ EmitFromView(output.image, daemon.layout, daemon.syms, Contents, ChangedSinceServed)
              = FullLink(DaemonArgs, control, Contents)
         /\ daemon.layout = Layout(DaemonArgs, control, Contents)
         /\ daemon.syms = SymbolAddresses(daemon.layout, Contents)
         /\ daemon.front_end = FreshSnapshot(DaemonArgs, Contents, daemon.layout)
<1> DEFINE l == daemon.layout
           syms == daemon.syms
           cs == Contents
<1>1. /\ StateUsable(DaemonArgs) /\ manifest.front_end # NoFile
      /\ daemon.front_end = manifest.front_end /\ syms = manifest.syms
      /\ manifest.front_end.blob_hash = l
  BY DEF Served, UpToDate, Up, Resident
<1>2. ChangedInputs \subseteq ChangedSinceServed
  BY DEF ChangedInputs, ChangedSinceServed, UpToDate, Up
<1>3. \A f \in ChangedInputs : Digest(cs[f]) = manifest.front_end.digests[f]
  BY <1>1, <1>2 DEF PatchFits, Contents, ChangedInputs
<1>4. cs \in Reading
  BY DEF Inv, TypeOK
<1>5. /\ l = Layout(DaemonArgs, control, cs) /\ syms = SymbolAddresses(l, cs)
      /\ daemon.front_end = FreshSnapshot(DaemonArgs, cs, l)
  BY <1>1, <1>3, <1>4, CachedLayoutIsFresh
<1>6. PICK ds \in Reading : Describes(manifest, ds)
  BY <1>1 DEF StateUsable, Inv, RecordFaithful
<1>7. Layout(DaemonArgs, control, ds) = l /\ SymbolAddresses(l, ds) = syms
  BY <1>1, <1>6 DEF Describes, StateUsable, FreshSnapshot
<1>8. output.image = EmitFull(l, syms, ds)
  <2>1. output.image = FullLink(DaemonArgs, control, ds)
    BY <1>1, <1>6 DEF Describes, StateUsable
  <2> QED BY <1>7, <2>1 DEF FullLink
<1>9. \A f \in Files \ ChangedSinceServed : cs[f] = ds[f]
  BY <1>2, <1>6 DEF Describes, ChangedInputs, Contents
<1>10. \A f \in ChangedSinceServed : cs[f].simple
  BY DEF PatchFits, ChangedSinceServed, Contents
<1>11. EmitFromView(output.image, l, syms, cs, ChangedSinceServed) = EmitFull(l, syms, cs)
  <2> HIDE DEF l, syms, cs
  <2> QED BY <1>8, <1>9, <1>10, ViewPatch
<1>12. FullLink(DaemonArgs, control, cs) = EmitFull(l, syms, cs)
  BY <1>5 DEF FullLink
<1> QED BY <1>5, <1>11, <1>12

(* The daemon patches the output for a client.                             *)
LEMMA PatchDaemon ==
  ASSUME SoundImage, DInv, SoundEnv, HandleEmit
  PROVE  Inv' /\ OneCommand' /\ Snapshots' /\ Served' /\ UpToDate' /\ Patched'
<1>1. /\ Inv /\ OneCommand /\ Snapshots /\ Served /\ UpToDate /\ Patched
      /\ Resident
  BY DEF DInv, ResInv, SoundEnv
<1>2. /\ link.pc = "reuse" /\ link.args = DaemonArgs /\ daemon.pc = "serving"
      /\ blob.stamp = daemon.blob_stamp /\ PatchFits
      /\ clock' = clock + 1 /\ clock \in Nat
      /\ UNCHANGED <<inputs, control, manifest, blob, link, env>>
  BY <1>1 DEF HandleEmit, Current, Asked, Inv, TypeOK
<1>3. /\ output' # NoFile /\ output'.stamp = clock + 1 /\ output'.len = FileSize(daemon.layout)
      /\ output'.image = EmitFromView(output.image, daemon.layout, daemon.syms,
                                      Contents, ChangedSinceServed)
  BY <1>2 DEF HandleEmit, PatchFits, NoFile
<1>4. /\ daemon'.pc = "record" /\ daemon'.layout = daemon.layout /\ daemon'.syms = daemon.syms
      /\ daemon'.front_end = daemon.front_end /\ daemon'.fps = daemon.fps
      /\ daemon'.blob_stamp = daemon.blob_stamp
  BY DEF HandleEmit
<1>5. /\ output'.image = FullLink(DaemonArgs, control, Contents)
      /\ daemon.layout = Layout(DaemonArgs, control, Contents)
      /\ daemon.syms = SymbolAddresses(daemon.layout, Contents)
      /\ daemon.front_end = FreshSnapshot(DaemonArgs, Contents, daemon.layout)
  BY <1>1, <1>2, <1>3, PatchIsFullLink
<1>6. Inv'
  <2>1. RecordFaithful'
    BY <1>1, <1>2, <1>3, RecordKept DEF Inv
  <2>2. inputs' \in [Files -> [content : AllVersions, stamp : 0..clock']]
    BY <1>1, <1>2 DEF Inv, TypeOK
  <2>3. TypeOK'
    BY <1>1, <1>2, <1>3, <2>2 DEF Inv, TypeOK, Contents
  <2> QED BY <1>1, <1>2, <2>1, <2>3 DEF Inv, ReadingOK, LayoutOK, CachedOK, RedOK, EmittedOK,
             NeverStale, InWindow
<1>7. OneCommand' /\ Snapshots'
  BY <1>1, <1>2 DEF OneCommand, Snapshots, Late
<1>8. Served'
  BY <1>1, <1>2, <1>4 DEF Served, Loading
<1>9. UpToDate'
  <2>1. \A f \in Files : daemon.fps[f] \in 0..clock => daemon.fps[f] \in 0..clock'
    BY <1>2
  <2> QED BY <1>1, <1>2, <1>4, <2>1 DEF UpToDate, Up
<1>10. Contents' = Contents
  BY <1>2 DEF Contents
<1>11. Patched'
  BY <1>2, <1>3, <1>4, <1>5, <1>10 DEF Patched
<1> QED BY <1>6, <1>7, <1>8, <1>9, <1>11

(* The record of a patch describes what the patch was made from: nothing   *)
(* was edited between the two.                                             *)
LEMMA RecordDaemon ==
  ASSUME DInv, SoundEnv, HandleRecord
  PROVE  Inv' /\ OneCommand' /\ Snapshots' /\ Served' /\ UpToDate' /\ Patched'
<1>1. /\ Inv /\ OneCommand /\ Snapshots /\ Served /\ UpToDate /\ Patched
      /\ Resident /\ LinkKnown
  BY DEF DInv, ResInv, SoundEnv
<1>2. /\ daemon.pc = "record" /\ output # NoFile
      /\ UNCHANGED <<inputs, control, output, blob, clock, env, turn>>
      /\ link' = link \/ (link.pc = "reuse" /\ link' = Finished)
  BY <1>1 DEF HandleRecord, Patched
<1>3. /\ manifest' # NoFile /\ manifest'.args = DaemonArgs /\ manifest'.fast = Stamps
      /\ manifest'.fast_output = [stamp |-> output.stamp, len |-> output.len]
      /\ manifest'.sections = SectionRecords(daemon.layout)
      /\ manifest'.syms = daemon.syms /\ manifest'.front_end = daemon.front_end
  BY <1>2 DEF HandleRecord, NoFile
<1>4. /\ daemon'.pc = "serving" /\ daemon'.layout = daemon.layout /\ daemon'.syms = daemon.syms
      /\ daemon'.front_end = daemon.front_end /\ daemon'.fps = Stamps
      /\ daemon'.blob_stamp = blob.stamp
  BY DEF HandleRecord
<1>5. link.pc \in {"idle", "reuse"} /\ (link.pc = "reuse" => link.args = DaemonArgs)
  BY <1>1, <1>2 DEF Resident, OneCommand
<1>6. \/ link' = link
      \/ /\ link.pc = "reuse" /\ link'.pc = "done" /\ link'.args = DaemonArgs
         /\ link'.incremental = link.incremental /\ link'.mode = "full"
         /\ link'.changed = {} /\ link'.red = {} /\ link'.reused = FALSE
  BY <1>2, <1>5 DEF Finished, NoLink
<1>7. /\ Contents' = Contents /\ Contents \in Reading
      /\ \A f \in Files : Stamps[f] = inputs[f].stamp /\ Stamps[f] \in 0..clock
  <2>1. \A f \in Files : inputs[f].stamp \in 0..clock
    BY <1>1 DEF Inv, TypeOK
  <2> QED BY <1>1, <1>2, <2>1 DEF Contents, Stamps, Inv, TypeOK
<1>8. /\ output.len = FileSize(daemon.layout)
      /\ output.image = FullLink(DaemonArgs, control, Contents)
      /\ daemon.layout = Layout(DaemonArgs, control, Contents)
      /\ daemon.syms = SymbolAddresses(daemon.layout, Contents)
      /\ daemon.front_end = FreshSnapshot(DaemonArgs, Contents, daemon.layout)
  BY <1>1, <1>2 DEF Patched
<1>9. RecordFaithful'
  <2>1. \A f \in Files : inputs'[f].content = Contents[f]
    BY <1>2 DEF Contents
  <2>2. Describes(manifest, Contents)'
    BY <1>2, <1>3, <1>7, <1>8, <2>1 DEF Describes
  <2> QED BY <1>7, <2>2 DEF RecordFaithful
<1>10. Inv'
  <2>1. output.stamp \in 1..clock /\ DaemonArgs \in Args
    BY <1>1, <1>2, DaemonAssumption DEF Inv, TypeOK
  <2>2. manifest'.fast_output.stamp = output.stamp
    BY <1>3
  <2>3. TypeOK'
    BY <1>1, <1>2, <1>3, <1>6, <1>7, <2>1, <2>2 DEF Inv, TypeOK
  <2>4. NeverStale'
    BY <1>2, <1>5, <1>6, <1>7, <1>8 DEF NeverStale
  <2>5. link'.pc \in {"idle", "reuse", "done"}
    BY <1>5, <1>6
  <2> QED BY <1>1, <1>2, <1>5, <1>6, <1>9, <2>3, <2>4, <2>5
          DEF Inv, ReadingOK, LayoutOK, CachedOK, RedOK, EmittedOK, InWindow
<1>11. OneCommand'
  BY <1>1, <1>6 DEF OneCommand
<1>12. Snapshots'
  <2>1. Eligible(DaemonArgs)
    BY <1>1, <1>2 DEF Served, Snapshots
  <2> QED BY <1>1, <1>2, <1>3, <1>5, <1>6, <2>1 DEF Snapshots, Late
<1>13. Served'
  <2>1. daemon.front_end # NoFile
    BY <1>8, FreshSnapshotShape
  <2>2. blob.layout = daemon.front_end.blob_hash
    BY <1>1, <1>2 DEF Resident, Up
  <2> QED BY <1>2, <1>3, <1>4, <2>1, <2>2 DEF Served, StateUsable, Loading
<1>14. UpToDate'
  <2>1. link'.pc \in {"idle", "reuse", "done"}
    BY <1>5, <1>6
  <2> QED BY <1>2, <1>3, <1>4, <1>7, <2>1 DEF UpToDate, Up
<1>15. Patched'
  BY <1>4 DEF Patched
<1> QED BY <1>10, <1>11, <1>12, <1>13, <1>14, <1>15

LEMMA DInvStep == ASSUME SoundImage, DInv, [DNext]_dvars PROVE DInv'
<1>1. ResInv'
  BY ResInvStep DEF DInv
<1>2. env' = env
  BY DEF DNext, dvars, UserStep, DStart, Spawn, LoadStep, LoadManifest, LoadBlob, LoadBaseline,
         LoadStamp, NoDaemonToAsk, HandleStep, HandleOtherArgs, HandleReload, HandleNoChange,
         HandleDeclined, HandleEmit, HandleRecord, Fallback, DaemonEnds, OwnLinkStep, OwnAbort,
         OwnCrash
<1> SUFFICES ASSUME SoundEnv
             PROVE  Inv' /\ OneCommand' /\ Snapshots' /\ Served' /\ UpToDate' /\ Patched'
  BY <1>1, <1>2 DEF DInv, SoundEnv
<1>3. CASE OwnLinkStep
  BY <1>3, MemoryDaemon, EmitDaemon, WriteBlobDaemon, StatFilesDaemon, CommitDaemon
     DEF OwnLinkStep, LinkStep
<1>4. CASE HandleStep
  BY <1>4, TurnedAwayDaemon, NoChangeDaemon, PatchDaemon, RecordDaemon DEF HandleStep
<1>5. CASE OwnCrash
  BY <1>5 DEF OwnCrash, SoundEnv
<1>6. CASE UNCHANGED dvars
  <2>1. Inv /\ OneCommand /\ Snapshots /\ Served /\ UpToDate /\ Patched
    BY DEF DInv
  <2>2. UNCHANGED vars /\ UNCHANGED daemon
    BY <1>6 DEF dvars
  <2>3. Inv' /\ OneCommand' /\ Snapshots'
    BY <2>1, <2>2, SameVars
  <2>4. StateUsable(DaemonArgs)' <=> StateUsable(DaemonArgs)
    BY <2>2 DEF StateUsable, vars
  <2>5. Served' /\ UpToDate' /\ Patched'
    BY <2>1, <2>2, <2>4 DEF Served, UpToDate, Patched, Up, Loading, Contents, vars
  <2> QED BY <2>3, <2>5
<1> QED BY <1>3, <1>4, <1>5, <1>6, UserDaemon, StartDaemon, AbortDaemon, LoadDaemon,
           TurnedAwayDaemon DEF DNext

(* A link the daemon answered, patched or handed back (handle, emit of     *)
(* the resident state, record of the patch) left the bytes of a full link, *)
(* for every number of inputs and sections and every sequence of edits,    *)
(* client links, aborts, daemon starts and kills, when every section is    *)
(* allocatable, no relocation goes through a local symbol and the          *)
(* environment is the one SoundEnv names.                                  *)
THEOREM DaemonIsNeverStale == ASSUME SoundImage PROVE DSpec => []DaemonNeverStale
<1>1. DInit => DInv
  <2> SUFFICES ASSUME DInit PROVE DInv
    OBVIOUS
  <2>1. StampsGrow /\ Resident /\ LinkKnown
    BY DEF DInit, Init, NoDaemon, NoLink, StampsGrow, Resident, LinkKnown, Loading, Up
  <2>2. Inv
    BY InitInv DEF DInit
  <2>3. OneCommand /\ Snapshots /\ Served /\ UpToDate /\ Patched
    BY DEF DInit, Init, NoDaemon, NoLink, OneCommand, Snapshots, Served, UpToDate, Patched, Up,
           Late
  <2> QED BY <2>1, <2>2, <2>3 DEF DInv, ResInv
<1>2. DInv /\ [DNext]_dvars => DInv'
  BY DInvStep
<1>3. DInv => DaemonNeverStale
  BY DEF DInv, Inv, DaemonNeverStale
<1> QED BY <1>1, <1>2, <1>3, PTL DEF DSpec
-----------------------------------------------------------------------------
(* The daemons' socket.                                                    *)

(* One daemon starts at a time; once it has found nobody at the path,      *)
(* nobody serves.                                                          *)
OneStarts ==
  ~overlap => \A d, e \in Daemons : pc[d] \in Starting /\ pc[e] \in Starting => d = e

CheckedAlone ==
  ~overlap => \A d, e \in Daemons :
                pc[d] \in {"load", "remove", "bind"} => pc[e] # "serving"

SocketInv == SocketTypeOK /\ OneStarts /\ CheckedAlone /\ AtMostOneServes /\ ServingIsReachable

(* Every action keeps the types, and no action changes overlap.            *)
LEMMA SocketTypes == ASSUME SocketTypeOK, [SocketNext]_socketvars PROVE SocketTypeOK' /\ overlap' = overlap
<1> USE SocketAssumption DEF SocketTypeOK, Starting
<1>1. CASE UNCHANGED socketvars
  BY <1>1 DEF socketvars
<1>2. ASSUME NEW d \in Daemons, EnsureAutospawn(d) \/ StartByHand(d) \/ Kill(d)
      PROVE SocketTypeOK' /\ overlap' = overlap
  BY <1>2 DEF EnsureAutospawn, StartByHand, Kill
<1>3. ASSUME NEW d \in Daemons, Check(d) \/ Load(d) \/ Remove(d) \/ Bind(d)
      PROVE SocketTypeOK' /\ overlap' = overlap
  BY <1>3 DEF Check, Load, Remove, Bind
<1>4. ASSUME NEW d \in Daemons, Accept(d) \/ TimePasses(d) \/ ShutDown(d)
      PROVE SocketTypeOK' /\ overlap' = overlap
  BY <1>4 DEF Accept, TimePasses, ShutDown
<1> QED BY <1>1, <1>2, <1>3, <1>4 DEF SocketNext, Serve

(* Every action keeps the invariant; with overlap there is nothing to keep *)
(* but the types.                                                          *)
LEMMA SocketNextInv == ASSUME SocketInv, [SocketNext]_socketvars PROVE SocketInv'
<1>0. CASE overlap
  BY <1>0, SocketTypes DEF SocketInv, OneStarts, CheckedAlone, AtMostOneServes, ServingIsReachable
<1> SUFFICES ASSUME ~overlap PROVE SocketInv'
  BY <1>0
<1> USE SocketAssumption DEF SocketInv, SocketTypeOK, Starting
<1>1. CASE UNCHANGED socketvars
  BY <1>1 DEF socketvars, OneStarts, CheckedAlone, AtMostOneServes, OneServer, ServingIsReachable
<1>2. ASSUME NEW d \in Daemons, EnsureAutospawn(d) \/ StartByHand(d) PROVE SocketInv'
  <2>1. /\ pc' = [pc EXCEPT ![d] = "check"] /\ UNCHANGED <<path, recent>>
        /\ \A e \in Daemons : pc[e] \notin Starting /\ pc[d] = "off"
    BY <1>2 DEF EnsureAutospawn, StartByHand
  <2>2. SocketTypeOK' /\ overlap' = overlap
    BY SocketTypes
  <2> QED BY <2>1, <2>2 DEF OneStarts, CheckedAlone, AtMostOneServes, OneServer, ServingIsReachable
<1>3. ASSUME NEW d \in Daemons, Check(d) PROVE SocketInv'
  <2>1. ~Connects => \A e \in Daemons : pc[e] # "serving"
    BY DEF Connects, Reachable, ServingIsReachable
  <2>2. CASE Connects
    BY <1>3, <2>2 DEF Check, OneStarts, CheckedAlone, AtMostOneServes, OneServer, ServingIsReachable
  <2>3. CASE ~Connects
    BY <1>3, <2>1, <2>3 DEF Check, OneStarts, CheckedAlone, AtMostOneServes, OneServer, ServingIsReachable
  <2> QED BY <2>2, <2>3
<1>4. ASSUME NEW d \in Daemons, Load(d) PROVE SocketInv'
  BY <1>4 DEF Load, OneStarts, CheckedAlone, AtMostOneServes, OneServer, ServingIsReachable
<1>5. ASSUME NEW d \in Daemons, Remove(d) PROVE SocketInv'
  BY <1>5 DEF Remove, OneStarts, CheckedAlone, AtMostOneServes, OneServer, ServingIsReachable
<1>6. ASSUME NEW d \in Daemons, Bind(d) PROVE SocketInv'
  <2>1. \A e \in Daemons : pc[e] # "serving"
    BY <1>6 DEF Bind, CheckedAlone
  <2>2. CASE pc' = [pc EXCEPT ![d] = "serving"] /\ path' = d
    <3>1. \A e \in Daemons : pc[e] \in Starting => e = d
      BY <1>6 DEF Bind, OneStarts
    <3>2. SocketTypeOK'
      BY <1>6, <2>2 DEF Bind
    <3> QED BY <2>1, <2>2, <3>1, <3>2 DEF OneStarts, CheckedAlone, AtMostOneServes, OneServer, ServingIsReachable
  <2>3. CASE pc' = [pc EXCEPT ![d] = "off"] /\ UNCHANGED <<overlap, path, recent>>
    BY <2>1, <2>3 DEF OneStarts, CheckedAlone, AtMostOneServes, OneServer, ServingIsReachable
  <2> QED BY <1>6, <2>2, <2>3 DEF Bind
<1>7. ASSUME NEW d \in Daemons, Accept(d) \/ TimePasses(d) PROVE SocketInv'
  BY <1>7 DEF Accept, TimePasses, OneStarts, CheckedAlone, AtMostOneServes, OneServer, ServingIsReachable
<1>8. ASSUME NEW d \in Daemons, ShutDown(d) PROVE SocketInv'
  BY <1>8 DEF ShutDown, OneStarts, CheckedAlone, AtMostOneServes, OneServer, ServingIsReachable
<1>9. ASSUME NEW d \in Daemons, Kill(d) PROVE SocketInv'
  BY <1>9 DEF Kill, OneStarts, CheckedAlone, AtMostOneServes, OneServer, ServingIsReachable
<1> QED BY <1>1, <1>2, <1>3, <1>4, <1>5, <1>6, <1>7, <1>8, <1>9 DEF SocketNext, Serve

(* The invariant holds of every behaviour, overlapping starts or not.      *)
THEOREM SocketInvariance == SocketSpec => []SocketInv
<1>1. SocketInit => SocketInv
  BY SocketAssumption DEF SocketInit, SocketInv, SocketTypeOK, Starting, OneStarts, CheckedAlone,
     AtMostOneServes, OneServer, ServingIsReachable
<1>2. SocketInv /\ [SocketNext]_socketvars => SocketInv'
  BY SocketNextInv
<1> QED BY <1>1, <1>2, PTL DEF SocketSpec

(* Starts that do not overlap leave at most one daemon serving.            *)
THEOREM OneServes == SocketSpec => []AtMostOneServes
<1>1. SocketInv => AtMostOneServes
  BY DEF SocketInv
<1> QED BY <1>1, SocketInvariance, PTL

(* No remove_file of serve hits the socket of a daemon that serves.        *)
THEOREM ServersReachable == SocketSpec => []ServingIsReachable
<1>1. SocketInv => ServingIsReachable
  BY DEF SocketInv
<1> QED BY <1>1, SocketInvariance, PTL
=============================================================================
