------------------------------- MODULE GcMark -------------------------------
(***************************************************************************)
(* The mark of --gc-sections (gc.rs, gc/parallel.rs): from the roots over  *)
(* relocations, a frontier at a time.  A small frontier is drained as a    *)
(* stack by one thread; a large one is dealt out to worker threads, each   *)
(* with a deque the others may steal from, and what they find is entered   *)
(* into the live set after they have joined.  A worker that finds nothing  *)
(* to do counts itself idle and leaves when all are.                       *)
(*                                                                         *)
(* The order of frontier and deques is left open.  ws_deque is external: a *)
(* thief reads an item and then takes it with an exchange that fails when  *)
(* somebody else took it first (Steal::Retry).                             *)
(***************************************************************************)
EXTENDS SectionGraph, FiniteSets, FiniteSetsExt

CONSTANTS
  Programs,    \* the programs considered
  MaxThreads,  \* bound: available_parallelism is at most this
  Grain        \* S3GC_GRAIN_SIZE

Threads == 1..MaxThreads

ASSUME MarkAssumption ==
  /\ MaxThreads \in Nat \ {0} /\ Grain \in Nat \ {0}
  /\ \A p \in Programs : p.threads \in Threads /\ WellFormed(p) /\ IsFiniteSet(Sections(p))

VARIABLES
  prog,        \* the program, never changed
  phase,       \* where GcTraversal::run is
  live,        \* LiveSections
  frontier,    \* sections to look at
  pl,          \* workers of the current level
  worker,      \* worker[t]: the thread t of the current level
  idle_count,  \* workers that found nothing to do
  candidates,  \* results: what the workers found
  scans        \* how often each section was scanned: traversed_sections

markvars == <<prog, phase, live, frontier, pl, worker, idle_count, candidates, scans>>

NewWorker(items) ==
  [pc |-> "pop", deque |-> items, item |-> None, at |-> 1, idle |-> FALSE, out |-> {}]

NoWorkers == [t \in Threads |-> NewWorker({})]

MarkInit ==
  /\ prog \in Programs
  /\ phase = "seed"
  /\ live = {} /\ frontier = {}
  /\ pl = 1 /\ worker = NoWorkers /\ idle_count = 0 /\ candidates = {}
  /\ scans = [k \in Sections(prog) |-> 0]
-----------------------------------------------------------------------------
(* insert_key for every found key: a key without a bit is ignored, one     *)
(* without a section is marked and not followed.                           *)
NowLive(found) == live \cup (found \cap prog.slots)

NewItems(found) == (found \cap Sections(prog)) \ live

Scanned(k) == [scans EXCEPT ![k] = @ + 1]

SeedRoots ==
  /\ phase = "seed" /\ prog.gc
  /\ live' = Roots(prog)
  /\ frontier' = Roots(prog)
  /\ phase' = "run"
  /\ UNCHANGED <<prog, pl, worker, idle_count, candidates, scans>>

(* run: how many workers a frontier of n sections gets.                    *)
Width(n) == Max({1, Min({prog.threads, n, (n + Grain - 1) \div Grain})})

(* The round-robin deal, up to the order of the items.                     *)
Deals(n) ==
  {d \in [1..n -> SUBSET frontier] :
     /\ UNION {d[t] : t \in 1..n} = frontier
     /\ \A t, u \in 1..n : /\ t # u => d[t] \cap d[u] = {}
                           /\ t < u => Cardinality(d[t]) - Cardinality(d[u]) \in {0, 1}}

StartSerial ==
  /\ phase = "run" /\ frontier # {}
  /\ Width(Cardinality(frontier)) = 1
  /\ phase' = "serial"
  /\ UNCHANGED <<prog, live, frontier, pl, worker, idle_count, candidates, scans>>

StartLevel ==
  /\ phase = "run" /\ frontier # {}
  /\ LET n == Width(Cardinality(frontier)) IN
       /\ n > 1
       /\ pl' = n
       /\ \E d \in Deals(n) :
            worker' = [t \in Threads |-> NewWorker(IF t <= n THEN d[t] ELSE {})]
  /\ frontier' = {} /\ idle_count' = 0 /\ candidates' = {}
  /\ phase' = "level"
  /\ UNCHANGED <<prog, live, scans>>

MarkDone ==
  /\ phase = "run" /\ frontier = {}
  /\ phase' = "marked"
  /\ UNCHANGED <<prog, live, frontier, pl, worker, idle_count, candidates, scans>>

(* drain_serial_stack goes on until nothing is left, whatever it finds.    *)
DrainSerial ==
  /\ phase = "serial"
  /\ \/ /\ frontier = {}
        /\ phase' = "run"
        /\ UNCHANGED <<live, frontier, scans>>
     \/ \E k \in frontier :
          /\ scans' = Scanned(k)
          /\ live' = NowLive(Targets(prog, k))
          /\ frontier' = (frontier \ {k}) \cup NewItems(Targets(prog, k))
          /\ UNCHANGED phase
  /\ UNCHANGED <<prog, pl, worker, idle_count, candidates>>
-----------------------------------------------------------------------------
(* A worker of collect_parallel_level.                                     *)

Set(t, w) == worker' = [worker EXCEPT ![t] = w]

InLevel(t) == phase = "level" /\ t <= pl

Rest == <<prog, phase, live, frontier, pl>>

(* The next deque to steal from, from the i-th on.                         *)
Victim(t, i) == IF i = t THEN i + 1 ELSE i

Pop(t) ==
  /\ InLevel(t) /\ worker[t].pc = "pop"
  /\ \/ \E k \in worker[t].deque :
          Set(t, [worker[t] EXCEPT !.deque = @ \ {k}, !.item = k, !.pc = "scan"])
     \/ /\ worker[t].deque = {}
        /\ Set(t, [worker[t] EXCEPT !.at = Victim(t, 1), !.pc = "steal"])
  /\ UNCHANGED <<Rest, idle_count, candidates, scans>>

(* steal, up to the exchange.                                              *)
Look(t) ==
  /\ InLevel(t) /\ worker[t].pc = "steal" /\ worker[t].at <= pl
  /\ LET d == worker[worker[t].at].deque IN
       \/ /\ d = {}
          /\ Set(t, [worker[t] EXCEPT !.at = Victim(t, @ + 1)])
       \/ \E k \in d : Set(t, [worker[t] EXCEPT !.item = k, !.pc = "take"])
  /\ UNCHANGED <<Rest, idle_count, candidates, scans>>

(* Bug: the item is handed out although somebody else took it.             *)
TakeAnyway(t) ==
  /\ InLevel(t) /\ worker[t].pc = "take"
  /\ LET v == worker[t].at IN
       worker' = [worker EXCEPT ![v].deque = @ \ {worker[t].item}, ![t].pc = "scan"]
  /\ UNCHANGED <<Rest, idle_count, candidates, scans>>

(* The exchange: Steal::Success or Steal::Retry.                           *)
Take(t) ==
  /\ InLevel(t) /\ worker[t].pc = "take"
  /\ LET v == worker[t].at
         k == worker[t].item
     IN \/ /\ k \in worker[v].deque
           /\ worker' = [worker EXCEPT ![v].deque = @ \ {k}, ![t].pc = "scan"]
        \/ /\ k \notin worker[v].deque
           /\ Set(t, [worker[t] EXCEPT !.item = None, !.pc = "pop"])
  /\ UNCHANGED <<Rest, idle_count, candidates, scans>>

(* collect_targets of the item in hand.                                    *)
Scan(t) ==
  /\ InLevel(t) /\ worker[t].pc = "scan"
  /\ LET k == worker[t].item IN
       /\ Set(t, [worker[t] EXCEPT !.out = @ \cup Targets(prog, k), !.item = None,
                                   !.idle = FALSE, !.pc = "pop"])
       /\ scans' = Scanned(k)
  /\ idle_count' = IF worker[t].idle THEN idle_count - 1 ELSE idle_count
  /\ UNCHANGED <<Rest, candidates>>

(* Bug: a worker counts itself idle every time it finds nothing.           *)
GoIdleAgain(t) ==
  /\ InLevel(t) /\ worker[t].pc = "steal" /\ worker[t].at > pl
  /\ idle_count' = idle_count + 1
  /\ Set(t, [worker[t] EXCEPT !.idle = TRUE, !.pc = "check"])
  /\ UNCHANGED <<Rest, candidates, scans>>

(* No deque had anything.                                                  *)
GoIdle(t) ==
  /\ InLevel(t) /\ worker[t].pc = "steal" /\ worker[t].at > pl
  /\ idle_count' = IF worker[t].idle THEN idle_count ELSE idle_count + 1
  /\ Set(t, [worker[t] EXCEPT !.idle = TRUE, !.pc = "check"])
  /\ UNCHANGED <<Rest, candidates, scans>>

(* Bug: a worker waits for one more than there are.                        *)
CheckIdleAbove(t) ==
  /\ InLevel(t) /\ worker[t].pc = "check"
  /\ Set(t, [worker[t] EXCEPT !.pc = IF idle_count > pl THEN "exit" ELSE "pop"])
  /\ UNCHANGED <<Rest, idle_count, candidates, scans>>

(* Leave when all are idle, else spin.                                     *)
CheckIdle(t) ==
  /\ InLevel(t) /\ worker[t].pc = "check"
  /\ Set(t, [worker[t] EXCEPT !.pc = IF idle_count >= pl THEN "exit" ELSE "pop"])
  /\ UNCHANGED <<Rest, idle_count, candidates, scans>>

(* Bug: the results of a worker replace those of the others.               *)
ExitReplacing(t) ==
  /\ InLevel(t) /\ worker[t].pc = "exit"
  /\ candidates' = IF worker[t].out = {} THEN candidates ELSE worker[t].out
  /\ Set(t, [worker[t] EXCEPT !.out = {}, !.pc = "joined"])
  /\ UNCHANGED <<Rest, idle_count, scans>>

(* extend_locked, and the end of the thread.                               *)
Exit(t) ==
  /\ InLevel(t) /\ worker[t].pc = "exit"
  /\ candidates' = candidates \cup worker[t].out
  /\ Set(t, [worker[t] EXCEPT !.out = {}, !.pc = "joined"])
  /\ UNCHANGED <<Rest, idle_count, scans>>

WorkerStep(t) ==
  Pop(t) \/ Look(t) \/ Take(t) \/ Scan(t) \/ GoIdle(t) \/ CheckIdle(t) \/ Exit(t)

(* The scope has joined all threads: drain_parallel_level enters what they *)
(* found.                                                                  *)
EndLevel ==
  /\ phase = "level"
  /\ \A t \in 1..pl : worker[t].pc = "joined"
  /\ live' = NowLive(candidates)
  /\ frontier' = NewItems(candidates)
  /\ candidates' = {}
  /\ phase' = "run"
  /\ UNCHANGED <<prog, pl, worker, idle_count, scans>>

MainStep ==
  SeedRoots \/ StartSerial \/ StartLevel \/ MarkDone \/ DrainSerial \/ EndLevel

MarkNext == MainStep \/ \E t \in Threads : WorkerStep(t)

MarkSpec == MarkInit /\ [][MarkNext]_markvars
-----------------------------------------------------------------------------
(* Sections still to be scanned.                                           *)
Held(t) == IF worker[t].pc = "scan" THEN {worker[t].item} ELSE {}

Pending ==
  frontier \cup (IF phase = "level" THEN UNION {worker[t].deque \cup Held(t) : t \in 1..pl}
                                    ELSE {})

Closed(S) == \A k \in S \cap Sections(prog) : Targets(prog, k) \cap prog.slots \subseteq S

(* What --gc-sections promises: the mark ends with the least set that has  *)
(* the roots and is closed under relocations.  Nothing reachable is        *)
(* missing, however the frontier was split, stolen and merged, and nothing *)
(* else is kept.                                                           *)
LiveIsReachable ==
  phase = "marked" =>
    /\ Roots(prog) \subseteq live
    /\ Closed(live)
    /\ \A S \in SUBSET prog.slots : Roots(prog) \subseteq S /\ Closed(S) => live \subseteq S

(* No section is scanned twice, by a thief and its victim or by a later    *)
(* level, and none is dropped: a live section is scanned or pending.       *)
ScannedOnce ==
  phase \in {"run", "serial", "level", "marked"} =>
    \A k \in Sections(prog) :
      scans[k] = IF k \in live /\ k \notin Pending THEN 1 ELSE 0

(* A worker leaves a level only when there is nothing left to do in it: no *)
(* deque has an item and nobody has one in hand.                           *)
LeavesWhenIdle ==
  phase = "level" =>
    \A t \in 1..pl : worker[t].pc \in {"exit", "joined"} => Pending = {}

(* The mark as a whole: exact at its end, each section scanned once on the *)
(* way, and nobody gone while there is work.                               *)
MarkExact == LiveIsReachable /\ ScannedOnce /\ LeavesWhenIdle
=============================================================================
