------------------------ MODULE SectionSelectProofs ------------------------
(***************************************************************************)
(* Proofs about GcMark and SectionSelect, for every program and every      *)
(* number of threads.  The mark is exact because of what its inductive     *)
(* invariant says of a level: a section to be scanned is in one place, no  *)
(* deque ever grows, and so a worker that has found every deque empty has  *)
(* found them empty for good.                                              *)
(***************************************************************************)
EXTENDS SectionSelect, FiniteSetTheorems, WellFoundedInduction, TLAPS

MarkPhases == {"run", "serial", "level", "marked"}

AfterMark == {"live", "folded", "placed"}

Pcs == {"pop", "steal", "take", "scan", "check", "exit", "joined"}

AllTargets(p) == UNION {Targets(p, k) : k \in Sections(p)}

Workers(p) ==
  [pc : Pcs, deque : SUBSET Sections(p), item : Sections(p) \cup {None}, at : Nat \ {0},
   idle : BOOLEAN, out : SUBSET AllTargets(p)]

TypeOK ==
  /\ prog \in Programs
  /\ phase \in {"seed"} \cup MarkPhases \cup AfterMark
  /\ pl \in Threads
  /\ frontier \subseteq Sections(prog)
  /\ worker \in [Threads -> Workers(prog)]
  /\ scans \in [Sections(prog) -> Nat]

(* A section to be scanned in this level is in one deque or in one hand.   *)
OnePlace ==
  \A t, u \in 1..pl :
    /\ t # u => worker[t].deque \cap worker[u].deque = {}
    /\ worker[t].pc = "scan" => worker[t].item \notin worker[u].deque
    /\ t # u /\ worker[t].pc = "scan" /\ worker[u].pc = "scan" => worker[t].item # worker[u].item

(* What a worker has found out about the deques still holds.               *)
SeenEmpty ==
  \A t, u \in 1..pl :
    /\ worker[t].pc = "steal" => /\ worker[t].deque = {}
                                 /\ u < worker[t].at => worker[u].deque = {}
    /\ worker[t].idle => /\ worker[t].pc \notin {"take", "scan"}
                         /\ worker[u].deque = {}

(* The counter counts, and those who left were right to.                   *)
Idle == {t \in 1..pl : worker[t].idle}

IdleCounted ==
  /\ idle_count = Cardinality(Idle)
  /\ \A t \in 1..pl :
       /\ worker[t].pc \in {"check", "exit", "joined"} => worker[t].idle
       /\ worker[t].pc \in {"exit", "joined"} => Idle = 1..pl
       /\ worker[t].pc = "joined" => worker[t].out = {}
       /\ worker[t].pc = "take" => worker[t].at <= pl
       /\ worker[t].pc = "scan" => worker[t].item \in Sections(prog)

LevelInv == phase = "level" => frontier = {} /\ OnePlace /\ SeenEmpty /\ IdleCounted

(* What has been found and is not yet entered.                             *)
Found ==
  IF phase = "level" THEN candidates \cup UNION {worker[t].out : t \in 1..pl} ELSE {}

(* Everything live is reachable, and what it refers to is live, found, or  *)
(* referred to by a section that is still to be scanned.                   *)
LiveInv ==
  phase \in MarkPhases =>
    /\ Roots(prog) \subseteq live /\ live \subseteq prog.slots
    /\ Pending \subseteq live
    /\ \A k \in live \cap Sections(prog) :
         k \notin Pending => Targets(prog, k) \cap prog.slots \subseteq live \cup Found
    /\ \A S \in SUBSET prog.slots :
         Roots(prog) \subseteq S /\ Closed(S) =>
           live \subseteq S /\ Found \cap prog.slots \subseteq S
    /\ phase = "marked" => frontier = {}

SeedInv == phase = "seed" => frontier = {} /\ scans = [k \in Sections(prog) |-> 0]

MarkInv == TypeOK /\ SeedInv /\ LevelInv /\ LiveInv /\ ScannedOnce
-----------------------------------------------------------------------------
Work(t) == worker[t].deque \cup Held(t)

LEMMA Programs_WellFormed ==
  ASSUME NEW p \in Programs
  PROVE  /\ p.threads \in Threads
         /\ WellFormed(p) /\ IsFiniteSet(Sections(p))
         /\ Roots(p) \subseteq Sections(p) /\ Roots(p) \subseteq p.slots
         /\ \A k \in Sections(p) : Targets(p, k) \subseteq AllTargets(p)
<1>1. p.threads \in Threads /\ WellFormed(p) /\ IsFiniteSet(Sections(p))
  BY MarkAssumption
<1>2. Roots(p) \subseteq Sections(p)
  BY DEF Roots
<1>3. Roots(p) \subseteq p.slots
  BY <1>1, <1>2 DEF WellFormed
<1>4. \A k \in Sections(p) : Targets(p, k) \subseteq AllTargets(p)
  BY DEF AllTargets
<1> QED BY <1>1, <1>2, <1>3, <1>4

(* A worker step that neither scans nor loses anything.                    *)
LEMMA Quiet ==
  ASSUME MarkInv, phase = "level", UNCHANGED <<Rest, scans>>,
         TypeOK', LevelInv', Pending' = Pending, Found' = Found
  PROVE  MarkInv'
<1> USE DEF MarkInv, Rest
<1>1. SeedInv'
  BY DEF SeedInv
<1>2. ScannedOnce'
  BY DEF ScannedOnce
<1>3. LiveInv'
  BY DEF LiveInv, Closed
<1> QED BY <1>1, <1>2, <1>3

LEMMA InLevelFacts ==
  ASSUME MarkInv, NEW t \in Threads, InLevel(t)
  PROVE  /\ phase = "level" /\ frontier = {} /\ pl \in Nat
         /\ t \in 1..pl /\ 1..pl \subseteq Threads /\ t \in Nat
         /\ worker \in [Threads -> Workers(prog)] /\ worker[t] \in Workers(prog)
         /\ OnePlace /\ SeenEmpty /\ IdleCounted
<1>1. phase = "level" /\ pl \in 1..MaxThreads /\ t \in 1..MaxThreads /\ t <= pl
  BY DEF MarkInv, TypeOK, Threads, InLevel
<1>2. MaxThreads \in Nat
  BY MarkAssumption
<1>3. worker \in [Threads -> Workers(prog)] /\ worker[t] \in Workers(prog)
  BY DEF MarkInv, TypeOK
<1>4. frontier = {} /\ OnePlace /\ SeenEmpty /\ IdleCounted
  BY <1>1 DEF MarkInv, LevelInv
<1> QED BY <1>1, <1>2, <1>3, <1>4 DEF Threads

LEMMA OneWorker ==
  ASSUME MarkInv, NEW t \in Threads, NEW v \in Workers(prog), worker' = [worker EXCEPT ![t] = v],
         UNCHANGED <<Rest, scans>>
  PROVE  /\ worker'[t] = v
         /\ \A u \in Threads : u # t => worker'[u] = worker[u]
         /\ TypeOK'
BY DEF MarkInv, TypeOK, Rest

LEMMA SamePending ==
  ASSUME phase = "level", UNCHANGED Rest, \A u \in 1..pl : Work(u)' = Work(u)
  PROVE  Pending' = Pending
<1>1. phase' = "level" /\ frontier' = frontier /\ pl' = pl
  BY DEF Rest
<1>2. \A x : x \in Pending <=> x \in frontier \/ \E u \in 1..pl : x \in Work(u)
  BY DEF Pending, Work
<1>3. \A x : x \in Pending' <=> x \in frontier' \/ \E u \in 1..pl' : x \in Work(u)'
  BY <1>1 DEF Pending, Work
<1> QED BY <1>1, <1>2, <1>3

LEMMA SameFound ==
  ASSUME phase = "level", UNCHANGED Rest, candidates' = candidates,
         \A u \in 1..pl : worker'[u].out = worker[u].out
  PROVE  Found' = Found
<1>1. phase' = "level" /\ pl' = pl
  BY DEF Rest
<1>2. \A x : x \in Found <=> x \in candidates \/ \E u \in 1..pl : x \in worker[u].out
  BY DEF Found
<1>3. \A x : x \in Found' <=> x \in candidates' \/ \E u \in 1..pl' : x \in worker'[u].out
  BY <1>1 DEF Found
<1> QED BY <1>1, <1>2, <1>3

LEMMA SameIdle ==
  ASSUME UNCHANGED Rest, \A u \in 1..pl : worker'[u].idle = worker[u].idle
  PROVE  Idle' = Idle
BY DEF Rest, Idle
-----------------------------------------------------------------------------
LEMMA PopStep == ASSUME MarkInv, NEW t \in Threads, Pop(t) PROVE MarkInv'
<1> DEFINE w == worker[t]
<1>a. InLevel(t) /\ w.pc = "pop" /\ UNCHANGED <<Rest, idle_count, candidates, scans>>
  BY DEF Pop
<1>b. /\ phase = "level" /\ frontier = {} /\ pl \in Nat
      /\ t \in 1..pl /\ 1..pl \subseteq Threads /\ t \in Nat
      /\ worker \in [Threads -> Workers(prog)] /\ w \in Workers(prog)
      /\ OnePlace /\ SeenEmpty /\ IdleCounted
  BY <1>a, InLevelFacts
<1>c. phase' = phase /\ pl' = pl /\ frontier' = frontier /\ prog' = prog
  BY <1>a DEF Rest
<1>1. PICK v \in Workers(prog) :
        /\ worker' = [worker EXCEPT ![t] = v]
        /\ v.out = w.out /\ v.idle = w.idle
        /\ \/ /\ v.pc = "scan" /\ v.item \in w.deque /\ v.deque = w.deque \ {v.item}
           \/ /\ v.pc = "steal" /\ v.deque = {} /\ w.deque = {} /\ v.at = Victim(t, 1)
  <2>1. CASE \E k \in w.deque :
               worker' = [worker EXCEPT ![t] =
                   [w EXCEPT !.deque = @ \ {k}, !.item = k, !.pc = "scan"]]
    <3>1. PICK k \in w.deque :
               worker' = [worker EXCEPT ![t] =
                   [w EXCEPT !.deque = @ \ {k}, !.item = k, !.pc = "scan"]]
      BY <2>1
    <3>2. k \in Sections(prog)
      BY <1>b DEF Workers
    <3>3. [w EXCEPT !.deque = @ \ {k}, !.item = k, !.pc = "scan"] \in Workers(prog)
      BY <1>b, <3>2 DEF Workers, Pcs
    <3> QED BY <3>1, <3>3, <1>b DEF Workers
  <2>2. CASE /\ w.deque = {}
             /\ worker' = [worker EXCEPT ![t] = [w EXCEPT !.at = Victim(t, 1), !.pc = "steal"]]
    <3>1. Victim(t, 1) \in Nat \ {0}
      BY <1>b DEF Victim
    <3>2. [w EXCEPT !.at = Victim(t, 1), !.pc = "steal"] \in Workers(prog)
      BY <1>b, <3>1 DEF Workers, Pcs
    <3> QED BY <3>1, <3>2, <2>2, <1>b DEF Workers
  <2> QED BY <2>1, <2>2 DEF Pop, Set
<1>2. /\ worker'[t] = v
      /\ \A u \in Threads : u # t => worker'[u] = worker[u]
      /\ TypeOK'
  BY <1>1, <1>a, OneWorker
<1> HIDE DEF w
<1>3. OnePlace'
  BY <1>b, <1>c, <1>1, <1>2 DEF OnePlace, w
<1>4. SeenEmpty'
  <2>1. \A u \in 1..pl : v.pc = "steal" => (u < v.at => worker'[u].deque = {})
    BY <1>b, <1>1, <1>2 DEF Victim
  <2> QED BY <1>a, <1>b, <1>c, <1>1, <1>2, <2>1 DEF SeenEmpty, w
<1>5. \A u \in 1..pl : worker'[u].idle = worker[u].idle /\ worker'[u].out = worker[u].out
  BY <1>b, <1>1, <1>2 DEF w
<1>6. IdleCounted'
  <2>1. v.pc = "scan" => v.item \in Sections(prog)
    BY <1>1, <1>b DEF Workers
  <2>2. Idle' = Idle
    BY <1>a, <1>5, SameIdle
  <2> QED BY <1>a, <1>b, <1>c, <1>1, <1>2, <1>5, <2>1, <2>2 DEF IdleCounted, w
<1>7. LevelInv'
  BY <1>b, <1>c, <1>3, <1>4, <1>6 DEF LevelInv
<1>8. \A u \in 1..pl : Work(u)' = Work(u)
  BY <1>a, <1>b, <1>1, <1>2 DEF Work, Held, w
<1> QED BY <1>a, <1>b, <1>2, <1>5, <1>7, <1>8, SamePending, SameFound, Quiet

LEMMA LookStep == ASSUME MarkInv, NEW t \in Threads, Look(t) PROVE MarkInv'
<1> DEFINE w == worker[t]
<1>a. /\ InLevel(t) /\ w.pc = "steal" /\ w.at <= pl
      /\ UNCHANGED <<Rest, idle_count, candidates, scans>>
  BY DEF Look
<1>b. /\ phase = "level" /\ frontier = {} /\ pl \in Nat
      /\ t \in 1..pl /\ 1..pl \subseteq Threads /\ t \in Nat
      /\ worker \in [Threads -> Workers(prog)] /\ w \in Workers(prog)
      /\ OnePlace /\ SeenEmpty /\ IdleCounted
  BY <1>a, InLevelFacts
<1>c. phase' = phase /\ pl' = pl /\ frontier' = frontier /\ prog' = prog
  BY <1>a DEF Rest
<1>d. w.at \in Nat \ {0} /\ w.at \in 1..pl
  BY <1>a, <1>b DEF Workers
<1>1. PICK v \in Workers(prog) :
        /\ worker' = [worker EXCEPT ![t] = v]
        /\ v.out = w.out /\ v.idle = w.idle /\ v.deque = w.deque
        /\ \/ /\ v.pc = "take" /\ v.at = w.at /\ worker[w.at].deque # {}
           \/ /\ v.pc = "steal" /\ worker[w.at].deque = {} /\ v.at = Victim(t, w.at + 1)
  <2>1. CASE \E k \in worker[w.at].deque :
               worker' = [worker EXCEPT ![t] = [w EXCEPT !.item = k, !.pc = "take"]]
    <3>1. PICK k \in worker[w.at].deque :
               worker' = [worker EXCEPT ![t] = [w EXCEPT !.item = k, !.pc = "take"]]
      BY <2>1
    <3>2. k \in Sections(prog)
      BY <1>b, <1>d DEF Workers
    <3>3. [w EXCEPT !.item = k, !.pc = "take"] \in Workers(prog)
      BY <1>b, <3>2 DEF Workers, Pcs
    <3> QED BY <3>1, <3>3, <1>b DEF Workers
  <2>2. CASE /\ worker[w.at].deque = {}
             /\ worker' = [worker EXCEPT ![t] = [w EXCEPT !.at = Victim(t, w.at + 1)]]
    <3>1. Victim(t, w.at + 1) \in Nat \ {0}
      BY <1>b, <1>d DEF Victim
    <3>2. [w EXCEPT !.at = Victim(t, w.at + 1)] \in Workers(prog)
      BY <1>b, <3>1 DEF Workers
    <3> QED BY <3>1, <3>2, <2>2, <1>a, <1>b DEF Workers
  <2> QED BY <2>1, <2>2 DEF Look, Set
<1>2. /\ worker'[t] = v
      /\ \A u \in Threads : u # t => worker'[u] = worker[u]
      /\ TypeOK'
  BY <1>1, <1>a, OneWorker
<1>e. w.deque = {} /\ \A u \in 1..pl : u < w.at => worker[u].deque = {}
  BY <1>a, <1>b DEF SeenEmpty
<1> HIDE DEF w
<1>3. OnePlace'
  BY <1>a, <1>b, <1>c, <1>1, <1>2 DEF OnePlace, w
<1>4. SeenEmpty'
  <2>1. \A u \in 1..pl : worker'[u].deque = worker[u].deque
    BY <1>b, <1>1, <1>2 DEF w
  <2>2. v.pc = "steal" => \A u \in 1..pl : u < v.at => worker[u].deque = {}
    BY <1>b, <1>d, <1>e, <1>1 DEF Victim, w
  <2>3. v.pc = "take" => ~w.idle
    BY <1>b, <1>d, <1>1 DEF SeenEmpty, w
  <2> QED BY <1>a, <1>b, <1>c, <1>e, <1>1, <1>2, <2>1, <2>2, <2>3 DEF SeenEmpty, w
<1>5. \A u \in 1..pl : worker'[u].idle = worker[u].idle /\ worker'[u].out = worker[u].out
  BY <1>b, <1>1, <1>2 DEF w
<1>6. IdleCounted'
  <2>1. Idle' = Idle
    BY <1>a, <1>5, SameIdle
  <2> QED BY <1>a, <1>b, <1>c, <1>1, <1>2, <1>5, <2>1 DEF IdleCounted, w
<1>7. LevelInv'
  BY <1>b, <1>c, <1>3, <1>4, <1>6 DEF LevelInv
<1>8. \A u \in 1..pl : Work(u)' = Work(u)
  BY <1>a, <1>b, <1>1, <1>2 DEF Work, Held, w
<1> QED BY <1>a, <1>b, <1>2, <1>5, <1>7, <1>8, SamePending, SameFound, Quiet

(* A thief that was too late lets go; one that was not has what the victim *)
(* had, and nobody else has it.                                            *)
LEMMA TakeStep == ASSUME MarkInv, NEW t \in Threads, Take(t) PROVE MarkInv'
<1> DEFINE w == worker[t]
           v == w.at
           k == w.item
<1>a. InLevel(t) /\ w.pc = "take" /\ UNCHANGED <<Rest, idle_count, candidates, scans>>
  BY DEF Take
<1>b. /\ phase = "level" /\ frontier = {} /\ pl \in Nat
      /\ t \in 1..pl /\ 1..pl \subseteq Threads /\ t \in Nat
      /\ worker \in [Threads -> Workers(prog)] /\ w \in Workers(prog)
      /\ OnePlace /\ SeenEmpty /\ IdleCounted
  BY <1>a, InLevelFacts
<1>c. phase' = phase /\ pl' = pl /\ frontier' = frontier /\ prog' = prog
  BY <1>a DEF Rest
<1>d. v \in 1..pl /\ ~w.idle
  BY <1>a, <1>b DEF Workers, IdleCounted, SeenEmpty
<1>1. /\ worker' \in [Threads -> Workers(prog)]
      /\ \A u \in 1..pl :
           /\ worker'[u].idle = worker[u].idle /\ worker'[u].out = worker[u].out
           /\ worker'[u].at = worker[u].at
           /\ u # t => worker'[u].pc = worker[u].pc /\ worker'[u].item = worker[u].item
           /\ worker'[u].deque \subseteq worker[u].deque
      /\ \/ /\ worker'[t].pc = "scan" /\ worker'[t].item = k /\ k \in worker[v].deque
            /\ \A u \in 1..pl : worker'[u].deque = IF u = v THEN worker[u].deque \ {k}
                                                           ELSE worker[u].deque
         \/ /\ worker'[t].pc = "pop"
            /\ \A u \in 1..pl : worker'[u].deque = worker[u].deque
  <2>1. CASE /\ k \in worker[v].deque
             /\ worker' = [worker EXCEPT ![v].deque = @ \ {k}, ![t].pc = "scan"]
    <3>1. worker[v] \in Workers(prog)
      BY <1>b, <1>d
    <3>2. [worker[v] EXCEPT !.deque = @ \ {k}] \in Workers(prog)
      BY <3>1 DEF Workers
    <3>3. PICK W : W = [worker EXCEPT ![v].deque = @ \ {k}]
      OBVIOUS
    <3>4. W \in [Threads -> Workers(prog)]
      BY <1>b, <1>d, <3>2, <3>3
    <3>5. \A u \in 1..pl :
             /\ W[u].idle = worker[u].idle /\ W[u].out = worker[u].out /\ W[u].at = worker[u].at
             /\ W[u].pc = worker[u].pc /\ W[u].item = worker[u].item
             /\ W[u].deque = IF u = v THEN worker[u].deque \ {k} ELSE worker[u].deque
      BY <1>b, <1>d, <3>1, <3>3 DEF Workers
    <3>6. worker' = [W EXCEPT ![t].pc = "scan"]
      BY <2>1, <3>3
    <3>7. W[t] \in Workers(prog) /\ [W[t] EXCEPT !.pc = "scan"] \in Workers(prog)
      BY <1>b, <3>4 DEF Workers, Pcs
    <3>8. worker' \in [Threads -> Workers(prog)]
      BY <3>4, <3>6, <3>7
    <3>9. /\ worker'[t].pc = "scan"
          /\ \A u \in 1..pl :
             /\ worker'[u].idle = W[u].idle /\ worker'[u].out = W[u].out /\ worker'[u].at = W[u].at
             /\ u # t => worker'[u].pc = W[u].pc
             /\ worker'[u].item = W[u].item /\ worker'[u].deque = W[u].deque
      BY <1>b, <3>4, <3>6, <3>7 DEF Workers
    <3>10. worker'[t].item = k /\ k \in worker[v].deque
      BY <1>b, <2>1, <3>5, <3>9
    <3> HIDE DEF w, v, k
    <3>11. \A u \in 1..pl : /\ worker'[u].idle = worker[u].idle /\ worker'[u].out = worker[u].out
                            /\ worker'[u].at = worker[u].at /\ worker'[u].item = worker[u].item
      BY <3>5, <3>9
    <3>12. \A u \in 1..pl : worker'[u].deque = IF u = v THEN worker[u].deque \ {k}
                                                       ELSE worker[u].deque
      BY <3>5, <3>9
    <3>13. \A u \in 1..pl : /\ u # t => worker'[u].pc = worker[u].pc
                            /\ worker'[u].deque \subseteq worker[u].deque
      BY <3>5, <3>9
    <3> QED BY <3>8, <3>9, <3>10, <3>11, <3>12, <3>13
  <2>2. CASE worker' = [worker EXCEPT ![t] = [w EXCEPT !.item = None, !.pc = "pop"]]
    <3>1. [w EXCEPT !.item = None, !.pc = "pop"] \in Workers(prog)
      BY <1>b DEF Workers, Pcs
    <3>2. worker' \in [Threads -> Workers(prog)] /\ worker'[t].pc = "pop"
      BY <1>b, <2>2, <3>1 DEF Workers
    <3>3. /\ worker'[t].idle = w.idle /\ worker'[t].out = w.out /\ worker'[t].at = w.at
          /\ worker'[t].deque = w.deque
      BY <1>b, <2>2, <3>1 DEF Workers
    <3>4. \A u \in 1..pl : u # t => worker'[u] = worker[u]
      BY <1>b, <2>2
    <3>5. \A u \in 1..pl : worker'[u].deque = worker[u].deque
      BY <3>3, <3>4
    <3> HIDE DEF v, k
    <3>6. \A u \in 1..pl : /\ worker'[u].idle = worker[u].idle /\ worker'[u].out = worker[u].out
                           /\ worker'[u].at = worker[u].at
                           /\ worker'[u].deque \subseteq worker[u].deque
      BY <3>3, <3>4 DEF v
    <3>7. \A u \in 1..pl : u # t => worker'[u].pc = worker[u].pc /\ worker'[u].item = worker[u].item
      BY <3>4
    <3> HIDE DEF w
    <3> QED BY <3>2, <3>5, <3>6, <3>7
  <2> QED BY <2>1, <2>2 DEF Take, Set
<1> HIDE DEF w, v, k
<1>2. TypeOK'
  BY <1>a, <1>c, <1>1 DEF MarkInv, TypeOK, Rest
<1>3. OnePlace'
  <2>1. CASE /\ worker'[t].pc = "scan" /\ worker'[t].item = k /\ k \in worker[v].deque
             /\ \A u \in 1..pl : worker'[u].deque = IF u = v THEN worker[u].deque \ {k}
                                                            ELSE worker[u].deque
    <3>1. \A u \in 1..pl : k \notin worker'[u].deque
      BY <1>b, <1>d, <2>1 DEF OnePlace
    <3>2. \A u \in 1..pl : u # t /\ worker'[u].pc = "scan" => worker'[u].item # k
      BY <1>b, <1>d, <1>1, <2>1 DEF OnePlace
    <3> QED BY <1>b, <1>c, <1>1, <2>1, <3>1, <3>2 DEF OnePlace
  <2>2. CASE /\ worker'[t].pc = "pop"
             /\ \A u \in 1..pl : worker'[u].deque = worker[u].deque
    BY <1>b, <1>c, <1>1, <2>2 DEF OnePlace
  <2> QED BY <1>1, <2>1, <2>2
<1>4. SeenEmpty'
  <2>1. \A u \in 1..pl : worker[u].deque = {} => worker'[u].deque = {}
    BY <1>1
  <2>2. worker'[t].pc # "steal" /\ ~worker'[t].idle
    BY <1>b, <1>d, <1>1 DEF w
  <2>3. \A u \in 1..pl : u # t => /\ worker'[u].pc = worker[u].pc /\ worker'[u].at = worker[u].at
                                 /\ worker'[u].idle = worker[u].idle
    BY <1>1
  <2> QED BY <1>b, <1>c, <2>1, <2>2, <2>3 DEF SeenEmpty
<1>5. IdleCounted'
  <2>1. Idle' = Idle
    BY <1>a, <1>1, SameIdle
  <2>2. k \in worker[v].deque => k \in Sections(prog)
    BY <1>b, <1>d DEF Workers
  <2> QED BY <1>a, <1>b, <1>c, <1>1, <2>1, <2>2 DEF IdleCounted
<1>6. LevelInv'
  BY <1>b, <1>c, <1>3, <1>4, <1>5 DEF LevelInv
<1>7. Pending' = Pending
  <2>1. \A x : x \in Pending <=> \E u \in 1..pl : x \in Work(u)
    BY <1>b DEF Pending, Work
  <2>2. \A x : x \in Pending' <=> \E u \in 1..pl : x \in Work(u)'
    BY <1>b, <1>c DEF Pending, Work
  <2>3. \A u \in 1..pl : Work(u) = worker[u].deque
                                     \cup (IF worker[u].pc = "scan" THEN {worker[u].item} ELSE {})
    BY DEF Work, Held
  <2>4. \A u \in 1..pl : Work(u)' = worker'[u].deque
                                     \cup (IF worker'[u].pc = "scan" THEN {worker'[u].item} ELSE {})
    BY DEF Work, Held
  <2>5. ASSUME NEW x PROVE (\E u \in 1..pl : x \in Work(u)) <=> (\E u \in 1..pl : x \in Work(u)')
    <3>1. CASE /\ worker'[t].pc = "scan" /\ worker'[t].item = k /\ k \in worker[v].deque
               /\ \A u \in 1..pl : worker'[u].deque = IF u = v THEN worker[u].deque \ {k}
                                                              ELSE worker[u].deque
      <4>1. k \in Work(v) /\ k \in Work(t)'
        BY <1>b, <1>d, <2>3, <2>4, <3>1
      <4>2. \A u \in 1..pl : x # k => (x \in worker[u].deque <=> x \in worker'[u].deque)
        BY <3>1
      <4>3. x # k => (x \in Work(t) <=> x \in Work(t)')
        BY <1>a, <1>b, <2>3, <2>4, <3>1, <4>2 DEF w
      <4>4. \A u \in 1..pl : u # t /\ x # k => (x \in Work(u) <=> x \in Work(u)')
        BY <1>1, <2>3, <2>4, <4>2
      <4> QED BY <1>b, <1>d, <4>1, <4>3, <4>4
    <3>2. CASE /\ worker'[t].pc = "pop"
               /\ \A u \in 1..pl : worker'[u].deque = worker[u].deque
      BY <1>a, <1>b, <1>1, <2>3, <2>4, <3>2 DEF w
    <3> QED BY <1>1, <3>1, <3>2
  <2> QED BY <2>1, <2>2, <2>5
<1>8. Found' = Found
  BY <1>a, <1>b, <1>1, SameFound
<1> QED BY <1>a, <1>b, <1>2, <1>6, <1>7, <1>8, Quiet

(* The one step that scans: the item leaves the level and its targets are  *)
(* found.                                                                  *)
LEMMA ScanStep == ASSUME MarkInv, NEW t \in Threads, Scan(t) PROVE MarkInv'
<1> DEFINE w == worker[t]
           k == w.item
<1>a. /\ InLevel(t) /\ w.pc = "scan" /\ UNCHANGED <<Rest, candidates>>
      /\ scans' = Scanned(k)
      /\ idle_count' = IF w.idle THEN idle_count - 1 ELSE idle_count
  BY DEF Scan
<1>b. /\ phase = "level" /\ frontier = {} /\ pl \in Nat
      /\ t \in 1..pl /\ 1..pl \subseteq Threads /\ t \in Nat
      /\ worker \in [Threads -> Workers(prog)] /\ w \in Workers(prog)
      /\ OnePlace /\ SeenEmpty /\ IdleCounted
  BY <1>a, InLevelFacts
<1>c. phase' = phase /\ pl' = pl /\ frontier' = frontier /\ prog' = prog /\ live' = live
  BY <1>a DEF Rest
<1>d. k \in Sections(prog) /\ ~w.idle /\ idle_count' = idle_count
  BY <1>a, <1>b DEF IdleCounted, SeenEmpty
<1>e. prog \in Programs /\ Targets(prog, k) \subseteq AllTargets(prog)
  BY <1>d, Programs_WellFormed DEF MarkInv, TypeOK
<1>1. PICK v \in Workers(prog) :
        /\ worker' = [worker EXCEPT ![t] = v]
        /\ v.deque = w.deque /\ v.pc = "pop" /\ v.idle = FALSE
        /\ v.out = w.out \cup Targets(prog, k)
  <2>1. [w EXCEPT !.out = @ \cup Targets(prog, k), !.item = None, !.idle = FALSE, !.pc = "pop"]
          \in Workers(prog)
    BY <1>b, <1>e DEF Workers, Pcs
  <2> QED BY <1>b, <2>1 DEF Scan, Set, Workers
<1>2. /\ worker'[t] = v
      /\ \A u \in Threads : u # t => worker'[u] = worker[u]
      /\ worker' \in [Threads -> Workers(prog)]
  BY <1>1, <1>b
<1> HIDE DEF w, k
<1>3. /\ scans \in [Sections(prog) -> Nat] /\ scans' \in [Sections(prog) -> Nat]
      /\ \A x \in Sections(prog) : scans'[x] = IF x = k THEN scans[x] + 1 ELSE scans[x]
  BY <1>a, <1>d DEF Scanned, MarkInv, TypeOK
<1>4. TypeOK'
  BY <1>c, <1>2, <1>3 DEF MarkInv, TypeOK
<1>5. OnePlace'
  BY <1>b, <1>c, <1>1, <1>2 DEF OnePlace, w
<1>6. \A u \in 1..pl : worker'[u].deque = worker[u].deque /\ worker'[u].idle = worker[u].idle
  <2>1. w.idle = FALSE
    BY <1>b, <1>d DEF Workers
  <2> QED BY <1>b, <1>1, <1>2, <2>1 DEF w
<1>7. SeenEmpty'
  BY <1>b, <1>c, <1>1, <1>2, <1>6 DEF SeenEmpty
<1>8. IdleCounted'
  <2>1. Idle' = Idle
    BY <1>a, <1>6, SameIdle
  <2> QED BY <1>b, <1>c, <1>d, <1>1, <1>2, <1>6, <2>1 DEF IdleCounted
<1>9. LevelInv'
  BY <1>b, <1>c, <1>5, <1>7, <1>8 DEF LevelInv
<1>10. k \in Pending /\ Pending' = Pending \ {k}
  <2>1. \A x : x \in Pending <=> \E u \in 1..pl : x \in Work(u)
    BY <1>b DEF Pending, Work
  <2>2. \A x : x \in Pending' <=> \E u \in 1..pl : x \in Work(u)'
    BY <1>b, <1>c DEF Pending, Work
  <2>3. Work(t) = w.deque \cup {k} /\ Work(t)' = w.deque
    BY <1>a, <1>1, <1>2 DEF Work, Held, w, k
  <2>4. \A u \in 1..pl : u # t => Work(u)' = Work(u)
    BY <1>b, <1>2 DEF Work, Held
  <2>5. k \notin w.deque /\ \A u \in 1..pl : u # t => k \notin Work(u)
    BY <1>a, <1>b DEF OnePlace, Work, Held, w, k
  <2> QED BY <1>b, <2>1, <2>2, <2>3, <2>4, <2>5
<1>11. Found' = Found \cup Targets(prog, k)
  <2>1. \A x : x \in Found <=> x \in candidates \/ \E u \in 1..pl : x \in worker[u].out
    BY <1>b DEF Found
  <2>2. \A x : x \in Found' <=> x \in candidates \/ \E u \in 1..pl : x \in worker'[u].out
    BY <1>a, <1>b, <1>c DEF Found
  <2>3. worker'[t].out = worker[t].out \cup Targets(prog, k)
    BY <1>1, <1>2 DEF w
  <2> QED BY <1>b, <1>2, <2>1, <2>2, <2>3
<1>12. SeedInv'
  BY <1>b, <1>c DEF SeedInv
<1>13. k \in live
  BY <1>b, <1>10 DEF MarkInv, LiveInv, MarkPhases
<1>14. ScannedOnce'
  BY <1>b, <1>c, <1>3, <1>10, <1>13 DEF ScannedOnce, MarkInv
<1>15. LiveInv'
  <2>1. /\ Roots(prog) \subseteq live /\ live \subseteq prog.slots /\ Pending \subseteq live
        /\ \A x \in live \cap Sections(prog) :
             x \notin Pending => Targets(prog, x) \cap prog.slots \subseteq live \cup Found
        /\ \A S \in SUBSET prog.slots :
             Roots(prog) \subseteq S /\ Closed(S) =>
               live \subseteq S /\ Found \cap prog.slots \subseteq S
    BY <1>b DEF MarkInv, LiveInv, MarkPhases
  <2>2. \A x \in live \cap Sections(prog) :
          x \notin Pending' => Targets(prog, x) \cap prog.slots \subseteq live \cup Found'
    BY <1>10, <1>11, <2>1
  <2>3. ASSUME NEW S \in SUBSET prog.slots, Roots(prog) \subseteq S, Closed(S)
        PROVE  live \subseteq S /\ Found' \cap prog.slots \subseteq S
    <3>1. live \subseteq S /\ Found \cap prog.slots \subseteq S
      BY <2>1, <2>3
    <3>2. Targets(prog, k) \cap prog.slots \subseteq S
      BY <1>d, <1>13, <2>3, <3>1 DEF Closed
    <3> QED BY <1>11, <3>1, <3>2
  <2>4. \A S : Closed(S)' <=> Closed(S)
    BY <1>c DEF Closed
  <2> QED BY <1>b, <1>c, <1>10, <2>1, <2>2, <2>3, <2>4 DEF LiveInv
<1> QED BY <1>4, <1>9, <1>12, <1>14, <1>15 DEF MarkInv

LEMMA GoIdleStep == ASSUME MarkInv, NEW t \in Threads, GoIdle(t) PROVE MarkInv'
<1> DEFINE w == worker[t]
<1>a. /\ InLevel(t) /\ w.pc = "steal" /\ w.at > pl /\ UNCHANGED <<Rest, candidates, scans>>
      /\ idle_count' = IF w.idle THEN idle_count ELSE idle_count + 1
  BY DEF GoIdle
<1>b. /\ phase = "level" /\ frontier = {} /\ pl \in Nat
      /\ t \in 1..pl /\ 1..pl \subseteq Threads /\ t \in Nat
      /\ worker \in [Threads -> Workers(prog)] /\ w \in Workers(prog)
      /\ OnePlace /\ SeenEmpty /\ IdleCounted
  BY <1>a, InLevelFacts
<1>c. phase' = phase /\ pl' = pl /\ frontier' = frontier /\ prog' = prog /\ live' = live
  BY <1>a DEF Rest
<1>1. PICK v \in Workers(prog) :
        /\ worker' = [worker EXCEPT ![t] = v]
        /\ v.deque = w.deque /\ v.pc = "check" /\ v.idle = TRUE /\ v.out = w.out
  <2>1. [w EXCEPT !.idle = TRUE, !.pc = "check"] \in Workers(prog)
    BY <1>b DEF Workers, Pcs
  <2> QED BY <1>b, <2>1 DEF GoIdle, Set, Workers
<1>2. /\ worker'[t] = v
      /\ \A u \in Threads : u # t => worker'[u] = worker[u]
      /\ TypeOK'
  BY <1>1, <1>a, OneWorker
<1> HIDE DEF w
<1>3. \A u \in 1..pl : worker[u].deque = {} /\ worker'[u].deque = {}
  <2>1. w.at \in Nat
    BY <1>b DEF Workers
  <2>2. \A u \in 1..pl : worker[u].deque = {}
    BY <1>a, <1>b, <2>1 DEF SeenEmpty, w
  <2> QED BY <1>b, <1>1, <1>2, <2>2 DEF w
<1>4. OnePlace'
  BY <1>b, <1>c, <1>1, <1>2, <1>3 DEF OnePlace
<1>5. SeenEmpty'
  BY <1>b, <1>c, <1>1, <1>2, <1>3 DEF SeenEmpty
<1>6. Idle' = Idle \cup {t}
  BY <1>b, <1>c, <1>1, <1>2 DEF Idle
<1>7. IdleCounted'
  <2>1. IsFiniteSet(1..pl) /\ Idle \in SUBSET (1..pl)
    BY <1>b, FS_Interval DEF Idle
  <2>2. IsFiniteSet(Idle)
    BY <2>1, FS_Subset
  <2>3. Cardinality(Idle \cup {t}) = IF t \in Idle THEN Cardinality(Idle) ELSE Cardinality(Idle) + 1
    BY <2>2, FS_AddElement
  <2>4. t \in Idle <=> w.idle
    BY <1>b DEF Idle, w
  <2>5. idle_count' = Cardinality(Idle')
    BY <1>a, <1>b, <1>6, <2>3, <2>4 DEF IdleCounted
  <2>6. Idle = 1..pl => Idle' = 1..pl
    BY <1>b, <1>6
  <2> QED BY <1>b, <1>c, <1>1, <1>2, <2>5, <2>6 DEF IdleCounted
<1>8. LevelInv'
  BY <1>b, <1>c, <1>4, <1>5, <1>7 DEF LevelInv
<1>9. \A u \in 1..pl : Work(u)' = Work(u)
  BY <1>a, <1>b, <1>1, <1>2 DEF Work, Held, w
<1>10. \A u \in 1..pl : worker'[u].out = worker[u].out
  BY <1>b, <1>1, <1>2 DEF w
<1> QED BY <1>a, <1>b, <1>2, <1>8, <1>9, <1>10, SamePending, SameFound, Quiet

(* The counter has reached the number of workers: all of them are idle.    *)
LEMMA CheckIdleStep == ASSUME MarkInv, NEW t \in Threads, CheckIdle(t) PROVE MarkInv'
<1> DEFINE w == worker[t]
<1>a. InLevel(t) /\ w.pc = "check" /\ UNCHANGED <<Rest, idle_count, candidates, scans>>
  BY DEF CheckIdle
<1>b. /\ phase = "level" /\ frontier = {} /\ pl \in Nat
      /\ t \in 1..pl /\ 1..pl \subseteq Threads /\ t \in Nat
      /\ worker \in [Threads -> Workers(prog)] /\ w \in Workers(prog)
      /\ OnePlace /\ SeenEmpty /\ IdleCounted
  BY <1>a, InLevelFacts
<1>c. phase' = phase /\ pl' = pl /\ frontier' = frontier /\ prog' = prog /\ live' = live
  BY <1>a DEF Rest
<1>1. PICK v \in Workers(prog) :
        /\ worker' = [worker EXCEPT ![t] = v]
        /\ v.deque = w.deque /\ v.idle = w.idle /\ v.out = w.out
        /\ v.pc = "pop" \/ (v.pc = "exit" /\ idle_count >= pl)
  <2>1. [w EXCEPT !.pc = IF idle_count >= pl THEN "exit" ELSE "pop"] \in Workers(prog)
    BY <1>b DEF Workers, Pcs
  <2> QED BY <1>b, <2>1 DEF CheckIdle, Set, Workers
<1>2. /\ worker'[t] = v
      /\ \A u \in Threads : u # t => worker'[u] = worker[u]
      /\ TypeOK'
  BY <1>1, <1>a, OneWorker
<1> HIDE DEF w
<1>3. OnePlace'
  BY <1>b, <1>c, <1>1, <1>2 DEF OnePlace, w
<1>4. SeenEmpty'
  BY <1>b, <1>c, <1>1, <1>2 DEF SeenEmpty, w
<1>5. \A u \in 1..pl : worker'[u].idle = worker[u].idle /\ worker'[u].out = worker[u].out
  BY <1>b, <1>1, <1>2 DEF w
<1>6. IdleCounted'
  <2>1. IsFiniteSet(1..pl) /\ Cardinality(1..pl) = pl /\ Idle \in SUBSET (1..pl)
    BY <1>b, FS_Interval DEF Idle
  <2>2. /\ IsFiniteSet(Idle) /\ Cardinality(Idle) <= pl
        /\ Cardinality(1..pl) = Cardinality(Idle) => 1..pl = Idle
    BY <2>1, FS_Subset
  <2>3. Cardinality(Idle) \in Nat
    BY <2>2, FS_CardinalityType
  <2>4. v.pc = "exit" => Idle = 1..pl
    BY <1>b, <1>1, <2>1, <2>2, <2>3 DEF IdleCounted
  <2>5. Idle' = Idle
    BY <1>a, <1>5, SameIdle
  <2>6. w.idle
    BY <1>a, <1>b DEF IdleCounted, w
  <2> QED BY <1>a, <1>b, <1>c, <1>1, <1>2, <1>5, <2>4, <2>5, <2>6 DEF IdleCounted
<1>7. LevelInv'
  BY <1>b, <1>c, <1>3, <1>4, <1>6 DEF LevelInv
<1>8. \A u \in 1..pl : Work(u)' = Work(u)
  BY <1>a, <1>b, <1>1, <1>2 DEF Work, Held, w
<1> QED BY <1>a, <1>b, <1>2, <1>5, <1>7, <1>8, SamePending, SameFound, Quiet

LEMMA ExitStep == ASSUME MarkInv, NEW t \in Threads, Exit(t) PROVE MarkInv'
<1> DEFINE w == worker[t]
<1>a. /\ InLevel(t) /\ w.pc = "exit" /\ UNCHANGED <<Rest, idle_count, scans>>
      /\ candidates' = candidates \cup w.out
  BY DEF Exit
<1>b. /\ phase = "level" /\ frontier = {} /\ pl \in Nat
      /\ t \in 1..pl /\ 1..pl \subseteq Threads /\ t \in Nat
      /\ worker \in [Threads -> Workers(prog)] /\ w \in Workers(prog)
      /\ OnePlace /\ SeenEmpty /\ IdleCounted
  BY <1>a, InLevelFacts
<1>c. phase' = phase /\ pl' = pl /\ frontier' = frontier /\ prog' = prog /\ live' = live
  BY <1>a DEF Rest
<1>1. PICK v \in Workers(prog) :
        /\ worker' = [worker EXCEPT ![t] = v]
        /\ v.deque = w.deque /\ v.idle = w.idle /\ v.out = {} /\ v.pc = "joined"
  <2>1. [w EXCEPT !.out = {}, !.pc = "joined"] \in Workers(prog)
    BY <1>b DEF Workers, Pcs
  <2> QED BY <1>b, <2>1 DEF Exit, Set, Workers
<1>2. /\ worker'[t] = v
      /\ \A u \in Threads : u # t => worker'[u] = worker[u]
      /\ TypeOK'
  BY <1>1, <1>a, OneWorker
<1> HIDE DEF w
<1>3. OnePlace'
  BY <1>b, <1>c, <1>1, <1>2 DEF OnePlace, w
<1>4. SeenEmpty'
  BY <1>b, <1>c, <1>1, <1>2 DEF SeenEmpty, w
<1>5. IdleCounted'
  <2>1. \A u \in 1..pl : worker'[u].idle = worker[u].idle
    BY <1>b, <1>1, <1>2 DEF w
  <2>2. Idle' = Idle
    BY <1>a, <2>1, SameIdle
  <2>3. w.idle /\ Idle = 1..pl
    BY <1>a, <1>b DEF IdleCounted, w
  <2> QED BY <1>a, <1>b, <1>c, <1>1, <1>2, <2>2, <2>3 DEF IdleCounted
<1>6. LevelInv'
  BY <1>b, <1>c, <1>3, <1>4, <1>5 DEF LevelInv
<1>7. \A u \in 1..pl : Work(u)' = Work(u)
  BY <1>a, <1>b, <1>1, <1>2 DEF Work, Held, w
<1>8. Found' = Found
  <2>1. \A x : x \in Found <=> x \in candidates \/ \E u \in 1..pl : x \in worker[u].out
    BY <1>b DEF Found
  <2>2. \A x : x \in Found' <=> x \in candidates' \/ \E u \in 1..pl : x \in worker'[u].out
    BY <1>b, <1>c DEF Found
  <2> QED BY <1>a, <1>b, <1>1, <1>2, <2>1, <2>2 DEF w
<1> QED BY <1>a, <1>b, <1>2, <1>6, <1>7, <1>8, SamePending, Quiet
-----------------------------------------------------------------------------
(* A level has at least one worker and at most as many as there are        *)
(* threads.                                                                *)
LEMMA WidthInThreads ==
  ASSUME NEW m \in Nat, prog \in Programs
  PROVE  Width(m) \in Threads
<1>1. /\ MaxThreads \in Nat \ {0} /\ Grain \in Nat \ {0}
      /\ prog.threads \in 1..MaxThreads
  BY MarkAssumption DEF Threads
<1>2. PICK a, c : a = prog.threads /\ c = (m + Grain - 1) \div Grain
  OBVIOUS
<1>3. a \in Int /\ c \in Int /\ m \in Int /\ a <= MaxThreads
  BY <1>1, <1>2
<1>4. PICK z \in {a, m, c} : \A y \in {a, m, c} : z <= y
  BY <1>3
<1>5. Min({a, m, c}) \in {a, m, c} /\ \A y \in {a, m, c} : Min({a, m, c}) <= y
  BY <1>4 DEF Min
<1>6. PICK b : b = Min({a, m, c})
  OBVIOUS
<1>7. b \in Int /\ b <= MaxThreads
  BY <1>1, <1>3, <1>5, <1>6
<1>8. PICK t \in {1, b} : \A y \in {1, b} : t >= y
  BY <1>7
<1>9. Max({1, b}) \in {1, b} /\ \A y \in {1, b} : Max({1, b}) >= y
  BY <1>8 DEF Max
<1>10. Width(m) = Max({1, b})
  BY <1>2, <1>6 DEF Width
<1> QED BY <1>1, <1>7, <1>9, <1>10 DEF Threads

LEMMA Unchanged ==
  ASSUME MarkInv, UNCHANGED <<prog, live, frontier, pl, worker, idle_count, candidates, scans>>,
         phase \in MarkPhases \ {"level"}, phase' \in MarkPhases \ {"level"},
         phase' = "marked" => frontier = {}
  PROVE  MarkInv'
<1>1. TypeOK' /\ SeedInv' /\ LevelInv'
  BY DEF MarkInv, TypeOK, SeedInv, LevelInv, MarkPhases
<1>2. Pending' = Pending /\ Found' = Found
  BY DEF Pending, Found, MarkPhases
<1>3. \A S : Closed(S)' <=> Closed(S)
  BY DEF Closed
<1>4. LiveInv' /\ ScannedOnce'
  BY <1>2, <1>3 DEF MarkInv, LiveInv, ScannedOnce, MarkPhases
<1> QED BY <1>1, <1>4 DEF MarkInv

LEMMA SeedStep == ASSUME MarkInv, SeedRoots PROVE MarkInv'
<1> USE DEF SeedRoots
<1>1. prog \in Programs
  BY DEF MarkInv, TypeOK
<1>2. Roots(prog) \subseteq Sections(prog) /\ Roots(prog) \subseteq prog.slots
  BY <1>1, Programs_WellFormed
<1>3. TypeOK' /\ SeedInv' /\ LevelInv'
  BY <1>2 DEF MarkInv, TypeOK, SeedInv, LevelInv, MarkPhases
<1>4. Pending' = Roots(prog) /\ Found' = {} /\ live' = Roots(prog)
  BY DEF Pending, Found
<1>5. LiveInv'
  BY <1>2, <1>4 DEF LiveInv, MarkPhases
<1>6. ScannedOnce'
  BY <1>4 DEF ScannedOnce, MarkInv, SeedInv
<1> QED BY <1>3, <1>5, <1>6 DEF MarkInv

(* The sections dealt out are those of the frontier, each to one worker.   *)
LEMMA StartLevelStep == ASSUME MarkInv, StartLevel PROVE MarkInv'
<1>a. /\ phase = "run" /\ phase' = "level" /\ frontier' = {} /\ idle_count' = 0 /\ candidates' = {}
      /\ UNCHANGED <<prog, live, scans>>
  BY DEF StartLevel
<1>b. prog \in Programs /\ frontier \subseteq Sections(prog) /\ IsFiniteSet(Sections(prog))
  BY Programs_WellFormed DEF MarkInv, TypeOK
<1>c. Cardinality(frontier) \in Nat
  BY <1>b, FS_Subset, FS_CardinalityType
<1>1. PICK n, d : /\ n = Width(Cardinality(frontier)) /\ pl' = n /\ d \in Deals(n)
                  /\ worker' = [t \in Threads |-> NewWorker(IF t <= n THEN d[t] ELSE {})]
  BY DEF StartLevel
<1>2. n \in Threads /\ n \in Nat /\ 1..n \subseteq Threads
  <2>1. n \in Threads
    BY <1>1, <1>b, <1>c, WidthInThreads
  <2> QED BY <2>1, MarkAssumption DEF Threads
<1>3. /\ \A t \in 1..n : d[t] \subseteq frontier
      /\ \A t, u \in 1..n : t # u => d[t] \cap d[u] = {}
      /\ UNION {d[t] : t \in 1..n} = frontier
  BY <1>1 DEF Deals
<1>4. worker' \in [Threads -> Workers(prog)]
  <2>1. \A D \in SUBSET Sections(prog) : NewWorker(D) \in Workers(prog)
    BY DEF NewWorker, Workers, Pcs
  <2>2. \A t \in Threads : (IF t <= n THEN d[t] ELSE {}) \in SUBSET Sections(prog)
    BY <1>b, <1>2, <1>3, MarkAssumption DEF Threads
  <2> QED BY <1>1, <2>1, <2>2
<1>5. \A t \in 1..n : /\ worker'[t].pc = "pop" /\ worker'[t].deque = d[t]
                      /\ ~worker'[t].idle /\ worker'[t].out = {}
  BY <1>1, <1>2 DEF NewWorker
<1>6. TypeOK'
  BY <1>a, <1>1, <1>2, <1>4 DEF MarkInv, TypeOK, MarkPhases
<1>7. OnePlace' /\ SeenEmpty'
  BY <1>1, <1>3, <1>5 DEF OnePlace, SeenEmpty
<1>8. IdleCounted'
  <2>1. Idle' = {}
    BY <1>1, <1>5 DEF Idle
  <2> QED BY <1>a, <1>1, <1>5, <2>1, FS_EmptySet DEF IdleCounted
<1>9. LevelInv' /\ SeedInv'
  BY <1>a, <1>7, <1>8 DEF LevelInv, SeedInv
<1>10. Pending = frontier /\ Found = {}
  BY <1>a DEF Pending, Found
<1>11. Pending' = frontier
  <2>1. \A x : x \in Pending' <=> \E u \in 1..n : x \in Work(u)'
    BY <1>a, <1>1 DEF Pending, Work
  <2>2. \A u \in 1..n : Work(u)' = d[u]
    BY <1>5 DEF Work, Held
  <2> QED BY <1>3, <2>1, <2>2
<1>12. Found' = {}
  BY <1>a, <1>1, <1>5 DEF Found
<1>13. \A S : Closed(S)' <=> Closed(S)
  BY <1>a DEF Closed
<1>14. LiveInv'
  BY <1>a, <1>10, <1>11, <1>12, <1>13 DEF MarkInv, LiveInv, MarkPhases
<1>15. ScannedOnce'
  BY <1>a, <1>10, <1>11 DEF MarkInv, ScannedOnce
<1> QED BY <1>6, <1>9, <1>14, <1>15 DEF MarkInv

LEMMA DrainSerialStep == ASSUME MarkInv, DrainSerial PROVE MarkInv'
<1>a. phase = "serial" /\ UNCHANGED <<prog, pl, worker, idle_count, candidates>>
  BY DEF DrainSerial
<1>1. CASE frontier = {} /\ phase' = "run" /\ UNCHANGED <<live, frontier, scans>>
  BY <1>a, <1>1, Unchanged DEF MarkPhases
<1>2. CASE \E k \in frontier :
             /\ scans' = Scanned(k)
             /\ live' = NowLive(Targets(prog, k))
             /\ frontier' = (frontier \ {k}) \cup NewItems(Targets(prog, k))
             /\ UNCHANGED phase
  <2>1. PICK k \in frontier :
             /\ scans' = Scanned(k)
             /\ live' = NowLive(Targets(prog, k))
             /\ frontier' = (frontier \ {k}) \cup NewItems(Targets(prog, k))
             /\ UNCHANGED phase
    BY <1>2
  <2>2. /\ prog \in Programs /\ frontier \subseteq Sections(prog)
        /\ scans \in [Sections(prog) -> Nat]
        /\ Sections(prog) \subseteq prog.slots
    BY Programs_WellFormed DEF MarkInv, TypeOK, WellFormed
  <2>3. Pending = frontier /\ Found = {} /\ Pending' = frontier' /\ Found' = {}
    BY <1>a, <2>1 DEF Pending, Found
  <2>4. /\ Roots(prog) \subseteq live /\ live \subseteq prog.slots /\ frontier \subseteq live
        /\ \A x \in live \cap Sections(prog) :
             x \notin frontier => Targets(prog, x) \cap prog.slots \subseteq live
        /\ \A S \in SUBSET prog.slots : Roots(prog) \subseteq S /\ Closed(S) => live \subseteq S
    BY <1>a, <2>3 DEF MarkInv, LiveInv, MarkPhases
  <2>5. PICK T : T = Targets(prog, k)
    OBVIOUS
  <2>6. live' = live \cup (T \cap prog.slots)
    BY <2>1, <2>5 DEF NowLive
  <2>7. frontier' = (frontier \ {k}) \cup ((T \cap Sections(prog)) \ live)
    BY <2>1, <2>5 DEF NewItems
  <2>8. /\ scans' \in [Sections(prog) -> Nat]
        /\ \A x \in Sections(prog) : scans'[x] = IF x = k THEN scans[x] + 1 ELSE scans[x]
    BY <2>1, <2>2 DEF Scanned
  <2>9. TypeOK' /\ SeedInv' /\ LevelInv'
    BY <1>a, <2>1, <2>2, <2>7, <2>8 DEF MarkInv, TypeOK, SeedInv, LevelInv, MarkPhases
  <2>10. ScannedOnce'
    <3>1. \A x \in Sections(prog) : scans[x] = IF x \in live /\ x \notin frontier THEN 1 ELSE 0
      BY <1>a, <2>3 DEF MarkInv, ScannedOnce
    <3>2. \A x \in Sections(prog) : scans'[x] = IF x \in live' /\ x \notin frontier' THEN 1 ELSE 0
      BY <2>1, <2>2, <2>4, <2>6, <2>7, <2>8, <3>1
    <3> QED BY <1>a, <2>3, <3>2 DEF ScannedOnce
  <2>11. LiveInv'
    <3>1. Roots(prog) \subseteq live' /\ live' \subseteq prog.slots /\ frontier' \subseteq live'
      BY <2>2, <2>4, <2>6, <2>7
    <3>2. \A x \in live' \cap Sections(prog) :
            x \notin frontier' => Targets(prog, x) \cap prog.slots \subseteq live'
      BY <2>4, <2>5, <2>6, <2>7
    <3>3. ASSUME NEW S \in SUBSET prog.slots, Roots(prog) \subseteq S, Closed(S)
          PROVE  live' \subseteq S
      <4>1. live \subseteq S
        BY <2>4, <3>3
      <4>2. T \cap prog.slots \subseteq S
        BY <2>1, <2>2, <2>4, <2>5, <3>3, <4>1 DEF Closed
      <4> QED BY <2>6, <4>1, <4>2
    <3>4. \A S : Closed(S)' <=> Closed(S)
      BY <1>a DEF Closed
    <3> QED BY <1>a, <2>1, <2>3, <3>1, <3>2, <3>3, <3>4 DEF LiveInv, MarkPhases
  <2> QED BY <2>9, <2>10, <2>11 DEF MarkInv
<1> QED BY <1>1, <1>2 DEF DrainSerial

LEMMA EndLevelStep == ASSUME MarkInv, EndLevel PROVE MarkInv'
<1>a. /\ phase = "level" /\ phase' = "run" /\ candidates' = {}
      /\ \A t \in 1..pl : worker[t].pc = "joined"
      /\ UNCHANGED <<prog, pl, worker, idle_count, scans>>
      /\ live' = live \cup (candidates \cap prog.slots)
      /\ frontier' = (candidates \cap Sections(prog)) \ live
  BY DEF EndLevel, NowLive, NewItems
<1>b. frontier = {} /\ SeenEmpty /\ IdleCounted /\ pl \in Nat \ {0}
  BY <1>a, MarkAssumption DEF MarkInv, TypeOK, LevelInv, Threads
<1>c. Sections(prog) \subseteq prog.slots
  BY Programs_WellFormed DEF MarkInv, TypeOK, WellFormed
<1>1. \A t \in 1..pl : worker[t].deque = {} /\ Held(t) = {} /\ worker[t].out = {}
  BY <1>a, <1>b DEF SeenEmpty, IdleCounted, Held
<1>2. Pending = {} /\ Found = candidates
  BY <1>a, <1>b, <1>1 DEF Pending, Found
<1>3. Pending' = frontier' /\ Found' = {}
  BY <1>a DEF Pending, Found
<1>4. TypeOK' /\ SeedInv' /\ LevelInv'
  BY <1>a DEF MarkInv, TypeOK, SeedInv, LevelInv, MarkPhases
<1>5. /\ Roots(prog) \subseteq live /\ live \subseteq prog.slots
      /\ \A x \in live \cap Sections(prog) :
           Targets(prog, x) \cap prog.slots \subseteq live \cup candidates
      /\ \A S \in SUBSET prog.slots :
           Roots(prog) \subseteq S /\ Closed(S) =>
             live \subseteq S /\ candidates \cap prog.slots \subseteq S
  BY <1>a, <1>2 DEF MarkInv, LiveInv, MarkPhases
<1>6. ScannedOnce'
  BY <1>a, <1>c, <1>2, <1>3 DEF MarkInv, ScannedOnce
<1>7. LiveInv'
  <2>1. \A S : Closed(S)' <=> Closed(S)
    BY <1>a DEF Closed
  <2>2. Roots(prog) \subseteq live' /\ live' \subseteq prog.slots /\ frontier' \subseteq live'
    BY <1>a, <1>c, <1>5
  <2>3. \A x \in live' \cap Sections(prog) :
          x \notin frontier' => Targets(prog, x) \cap prog.slots \subseteq live'
    BY <1>a, <1>5
  <2>4. \A S \in SUBSET prog.slots : Roots(prog) \subseteq S /\ Closed(S) => live' \subseteq S
    BY <1>a, <1>5
  <2> QED BY <1>a, <1>3, <2>1, <2>2, <2>3, <2>4 DEF LiveInv
<1> QED BY <1>4, <1>6, <1>7 DEF MarkInv

LEMMA MarkInit_Inv == MarkInit => MarkInv
<1> SUFFICES ASSUME MarkInit PROVE MarkInv
  OBVIOUS
<1> USE DEF MarkInit
<1>1. NewWorker({}) \in Workers(prog)
  BY DEF NewWorker, Workers, Pcs
<1>2. 1 \in Threads
  BY MarkAssumption DEF Threads
<1>3. TypeOK
  BY <1>1, <1>2 DEF TypeOK, NoWorkers
<1> QED BY <1>3 DEF MarkInv, SeedInv, LevelInv, LiveInv, ScannedOnce, MarkPhases

LEMMA MarkNext_Inv == MarkInv /\ MarkNext => MarkInv'
<1> SUFFICES ASSUME MarkInv, MarkNext PROVE MarkInv'
  OBVIOUS
<1>1. CASE SeedRoots BY <1>1, SeedStep
<1>2. CASE StartSerial BY <1>2, Unchanged DEF StartSerial, MarkPhases
<1>3. CASE StartLevel BY <1>3, StartLevelStep
<1>4. CASE MarkDone BY <1>4, Unchanged DEF MarkDone, MarkPhases
<1>5. CASE DrainSerial BY <1>5, DrainSerialStep
<1>6. CASE EndLevel BY <1>6, EndLevelStep
<1>7. ASSUME NEW t \in Threads, WorkerStep(t) PROVE MarkInv'
  BY <1>7, PopStep, LookStep, TakeStep, ScanStep, GoIdleStep, CheckIdleStep, ExitStep
     DEF WorkerStep
<1> QED BY <1>1, <1>2, <1>3, <1>4, <1>5, <1>6, <1>7 DEF MarkNext, MainStep
-----------------------------------------------------------------------------
(* The passes after the mark.                                              *)

NothingKept == \A k \in Sections(prog) : ~prog.sec[k].keep

SelectInv ==
  /\ phase \in MarkPhases => prog.gc
  /\ phase \in AfterMark =>
       /\ ~prog.gc => live = Sections(prog) \ prog.excluded
       /\ prog.gc /\ NothingKept =>
            \A k \in live \cap Sections(prog) :
              Targets(prog, k) \cap prog.slots \subseteq live \cup prog.excluded
  /\ phase \in {"folded", "placed"} =>
       folds = IF prog.icf THEN ComputeFoldMap(prog) ELSE Empty
  /\ phase = "placed" =>
       LET aliased == {k \in DOMAIN folds : folds[k] \in placed}
       IN /\ placed = {k \in Sections(prog) : Contributes(k)}
          /\ address = [k \in placed \cup aliased |-> IF k \in aliased THEN folds[k] ELSE k]

Inv == MarkInv /\ SelectInv

LEMMA ClosedAtEnd ==
  ASSUME MarkInv, phase = "marked"
  PROVE  Pending = {} /\ Roots(prog) \subseteq live /\ Closed(live) /\ live \subseteq prog.slots
<1>1. Pending = {} /\ Found = {}
  BY DEF MarkInv, LiveInv, Pending, Found, MarkPhases
<1> QED BY <1>1 DEF MarkInv, LiveInv, MarkPhases, Closed

LEMMA AfterMark_MarkInv ==
  ASSUME MarkInv, phase' \in AfterMark,
         UNCHANGED <<prog, frontier, pl, worker, idle_count, candidates, scans>>
  PROVE  MarkInv'
<1>1. TypeOK'
  BY DEF MarkInv, TypeOK
<1> QED BY <1>1 DEF MarkInv, SeedInv, LevelInv, LiveInv, ScannedOnce, MarkPhases, AfterMark

LEMMA MarkPhaseStep ==
  ASSUME MarkInv, MarkNext
  PROVE  /\ prog' = prog
         /\ phase \in {"seed"} \cup MarkPhases
         /\ phase' \in MarkPhases
         /\ phase = "seed" => prog.gc
<1> USE DEF MarkPhases
<1>1. CASE MainStep
  BY <1>1 DEF MainStep, SeedRoots, StartSerial, StartLevel, MarkDone, DrainSerial, EndLevel
<1>2. ASSUME NEW t \in Threads, WorkerStep(t)
      PROVE  phase = "level" /\ UNCHANGED <<prog, phase>>
  BY <1>2 DEF WorkerStep, Pop, Look, Take, Scan, GoIdle, CheckIdle, Exit, InLevel, Rest
<1> QED BY <1>1, <1>2 DEF MarkNext

LEMMA ComputeLiveStep == ASSUME Inv, ComputeLive PROVE Inv'
<1>a. /\ phase' = "live"
      /\ UNCHANGED <<prog, frontier, pl, worker, idle_count, candidates, scans,
                   folds, placed, address>>
  BY DEF ComputeLive
<1>1. MarkInv'
  BY <1>a, AfterMark_MarkInv DEF Inv, AfterMark
<1>2. /\ ~prog.gc => live' = Sections(prog) \ prog.excluded
      /\ prog.gc /\ NothingKept =>
           \A k \in live' \cap Sections(prog) :
             Targets(prog, k) \cap prog.slots \subseteq live' \cup prog.excluded
  <2>1. CASE phase = "seed" /\ ~prog.gc /\ live' = Sections(prog) \ prog.excluded
    BY <2>1
  <2>2. CASE /\ phase = "marked"
             /\ live' = (live \cup {k \in Sections(prog) : prog.sec[k].alloc /\ prog.sec[k].keep})
                          \ prog.excluded
    <3>1. prog.gc
      BY <2>2 DEF Inv, SelectInv, MarkPhases
    <3>2. NothingKept => live' = live \ prog.excluded
      BY <2>2 DEF NothingKept
    <3>3. Closed(live)
      BY <2>2, ClosedAtEnd DEF Inv
    <3> QED BY <3>1, <3>2, <3>3 DEF Closed
  <2> QED BY <2>1, <2>2 DEF ComputeLive
<1>3. SelectInv'
  BY <1>a, <1>2 DEF SelectInv, NothingKept, MarkPhases, AfterMark
<1> QED BY <1>1, <1>3 DEF Inv

LEMMA FoldSectionsStep == ASSUME Inv, FoldSections PROVE Inv'
<1> USE DEF FoldSections
<1>1. MarkInv'
  BY AfterMark_MarkInv DEF Inv, AfterMark
<1>2. SelectInv'
  BY DEF Inv, SelectInv, NothingKept, MarkPhases, AfterMark
<1> QED BY <1>1, <1>2 DEF Inv

LEMMA PlaceSectionsStep == ASSUME Inv, PlaceSections PROVE Inv'
<1> USE DEF PlaceSections
<1>1. MarkInv'
  BY AfterMark_MarkInv DEF Inv, AfterMark
<1>2. placed' = {k \in Sections(prog) : Contributes(k)}'
  BY DEF Contributes, Anchored
<1>3. SelectInv'
  BY <1>2 DEF Inv, SelectInv, NothingKept, MarkPhases, AfterMark
<1> QED BY <1>1, <1>3 DEF Inv

LEMMA MarkStep == ASSUME Inv, Mark PROVE Inv'
<1>1. MarkInv'
  BY MarkNext_Inv DEF Inv, Mark
<1>2. /\ prog' = prog /\ phase' \in MarkPhases /\ phase \in {"seed"} \cup MarkPhases
      /\ phase = "seed" => prog.gc
  BY MarkPhaseStep DEF Inv, Mark
<1>3. SelectInv'
  BY <1>2 DEF Inv, SelectInv, MarkPhases, AfterMark
<1> QED BY <1>1, <1>3 DEF Inv

LEMMA Stutter == ASSUME Inv, UNCHANGED vars PROVE Inv'
<1> USE DEF vars, markvars
<1>1. Pending' = Pending /\ Found' = Found
  BY DEF Pending, Found, Held
<1>2. TypeOK' /\ SeedInv' /\ LevelInv'
  BY DEF Inv, MarkInv, TypeOK, SeedInv, LevelInv, OnePlace, SeenEmpty, IdleCounted, Idle
<1>3. LiveInv' /\ ScannedOnce'
  BY <1>1 DEF Inv, MarkInv, LiveInv, ScannedOnce, Closed
<1>4. SelectInv'
  BY DEF Inv, SelectInv, NothingKept, Contributes
<1> QED BY <1>2, <1>3, <1>4 DEF Inv, MarkInv

(* The inductive invariant of the selection of sections, the mark and what *)
(* follows it.                                                             *)
THEOREM SelectionInvariant == Spec => []Inv
<1>1. Init => Inv
  <2> SUFFICES ASSUME Init PROVE Inv
    OBVIOUS
  <2>1. MarkInv
    BY MarkInit_Inv DEF Init
  <2>2. SelectInv
    BY DEF Init, MarkInit, SelectInv, MarkPhases, AfterMark
  <2> QED BY <2>1, <2>2 DEF Inv
<1>2. Inv /\ [Next]_vars => Inv'
  BY MarkStep, ComputeLiveStep, FoldSectionsStep, PlaceSectionsStep, Stutter DEF Next
<1> QED BY <1>1, <1>2, PTL DEF Spec

LEMMA Inv_MarkExact == Inv => MarkExact
<1> SUFFICES ASSUME Inv PROVE MarkExact
  OBVIOUS
<1>1. LiveIsReachable
  BY ClosedAtEnd DEF Inv, MarkInv, LiveInv, LiveIsReachable, MarkPhases
<1>2. LeavesWhenIdle
  <2> SUFFICES ASSUME phase = "level", NEW t \in 1..pl, worker[t].pc \in {"exit", "joined"}
               PROVE  Pending = {}
    BY DEF LeavesWhenIdle
  <2>1. frontier = {} /\ SeenEmpty /\ IdleCounted
    BY DEF Inv, MarkInv, LevelInv
  <2>2. \A u \in 1..pl : worker[u].idle
    BY <2>1 DEF IdleCounted, Idle
  <2>3. \A u \in 1..pl : worker[u].deque = {} /\ worker[u].pc # "scan"
    BY <2>1, <2>2 DEF SeenEmpty
  <2> QED BY <2>1, <2>3 DEF Pending, Held
<1> QED BY <1>1, <1>2 DEF MarkExact, Inv, MarkInv

(* --gc-sections keeps exactly what the roots reach over relocations,      *)
(* scans each section once, and no worker leaves a level while there is    *)
(* work in it (GcTraversal::run, drain_serial_stack,                       *)
(* collect_parallel_level), for every graph and any number of threads.     *)
THEOREM MarkIsExact == Spec => []MarkExact
BY SelectionInvariant, Inv_MarkExact, PTL
-----------------------------------------------------------------------------
(* Folding.                                                                *)

LEMMA LeastNat ==
  ASSUME NEW T \in SUBSET Nat, T # {}
  PROVE  \E x \in T : \A y \in T : ~(y < x)
<1>1. \E x \in T : \A y \in T : ~(<<y, x>> \in OpToRel(<, Nat))
  BY NatLessThanWellFounded, WFMin
<1> QED BY <1>1 DEF OpToRel

LEMMA FirstKey ==
  ASSUME NEW S \in SUBSET (Nat \X Nat), S # {}
  PROVE  \E c \in S : \A j \in S : ~Before(j, c)
<1>1. PICK a \in {x[1] : x \in S} : \A y \in {x[1] : x \in S} : ~(y < a)
  <2>1. {x[1] : x \in S} \in SUBSET Nat /\ {x[1] : x \in S} # {}
    OBVIOUS
  <2> QED BY <2>1, LeastNat
<1>2. PICK x \in S : x[1] = a
  BY <1>1
<1>3. {n \in Nat : <<a, n>> \in S} \in SUBSET Nat /\ {n \in Nat : <<a, n>> \in S} # {}
  BY <1>2
<1>4. PICK b \in {n \in Nat : <<a, n>> \in S} : \A y \in {n \in Nat : <<a, n>> \in S} : ~(y < b)
  BY <1>3, LeastNat
<1>5. \A j \in S : ~Before(j, <<a, b>>)
  <2> SUFFICES ASSUME NEW j \in S, Before(j, <<a, b>>) PROVE FALSE
    OBVIOUS
  <2>1. ~(j[1] < a)
    BY <1>1
  <2>2. j = <<j[1], j[2]>> /\ j[2] \in Nat
    OBVIOUS
  <2>3. j[1] = a /\ j[2] < b
    BY <2>1 DEF Before
  <2> QED BY <1>4, <2>2, <2>3
<1> QED BY <1>4, <1>5

(* The copy a section is folded onto can be folded itself, has the same    *)
(* key, and is its own.                                                    *)
LEMMA CanonicalCopy ==
  ASSUME NEW p \in Programs, NEW k \in Foldable(p)
  PROVE  /\ Canonical(p, k) \in Foldable(p)
         /\ FoldKey(p, Canonical(p, k)) = FoldKey(p, k)
         /\ Canonical(p, Canonical(p, k)) = Canonical(p, k)
<1> DEFINE same == {j \in Foldable(p) : FoldKey(p, j) = FoldKey(p, k)}
<1>1. Foldable(p) \subseteq Sections(p)
  BY DEF Foldable
<1>2. Sections(p) \subseteq Nat \X Nat
  BY Programs_WellFormed DEF WellFormed
<1>3. same \in SUBSET (Nat \X Nat) /\ same # {}
  BY <1>1, <1>2
<1>4. Canonical(p, k) = CHOOSE c \in same : \A j \in same : ~Before(j, c)
  BY DEF Canonical
<1> HIDE DEF same
<1>5. Canonical(p, k) \in same
  BY <1>3, <1>4, FirstKey
<1>6. Canonical(p, k) \in Foldable(p) /\ FoldKey(p, Canonical(p, k)) = FoldKey(p, k)
  BY <1>5 DEF same
<1>7. PICK c : c = Canonical(p, k)
  OBVIOUS
<1>8. {j \in Foldable(p) : FoldKey(p, j) = FoldKey(p, c)} = same
  BY <1>6, <1>7 DEF same
<1>9. Canonical(p, c) = CHOOSE x \in same : \A j \in same : ~Before(j, x)
  BY <1>8 DEF Canonical
<1> QED BY <1>4, <1>6, <1>7, <1>9

(* What the fold map says of a folded section.                             *)
LEMMA FoldFacts ==
  ASSUME Inv, phase = "placed", NEW k \in DOMAIN folds
  PROVE  /\ prog.icf /\ k \in Foldable(prog) /\ folds[k] = Canonical(prog, k)
         /\ folds[k] \in Foldable(prog) /\ FoldKey(prog, folds[k]) = FoldKey(prog, k)
         /\ folds[k] \notin DOMAIN folds
         /\ prog.sec[folds[k]].body = prog.sec[k].body
<1>1. prog \in Programs /\ folds = IF prog.icf THEN ComputeFoldMap(prog) ELSE Empty
  BY DEF Inv, MarkInv, TypeOK, SelectInv
<1>2. prog.icf /\ folds = ComputeFoldMap(prog)
  BY <1>1 DEF Empty
<1>3. /\ \A j \in DOMAIN folds : /\ j \in Foldable(prog) /\ Canonical(prog, j) # j
                                 /\ prog.sec[Canonical(prog, j)].body = prog.sec[j].body
                                 /\ folds[j] = Canonical(prog, j)
  BY <1>2 DEF ComputeFoldMap
<1>4. /\ Canonical(prog, k) \in Foldable(prog)
      /\ FoldKey(prog, Canonical(prog, k)) = FoldKey(prog, k)
      /\ Canonical(prog, Canonical(prog, k)) = Canonical(prog, k)
  BY <1>1, <1>3, CanonicalCopy
<1> QED BY <1>2, <1>3, <1>4

LEMMA AddressFacts ==
  ASSUME Inv, phase = "placed"
  PROVE  /\ placed = {k \in Sections(prog) : Contributes(k)}
         /\ DOMAIN address \subseteq Sections(prog)
         /\ \A k \in placed : k \in DOMAIN address
         /\ \A k \in DOMAIN folds : folds[k] \in placed => k \in DOMAIN address
         /\ \A k \in DOMAIN address : k \notin DOMAIN folds => address[k] = k
<1> DEFINE aliased == {k \in DOMAIN folds : folds[k] \in placed}
<1>1. /\ placed = {k \in Sections(prog) : Contributes(k)}
      /\ address = [k \in placed \cup aliased |-> IF k \in aliased THEN folds[k] ELSE k]
  BY DEF Inv, SelectInv
<1>2. DOMAIN folds \subseteq Sections(prog)
  BY FoldFacts DEF Foldable
<1> QED BY <1>1, <1>2

(* A relocation's symbol is in the object's table, and where it points     *)
(* some symbol is defined.                                                 *)
LEMMA TargetDefined ==
  ASSUME NEW p \in Programs, NEW k \in Sections(p), NEW r \in p.sec[k].relocs,
         Target(p, r.sym) # None
  PROVE  /\ r.sym # None /\ r.sym \in p.syms
         /\ r.sym.binding = "Local" => Target(p, r.sym) = r.sym.section
         /\ r.sym.binding # "Local" =>
              /\ r.sym.name # NoName /\ Target(p, r.sym) = p.table[r.sym.name]
              /\ \E d \in p.syms : d.name = r.sym.name /\ d.section = Target(p, r.sym)
         /\ Anchored(p, Target(p, r.sym))
<1>1. WellFormed(p)
  BY Programs_WellFormed
<1>2. r.sym # None /\ r.sym \in p.syms
  BY <1>1 DEF WellFormed, IsReloc, Target
<1>3. r.sym.binding = "Local" => Target(p, r.sym) = r.sym.section
  BY <1>2 DEF Target
<1>4. r.sym.binding # "Local" =>
        /\ r.sym.name # NoName /\ Target(p, r.sym) = p.table[r.sym.name]
        /\ \E d \in p.syms : d.name = r.sym.name /\ d.section = Target(p, r.sym)
  BY <1>1, <1>2 DEF Target, WellFormed
<1> QED BY <1>2, <1>3, <1>4 DEF Anchored

LEMMA Inv_ReferencesPlaced == Inv => ReferencesPlaced
<1> SUFFICES ASSUME Inv, phase = "placed", Conditions, NEW x \in References,
                    Target(prog, x[2].sym) \in Sections(prog),
                    prog.sec[Target(prog, x[2].sym)].alloc
             PROVE  Placed(Target(prog, x[2].sym)) \/ Target(prog, x[2].sym) \in prog.excluded
  BY DEF ReferencesPlaced
<1>1. PICK k, r, t : k = x[1] /\ r = x[2] /\ t = Target(prog, r.sym)
  OBVIOUS
<1>2. k \in placed /\ r \in prog.sec[k].relocs
  BY <1>1 DEF References
<1>3. placed = {j \in Sections(prog) : Contributes(j)}
  BY AddressFacts
<1>4. prog \in Programs /\ WellFormed(prog)
  BY Programs_WellFormed DEF Inv, MarkInv, TypeOK
<1>5. k \in Sections(prog) /\ k \in live
  BY <1>2, <1>3 DEF Contributes
<1>6. t \in Sections(prog) /\ prog.sec[t].alloc /\ t \in prog.slots /\ t # None
  BY <1>1, <1>4 DEF WellFormed
<1>7. t \in Targets(prog, k)
  BY <1>1, <1>2, <1>6 DEF Targets
<1>8. Anchored(prog, t)
  BY <1>1, <1>2, <1>4, <1>5, <1>6, TargetDefined
<1>9. t \in live \/ t \in prog.excluded
  <2>1. CASE prog.gc
    BY <2>1, <1>5, <1>6, <1>7 DEF Inv, SelectInv, Conditions, NothingKept, AfterMark
  <2>2. CASE ~prog.gc
    BY <2>2, <1>6 DEF Inv, SelectInv, AfterMark
  <2> QED BY <2>1, <2>2
<1>10. ASSUME t \in live, t \notin DOMAIN folds PROVE t \in placed
  BY <1>3, <1>6, <1>8, <1>10 DEF Contributes
<1>11. ASSUME t \in DOMAIN folds PROVE folds[t] \in placed
  <2>1. PICK c : c = folds[t]
    OBVIOUS
  <2>2. /\ prog.icf /\ c \in Foldable(prog) /\ FoldKey(prog, c) = FoldKey(prog, t)
        /\ c \notin DOMAIN folds
    BY <1>11, <2>1, FoldFacts
  <2>3. live = Sections(prog)
    BY <2>2 DEF Inv, SelectInv, Conditions, AfterMark
  <2>4. c \in Sections(prog) /\ ~prog.sec[c].empty
    BY <2>2 DEF Foldable
  <2>5. prog.sec[c].alloc
    BY <1>6, <2>2 DEF FoldKey
  <2> QED BY <1>3, <2>1, <2>2, <2>3, <2>4, <2>5 DEF Contributes
<1>12. t \in live => t \in DOMAIN address
  BY <1>10, <1>11, AddressFacts
<1> QED BY <1>1, <1>9, <1>12 DEF Placed

LEMMA Inv_MergesAreSound == Inv => MergesAreSound
<1> SUFFICES ASSUME Inv, GlobalReferences, phase = "placed", NEW k \in DOMAIN folds
             PROVE  SameMeaning(k, folds[k])
  BY DEF MergesAreSound, NoUnsoundMerge
<1>1. PICK c : c = folds[k]
  OBVIOUS
<1>2. /\ k \in Foldable(prog) /\ c \in Foldable(prog) /\ FoldKey(prog, c) = FoldKey(prog, k)
      /\ prog.sec[c].body = prog.sec[k].body
  BY <1>1, FoldFacts
<1>3. WellFormed(prog)
  BY Programs_WellFormed DEF Inv, MarkInv, TypeOK
<1>4. ASSUME NEW r \in prog.sec[k].relocs
      PROVE  \E s \in prog.sec[c].relocs :
               /\ [r EXCEPT !.sym = None] = [s EXCEPT !.sym = None]
               /\ Target(prog, r.sym) = Target(prog, s.sym)
  <2> DEFINE Key(x) == [off |-> x.off, call |-> x.call, addend |-> x.addend, name |-> x.sym.name]
  <2>1. {Key(x) : x \in prog.sec[k].relocs} = {Key(x) : x \in prog.sec[c].relocs}
    BY <1>2 DEF FoldKey
  <2> HIDE DEF Key
  <2>2. PICK s \in prog.sec[c].relocs : Key(s) = Key(r)
    BY <2>1
  <2>3. s.off = r.off /\ s.call = r.call /\ s.addend = r.addend /\ s.sym.name = r.sym.name
    BY <2>2 DEF Key
  <2>4. k \in Sections(prog) /\ c \in Sections(prog) /\ prog.sec[k].text /\ prog.sec[c].text
        /\ r.sym # None /\ s.sym # None
    BY <1>2 DEF Foldable
  <2>5. /\ r = [off |-> r.off, call |-> r.call, addend |-> r.addend, sym |-> r.sym]
        /\ s = [off |-> s.off, call |-> s.call, addend |-> s.addend, sym |-> s.sym]
    BY <1>3, <2>4 DEF WellFormed, IsReloc
  <2>6. [r EXCEPT !.sym = None] = [s EXCEPT !.sym = None]
    BY <2>3, <2>5
  <2>7. r.sym.binding # "Local" /\ s.sym.binding # "Local"
    BY <2>4 DEF GlobalReferences
  <2>8. Target(prog, r.sym) = Target(prog, s.sym)
    BY <2>3, <2>4, <2>7 DEF Target
  <2> QED BY <2>6, <2>8
<1> QED BY <1>1, <1>2, <1>4 DEF SameMeaning

(* A section whose address the program takes is not folded.                *)
LEMMA AddressTakenNotFolded ==
  ASSUME Inv, phase = "placed", NEW x \in References, ~x[2].call,
         Placed(Target(prog, x[2].sym))
  PROVE  Target(prog, x[2].sym) \notin DOMAIN folds
<1>1. PICK k, r, t : k = x[1] /\ r = x[2] /\ t = Target(prog, r.sym)
  OBVIOUS
<1>2. k \in Sections(prog) /\ r \in prog.sec[k].relocs /\ r \in Relocs(prog)
  BY <1>1, AddressFacts DEF References
<1>3. prog \in Programs /\ WellFormed(prog)
  BY Programs_WellFormed DEF Inv, MarkInv, TypeOK
<1>4. t \in Sections(prog) /\ t # None
  BY <1>1, <1>3, AddressFacts DEF Placed, WellFormed
<1>5. /\ r.sym # None /\ r.sym \in prog.syms
      /\ r.sym.binding = "Local" => t = r.sym.section
      /\ r.sym.binding # "Local" =>
           r.sym.name # NoName /\ \E d \in prog.syms : d.name = r.sym.name /\ d.section = t
  BY <1>1, <1>2, <1>3, <1>4, TargetDefined
<1>6. r.sym \in AddressTaken(prog)
  BY <1>1, <1>2, <1>5 DEF AddressTaken
<1>7. DefinesAddressSignificant(prog, t)
  <2>1. CASE r.sym.name = NoName
    <3>1. t \in BySection(prog)
      BY <2>1, <1>5, <1>6 DEF BySection
    <3> QED BY <3>1 DEF DefinesAddressSignificant
  <2>2. CASE r.sym.name # NoName
    <3>1. r.sym.name \in ByName(prog)
      BY <2>2, <1>6 DEF ByName
    <3>2. PICK d \in prog.syms : d.name = r.sym.name /\ d.section = t
      BY <1>5
    <3> QED BY <2>2, <3>1, <3>2 DEF DefinesAddressSignificant
  <2> QED BY <2>1, <2>2
<1>8. t \notin Foldable(prog)
  BY <1>7 DEF Foldable
<1> QED BY <1>1, <1>8, FoldFacts

LEMMA Inv_FunctionPointersDistinct == Inv => FunctionPointersDistinct
<1> SUFFICES ASSUME Inv, phase = "placed", NEW x \in References, NEW y \in References,
                    ~x[2].call, ~y[2].call, Target(prog, x[2].sym) # Target(prog, y[2].sym),
                    Placed(Target(prog, x[2].sym)), Placed(Target(prog, y[2].sym))
             PROVE  address[Target(prog, x[2].sym)] # address[Target(prog, y[2].sym)]
  BY DEF FunctionPointersDistinct
<1> QED BY AddressTakenNotFolded, AddressFacts DEF Placed

(* apply_reloc may drop a relocation whose target has no address: under    *)
(* the named conditions only what was discarded or is never loaded has     *)
(* none (compute_live, compute_layout_icf), for every program.             *)
THEOREM ReferencesArePlaced == Spec => []ReferencesPlaced
BY SelectionInvariant, Inv_ReferencesPlaced, PTL

(* --icf merges only sections that do the same, and none whose address the *)
(* program takes (compute_fold_map, defines_address_significant), for      *)
(* every program.                                                          *)
THEOREM FoldingIsSound == Spec => []FoldingSound
<1>1. Inv => FoldingSound
  BY Inv_MergesAreSound, Inv_FunctionPointersDistinct DEF FoldingSound
<1> QED BY <1>1, SelectionInvariant, PTL
=============================================================================
