----------------------------- MODULE JobsProofs ----------------------------
(***************************************************************************)
(* For any number of jobs and sessions on any stems, any widths and        *)
(* capacities, with processes that die with all they started, without      *)
(* their forked workers, or as keepers without the stage they keep:        *)
(*   - no two own one stem: an owner is the holder of its stem's lock, and *)
(*     the lock has one holder (a stage whose keeper died owns nothing);   *)
(*   - a phase, or what is left of it, has exactly the slots it asked for: *)
(*     while an actor scans, what it holds of the resource in progress is  *)
(*     counted by got and lies behind at, and of the resources before it   *)
(*     is complete.                                                        *)
(***************************************************************************)
EXTENDS Jobs, FiniteSetTheorems, TLAPS

Places == {"queued", "stage", "phase", "scan", "work", "workers", "end"}

StemLocked == /\ stem \in [Stems -> Actors \cup {None}]
              /\ pc \in [Actors -> Places]
              /\ \A p \in Actors : Owner(p) => stem[StemOf[p]] = p

LEMMA StemLockedInit == Init => StemLocked
  BY DEF Init, StemLocked, Owner, Running, Places

\* A step that leaves the stems' locks alone makes no owner.
LEMMA StemSame ==
  ASSUME StemLocked, stem' = stem, pc' \in [Actors -> Places],
         \A q \in Actors : Owner(q)' => Owner(q)
  PROVE  StemLocked'
  BY DEF StemLocked

\* Nor does one that closes the descriptor of an actor that is no owner then.
LEMMA StemFreed ==
  ASSUME StemLocked, NEW p \in Actors, Unlock(p), pc' \in [Actors -> Places],
         \A q \in Actors : Owner(q)' => Owner(q) /\ q # p
  PROVE  StemLocked'
<1>1. stem' \in [Stems -> Actors \cup {None}]
  BY DEF StemLocked, Unlock
<1>2. ASSUME NEW q \in Actors, Owner(q)' PROVE stem'[StemOf[q]] = q
  <2>1. stem[StemOf[q]] = q /\ q # p /\ StemOf[q] \in Stems
    BY <1>2 DEF StemLocked, Stems
  <2> QED
    BY <2>1 DEF Unlock
<1> QED
  BY <1>1, <1>2 DEF StemLocked

LEMMA StemLockedStep == StemLocked /\ [Next]_vars => StemLocked'
<1> SUFFICES ASSUME StemLocked, [Next]_vars PROVE StemLocked'
  OBVIOUS
<1> USE DEF Owner, Running, Places
<1>0. /\ None \notin Actors /\ \A p \in Actors : StemOf[p] \in Stems
      /\ Jobs \subseteq Actors /\ Sessions \cap Jobs = {}
      /\ pc \in [Actors -> Places] /\ DOMAIN pc = Actors
  BY JobsAssumption DEF Stems, StemLocked, Actors
<1>1. ASSUME NEW p \in Actors, Start(p) PROVE StemLocked'
  <2>1. CASE stem[StemOf[p]] = None
    BY <1>0, <1>1, <2>1 DEF Start, StemLocked
  <2>2. CASE stem[StemOf[p]] # None
    BY <1>0, <1>1, <2>2, StemSame DEF Start
  <2> QED
    BY <2>1, <2>2
<1>2. ASSUME NEW p \in Actors, Enter(p) PROVE StemLocked'
  BY <1>0, <1>2, StemSame DEF Enter
<1>3. ASSUME NEW p \in Actors, Reserve(p) PROVE StemLocked'
  BY <1>0, <1>3, StemSame DEF Reserve
<1>4. ASSUME NEW p \in Actors, Try(p) PROVE StemLocked'
  <2>1. /\ pc[p] = "scan" /\ stem' = stem /\ alone' = alone
        /\ pc' = pc \/ pc' = [pc EXCEPT ![p] = "work"]
    BY <1>4 DEF Try
  <2> QED
    BY <1>0, <2>1, StemSame
<1>5. ASSUME NEW p \in Actors, GiveUp(p) PROVE StemLocked'
  BY <1>0, <1>5, StemSame DEF GiveUp
<1>6. ASSUME NEW p \in Actors, Finish(p) PROVE StemLocked'
  BY <1>0, <1>6, StemSame DEF Finish
<1>7. ASSUME NEW p \in Actors, End(p), Unlock(p), alone' = alone PROVE StemLocked'
  BY <1>0, <1>7, StemFreed DEF End
<1>8. ASSUME NEW p \in Actors, Leave(p) PROVE StemLocked'
  <2>1. pc[p] = "phase" /\ alone' = alone
    BY <1>8 DEF Leave
  <2>2. CASE stage[p] < LastStage(p) /\ p \notin alone
    <3>1. pc' = [pc EXCEPT ![p] = "stage"] /\ stem' = stem
      BY <1>8, <2>2 DEF Leave
    <3> QED
      BY <1>0, <2>1, <3>1, StemSame
  <2>3. CASE ~(stage[p] < LastStage(p) /\ p \notin alone)
    BY <1>7, <1>8, <2>1, <2>3 DEF Leave
  <2> QED
    BY <2>2, <2>3
<1>9. ASSUME NEW p \in Actors, Fail(p) PROVE StemLocked'
  BY <1>7, <1>9 DEF Fail
<1>10. ASSUME NEW p \in Actors, Killed(p) PROVE StemLocked'
  <2>1. /\ pc[p] = "work" /\ pc' = [pc EXCEPT ![p] = "workers"] /\ alone' = alone
    BY <1>10 DEF Killed
  <2>2. CASE p \in Jobs
    BY <1>0, <1>10, <2>1, <2>2, StemFreed DEF Killed
  <2>3. CASE p \notin Jobs
    BY <1>0, <1>10, <2>1, <2>3, StemSame DEF Killed
  <2> QED
    BY <2>2, <2>3
<1>11. ASSUME NEW p \in Actors, WorkersEnd(p) PROVE StemLocked'
  BY <1>7, <1>11 DEF WorkersEnd
<1>12. ASSUME NEW p \in Actors, WrapperDies(p) PROVE StemLocked'
  BY <1>0, <1>12, StemFreed DEF WrapperDies
\* Nobody among the runner's jobs is an owner any more.
<1>13. ASSUME RunnerDies PROVE StemLocked'
  <2>1. pc' \in [Actors -> Places]
    BY <1>0, <1>13 DEF RunnerDies
  <2>2. stem' \in [Stems -> Actors \cup {None}]
    BY <1>13 DEF RunnerDies, StemLocked
  <2>3. ASSUME NEW q \in Jobs PROVE ~Owner(q)'
    BY <1>0, <1>13 DEF RunnerDies, Inside
  <2>4. ASSUME NEW q \in Actors, Owner(q)' PROVE stem'[StemOf[q]] = q
    <3>1. q \notin Jobs
      BY <2>3, <2>4
    <3>2. pc'[q] = pc[q] /\ alone \subseteq alone'
      BY <1>0, <1>13, <3>1 DEF RunnerDies
    <3>3. Owner(q)
      BY <2>4, <3>2
    <3>4. stem[StemOf[q]] = q
      BY <3>3 DEF StemLocked
    <3> QED
      BY <1>0, <1>13, <3>1, <3>4 DEF RunnerDies
  <2> QED
    BY <2>1, <2>2, <2>4 DEF StemLocked
<1>14. CASE UNCHANGED vars
  BY <1>0, <1>14, StemSame DEF vars
<1> QED
  BY <1>1, <1>2, <1>3, <1>4, <1>5, <1>6, <1>8, <1>9, <1>10, <1>11, <1>12,
     <1>13, <1>14 DEF Next, Step

\* No two jobs or sessions own a stem at the same time, between the stages
\* of a job as well as in them, and while the workers of a killed stage last; a
\* stage whose keeper was killed alone is no owner: it works without a lock.
THEOREM StemsExclusive == Spec => []OneOwner
<1>1. StemLocked => OneOwner
  BY DEF StemLocked, OneOwner
<1> QED
  BY <1>1, StemLockedInit, StemLockedStep, PTL DEF Spec
----------------------------------------------------------------------------
(* The slots: one by one, and all back when one is missing *)

\* What a stage asks for in one phase: positive counts of different resources.
WellAsked(w) ==
  /\ Len(w) \in Nat \ {0}
  /\ \A i \in 1 .. Len(w) : w[i].resource \in Resources /\ w[i].count \in Nat \ {0}
  /\ \A i, j \in 1 .. Len(w) : w[i].resource = w[j].resource => i = j

\* Holds exactly what the first n asks of its phase want.
HoldsFirst(p, n) ==
  /\ \A i \in 1 .. n :
       Cardinality(Held(p, Wanted(p)[i].resource)) = Wanted(p)[i].count
  /\ \A r \in Resources :
       (\A i \in 1 .. n : Wanted(p)[i].resource # r) => Held(p, r) = {}

\* The slots of the ask in progress, all behind the next one to try.
HoldsPart(p) ==
  LET r == Request(p).resource
  IN  /\ at[p] \in Nat /\ got[p] \in 0 .. Request(p).count - 1
      /\ Cardinality(Held(p, r)) = got[p]
      /\ \A s \in Held(p, r) : s < at[p]
      /\ \A i \in 1 .. ask[p] - 1 :
           Cardinality(Held(p, Wanted(p)[i].resource)) = Wanted(p)[i].count
      /\ \A o \in Resources :
           (\A i \in 1 .. ask[p] : Wanted(p)[i].resource # o) => Held(p, o) = {}

InPhase(p) == phase[p] <= Len(Phases(p, StageName(p, stage[p])))

Grants(p) ==
  /\ phase[p] \in Nat \ {0}
  /\ pc[p] \in {"scan", "work", "workers"} => InPhase(p)
  /\ pc[p] = "scan" => ask[p] \in 1 .. Len(Wanted(p)) /\ HoldsPart(p)
  /\ pc[p] \in {"work", "workers"} => HoldsFirst(p, Len(Wanted(p)))
  /\ pc[p] \notin {"scan", "work", "workers"} => \A r \in Resources : Held(p, r) = {}

LockShape == lock = [r \in Resources |-> [s \in Slots(r) |-> lock[r][s]]]

Locals ==
  /\ DOMAIN pc = Actors /\ DOMAIN stage = Actors /\ DOMAIN phase = Actors
  /\ DOMAIN ask = Actors /\ DOMAIN at = Actors /\ DOMAIN got = Actors

GrantInv == LockShape /\ Locals /\ \A p \in Actors : Grants(p)

LEMMA WidthPositive == \A p \in Actors : Width(p) \in Nat \ {0}
<1> SUFFICES ASSUME NEW p \in Actors PROVE Width(p) \in Nat \ {0}
  OBVIOUS
<1>1. Capacity["cpu"] \in Nat \ {0}
  BY JobsAssumption DEF Resources
<1>2. CASE p \in Jobs
  <2>1. MaxWorkers \in Nat \ {0}
    BY <1>2, JobsAssumption DEF MaxWorkers, Jobs
  <2>2. Capacity["cpu"] \div MaxWorkers \in Nat
    BY <1>1, <2>1
  <2>3. Workers \in Nat \ {0}
    BY <2>2 DEF Workers
  <2> QED
    BY <1>1, <1>2, <2>3 DEF Width
<1>3. CASE p \notin Jobs
  <2>1. WidthOf[p] \in Nat \ {0}
    BY <1>3, JobsAssumption DEF Actors
  <2> QED
    BY <1>1, <1>3, <2>1 DEF Width
<1> QED
  BY <1>2, <1>3

LEMMA AskOne ==
  ASSUME NEW r \in Resources, NEW n \in Nat \ {0}
  PROVE  WellAsked(<<Ask(r, n)>>)
  BY DEF WellAsked, Ask

LEMMA AskTwo ==
  ASSUME NEW n \in Nat \ {0}
  PROVE  WellAsked(<<Ask("gpu", 1), Ask("cpu", n)>>)
<1> DEFINE w == <<Ask("gpu", 1), Ask("cpu", n)>>
<1>1. /\ Len(w) = 2 /\ w[1].resource = "gpu" /\ w[1].count = 1
      /\ w[2].resource = "cpu" /\ w[2].count = n
  BY DEF Ask
<1> HIDE DEF w
<1>2. \A i \in 1 .. Len(w) : i = 1 \/ i = 2
  BY <1>1
<1>3. WellAsked(w)
  BY <1>1, <1>2 DEF WellAsked, Resources
<1> QED
  BY <1>3 DEF w

LEMMA PhasesAsk ==
  ASSUME NEW p \in Actors, NEW st, NEW i \in 1 .. Len(Phases(p, st))
  PROVE  WellAsked(Phases(p, st)[i])
<1> DEFINE n == Width(p)
<1>1. n \in Nat \ {0} /\ Resources = {"cpu", "gpu", "emu"}
  BY WidthPositive DEF Resources
<1>2. /\ WellAsked(<<Ask("cpu", n)>>) /\ WellAsked(<<Ask("gpu", 1)>>)
      /\ WellAsked(<<Ask("emu", 1)>>)
      /\ WellAsked(<<Ask("gpu", 1), Ask("cpu", n)>>)
      /\ WellAsked(<<Ask("gpu", 1), Ask("cpu", 1)>>)
  BY <1>1, AskOne, AskTwo
<1> HIDE DEF n
<1>3. CASE st = "sim"
  <2>1. Phases(p, st) = << <<Ask("cpu", n)>>, Both(n), Both(1) >>
    BY <1>3 DEF Phases, n
  <2>3. WellAsked(Both(n)) /\ WellAsked(Both(1))
    BY <1>1, <1>2, AskOne DEF Both
  <2>2. i = 1 \/ i = 2 \/ i = 3
    BY <2>1
  <2> QED
    BY <1>2, <2>1, <2>2, <2>3
<1>4. CASE st = "analysis"
  <2>1. Phases(p, st) = << <<Ask("cpu", n)>>, <<Ask("gpu", 1)>> >>
    BY <1>4 DEF Phases, n
  <2>2. i = 1 \/ i = 2
    BY <2>1
  <2> QED
    BY <1>2, <2>1, <2>2
<1>5. CASE st = "record"
  <2>1. Phases(p, st) = << <<Ask("emu", 1)>> >>
    BY <1>5 DEF Phases
  <2> QED
    BY <1>2, <2>1
<1>6. CASE st \notin {"sim", "analysis", "record"}
  BY <1>6 DEF Phases
<1> QED
  BY <1>3, <1>4, <1>5, <1>6

LEMMA WantedWell ==
  ASSUME NEW p \in Actors, phase[p] \in Nat \ {0}, InPhase(p)
  PROVE  WellAsked(Wanted(p))
<1>1. Len(Phases(p, StageName(p, stage[p]))) \in Nat
  BY DEF Phases
<1>2. phase[p] \in 1 .. Len(Phases(p, StageName(p, stage[p])))
  BY <1>1 DEF InPhase
<1> QED
  BY <1>2, PhasesAsk DEF Wanted

LEMMA HeldFinite == \A p, r : r \in Resources =>
                      IsFiniteSet(Held(p, r)) /\ Held(p, r) \subseteq Slots(r)
<1> SUFFICES ASSUME NEW p, NEW r \in Resources PROVE IsFiniteSet(Held(p, r))
  BY DEF Held
<1>1. IsFiniteSet(Slots(r))
  BY JobsAssumption, FS_Interval DEF Slots
<1>2. Held(p, r) \in SUBSET Slots(r)
  BY DEF Held
<1> QED
  BY <1>1, <1>2, FS_Subset

\* What changes for an actor when another one takes its step.
Still(p) ==
  /\ pc'[p] = pc[p] /\ stage'[p] = stage[p] /\ phase'[p] = phase[p]
  /\ ask'[p] = ask[p] /\ at'[p] = at[p] /\ got'[p] = got[p]

LEMMA GrantsFrame ==
  ASSUME NEW p \in Actors, Grants(p), Still(p),
         gpu' = gpu, \A r \in Resources : Held(p, r)' = Held(p, r)
  PROVE  Grants(p)'
<1>1. Wanted(p)' = Wanted(p) /\ Request(p)' = Request(p) /\ InPhase(p)' = InPhase(p)
  BY DEF Still, Wanted, Request, InPhase, Phases, Both
<1>2. phase[p] \in Nat \ {0} /\ (pc[p] = "scan" => ask[p] \in 1 .. Len(Wanted(p)))
  BY DEF Grants
<1>3. pc[p] \in {"scan", "work", "workers"} => WellAsked(Wanted(p))
  BY WantedWell DEF Grants
<1>4. pc[p] = "scan" => Request(p).resource \in Resources
  BY <1>2, <1>3 DEF Request, WellAsked
<1>5. CASE pc[p] = "scan"
  <2>1. HoldsPart(p)'
    <3>1. HoldsPart(p) /\ WellAsked(Wanted(p)) /\ Len(Wanted(p)) \in Nat
      BY <1>3, <1>5 DEF Grants, WellAsked
    <3>2. \A i \in 1 .. ask[p] - 1 : Wanted(p)[i].resource \in Resources
      BY <1>2, <1>5, <3>1 DEF WellAsked
    <3> QED
      BY <1>1, <1>4, <1>5, <3>1, <3>2 DEF HoldsPart, Still
  <2> QED
    BY <1>1, <1>2, <1>5, <2>1 DEF Grants, Still
<1>6. CASE pc[p] \in {"work", "workers"}
  <2>1. HoldsFirst(p, Len(Wanted(p)))'
    BY <1>1, <1>3, <1>6 DEF Grants, HoldsFirst, WellAsked
  <2> QED
    BY <1>1, <1>2, <1>6, <2>1 DEF Grants, Still
<1>7. CASE pc[p] \notin {"scan", "work", "workers"}
  BY <1>2, <1>7 DEF Grants, Still
<1> QED
  BY <1>5, <1>6, <1>7

LEMMA Freeing ==
  ASSUME NEW p \in Actors, NEW R, lock' = Freed(p, R)
  PROVE  /\ LockShape'
         /\ \A q \in Actors \ {p}, r \in Resources : Held(q, r)' = Held(q, r)
         /\ \A r \in Resources : Held(p, r)' = IF r \in R THEN {} ELSE Held(p, r)
<1>0. None \notin Actors
  BY JobsAssumption
<1>1. \A r \in Resources : \A s \in Slots(r) :
        lock'[r][s] = IF r \in R /\ lock[r][s] = p THEN None ELSE lock[r][s]
  BY DEF Freed
<1>2. LockShape'
  BY DEF Freed, LockShape
<1> QED
  BY <1>0, <1>1, <1>2 DEF Held

LEMMA Taking ==
  ASSUME NEW p \in Actors, LockShape, NEW r \in Resources, NEW s \in Slots(r),
         lock[r][s] = None, lock' = [lock EXCEPT ![r][s] = p]
  PROVE  /\ LockShape'
         /\ \A q \in Actors \ {p}, x \in Resources : Held(q, x)' = Held(q, x)
         /\ \A x \in Resources \ {r} : Held(p, x)' = Held(p, x)
         /\ Held(p, r)' = Held(p, r) \cup {s} /\ s \notin Held(p, r)
<1>0. None \notin Actors
  BY JobsAssumption
<1>1. /\ DOMAIN lock = Resources /\ \A x \in Resources : DOMAIN lock[x] = Slots(x)
      /\ lock = [x \in Resources |-> lock[x]]
      /\ \A x \in Resources : lock[x] = [t \in Slots(x) |-> lock[x][t]]
  BY DEF LockShape
<1>2. lock' = [x \in Resources |-> IF x = r THEN [lock[r] EXCEPT ![s] = p] ELSE lock[x]]
  BY <1>1
<1>3. \A x \in Resources : \A t \in Slots(x) :
        lock'[x][t] = IF x = r /\ t = s THEN p ELSE lock[x][t]
  BY <1>1, <1>2
<1>4. LockShape'
  <2>1. ASSUME NEW x \in Resources
        PROVE  lock'[x] = [t \in Slots(x) |-> lock'[x][t]]
    <3>1. CASE x = r
      <4>1. lock'[r] = [lock[r] EXCEPT ![s] = p]
        BY <1>2
      <4>2. lock[r] = [t \in Slots(r) |-> lock[r][t]]
        BY <1>1
      <4> QED
        BY <3>1, <4>1, <4>2
    <3>2. CASE x # r
      <4>1. lock'[x] = lock[x] /\ lock[x] = [t \in Slots(x) |-> lock[x][t]]
        BY <1>1, <1>2, <3>2
      <4> QED
        BY <4>1
    <3> QED
      BY <3>1, <3>2
  <2>2. lock' = [x \in Resources |-> lock'[x]]
    BY <1>2
  <2>3. [x \in Resources |-> lock'[x]]
          = [x \in Resources |-> [t \in Slots(x) |-> lock'[x][t]]]
    BY <2>1
  <2> QED
    BY <2>2, <2>3, Zenon DEF LockShape
<1> QED
  BY <1>0, <1>3, <1>4 DEF Held

LEMMA PhasesSame ==
  ASSUME gpu' = gpu
  PROVE  \A p, st : Phases(p, st)' = Phases(p, st)
  BY DEF Phases, Both

LEMMA LockSame ==
  ASSUME lock' = lock
  PROVE  \A p \in Actors, r \in Resources : Held(p, r)' = Held(p, r)
  BY DEF Held

\* A step of p leaves the others what they hold.
OthersHold(p) ==
  /\ gpu' = gpu
  /\ \A q \in Actors \ {p} :
       Still(q) /\ \A r \in Resources : Held(q, r)' = Held(q, r)

LEMMA OthersGrants ==
  ASSUME GrantInv, NEW p \in Actors, OthersHold(p), Grants(p)', LockShape', Locals'
  PROVE  GrantInv'
  BY GrantsFrame DEF GrantInv, OthersHold, LockShape, Locals

----------------------------------------------------------------------------
\* Where an actor is and where it goes, when it holds nothing and will not.
LEMMA GrantsEmpty ==
  ASSUME NEW p \in Actors, \A r \in Resources : Held(p, r)' = {},
         phase'[p] \in Nat \ {0}, pc'[p] \notin {"scan", "work", "workers"}
  PROVE  Grants(p)'
  BY DEF Grants

LEMMA GrantStart ==
  ASSUME GrantInv, NEW p \in Actors, Start(p)
  PROVE  GrantInv'
<1>1. LockShape' /\ lock' = lock
  BY DEF Start, GrantInv, LockShape, Locals
<1>2. \A q \in Actors \ {p} : pc'[q] = pc[q]
  BY DEF Start, GrantInv, Locals, LockShape
<1>3. pc[p] = "queued" /\ pc'[p] \in {"stage", "end"}
  BY DEF Start, GrantInv, Locals, LockShape
<1>4. /\ UNCHANGED <<stage, phase, ask, at, got>> /\ DOMAIN pc' = Actors
  BY DEF Start, GrantInv, Locals, LockShape
<1>8. gpu' = gpu
  BY DEF Start
<1>5. OthersHold(p) /\ Locals'
  BY <1>1, <1>2, <1>4, <1>8, LockSame DEF OthersHold, Still, Locals, GrantInv, LockShape
<1>6. \A r \in Resources : Held(p, r)' = {}
  BY <1>1, <1>3, LockSame DEF GrantInv, Grants, Locals, LockShape
<1>7. Grants(p)'
  BY <1>3, <1>4, <1>6, GrantsEmpty DEF GrantInv, Grants, Locals, LockShape
<1> QED
  BY <1>1, <1>5, <1>7, OthersGrants

LEMMA GrantEnter ==
  ASSUME GrantInv, NEW p \in Actors, Enter(p)
  PROVE  GrantInv'
<1>1. LockShape' /\ lock' = lock
  BY DEF Enter, GrantInv, LockShape, Locals
<1>2. /\ pc[p] = "stage" /\ pc' = [pc EXCEPT ![p] = "phase"]
      /\ UNCHANGED <<stage, phase, ask, at, got, gpu>>
  BY DEF Enter
<1>3. OthersHold(p) /\ Locals'
  BY <1>1, <1>2, LockSame DEF OthersHold, Still, Locals, GrantInv, LockShape
<1>4. \A r \in Resources : Held(p, r)' = {}
  BY <1>1, <1>2, LockSame DEF GrantInv, Grants, Locals, LockShape
<1>5. Grants(p)'
  BY <1>2, <1>4, GrantsEmpty DEF GrantInv, Grants, Locals, LockShape
<1> QED
  BY <1>1, <1>3, <1>5, OthersGrants

\* HoldsPart in the next state, for asks and a position that are given.
LEMMA PartHeld ==
  ASSUME NEW p \in Actors, NEW w, NEW n, WellAsked(w), n \in 1 .. Len(w),
         Wanted(p)' = w, ask'[p] = n,
         at'[p] \in Nat, got'[p] \in 0 .. w[n].count - 1,
         Cardinality(Held(p, w[n].resource)') = got'[p],
         \A s \in Held(p, w[n].resource)' : s < at'[p],
         \A i \in 1 .. n - 1 : Cardinality(Held(p, w[i].resource)') = w[i].count,
         \A o \in Resources :
           (\A i \in 1 .. n : w[i].resource # o) => Held(p, o)' = {},
         phase'[p] \in Nat \ {0}, InPhase(p)', pc'[p] = "scan"
  PROVE  Grants(p)'
<1>1. Request(p)' = w[n]
  BY DEF Request
<1>2. HoldsPart(p)'
  BY <1>1 DEF HoldsPart
<1> QED
  BY <1>2 DEF Grants

\* What is known of an actor that is taking slots for ask n of the asks w.
Scans(p, w, n) ==
  /\ w = Wanted(p) /\ n = ask[p] /\ Request(p) = w[n]
  /\ WellAsked(w) /\ n \in 1 .. Len(w)
  /\ at[p] \in Nat /\ got[p] \in 0 .. w[n].count - 1
  /\ w[n].resource \in Resources /\ w[n].count \in Nat \ {0}
  /\ Cardinality(Held(p, w[n].resource)) = got[p]
  /\ \A s \in Held(p, w[n].resource) : s < at[p]
  /\ \A i \in 1 .. n - 1 : /\ Cardinality(Held(p, w[i].resource)) = w[i].count
                           /\ w[i].resource \in Resources
                           /\ w[i].resource # w[n].resource
  /\ \A o \in Resources :
       (\A i \in 1 .. n : w[i].resource # o) => Held(p, o) = {}
  /\ phase[p] \in Nat \ {0} /\ InPhase(p)

LEMMA Scanning ==
  ASSUME GrantInv, NEW p \in Actors, pc[p] = "scan"
  PROVE  \E w, n : Scans(p, w, n)
<1>1. /\ phase[p] \in Nat \ {0} /\ InPhase(p) /\ WellAsked(Wanted(p))
      /\ ask[p] \in 1 .. Len(Wanted(p)) /\ HoldsPart(p)
  BY WantedWell DEF GrantInv, Grants, Locals, LockShape
<1>2. Request(p) = Wanted(p)[ask[p]]
  BY DEF Request
<1>3. /\ Request(p).resource \in Resources /\ Request(p).count \in Nat \ {0}
      /\ \A i \in 1 .. ask[p] - 1 : /\ Wanted(p)[i].resource \in Resources
                                    /\ Wanted(p)[i].resource # Request(p).resource
  BY <1>1, <1>2 DEF WellAsked
<1> QED
  BY <1>1, <1>2, <1>3 DEF HoldsPart, Scans

LEMMA GrantReserve ==
  ASSUME GrantInv, NEW p \in Actors, Reserve(p)
  PROVE  GrantInv'
<1>1. LockShape' /\ lock' = lock
  BY DEF Reserve, GrantInv, LockShape, Locals
<1>2. /\ pc[p] = "phase" /\ pc' = [pc EXCEPT ![p] = "scan"] /\ InPhase(p)
      /\ ask' = [ask EXCEPT ![p] = 1] /\ at' = [at EXCEPT ![p] = 0]
      /\ got' = [got EXCEPT ![p] = 0] /\ UNCHANGED <<stage, phase, gpu>>
  BY DEF Reserve, InPhase
<1>3. OthersHold(p) /\ Locals'
  BY <1>1, <1>2, LockSame DEF OthersHold, Still, Locals, GrantInv, LockShape
<1>4. \A r \in Resources : Held(p, r)' = {}
  BY <1>1, <1>2, LockSame DEF GrantInv, Grants, Locals, LockShape
<1>5. phase[p] \in Nat \ {0} /\ WellAsked(Wanted(p))
  BY <1>2, WantedWell DEF GrantInv, Grants, Locals, LockShape
<1>6. PICK w : w = Wanted(p)
  OBVIOUS
<1>7. /\ pc'[p] = "scan" /\ ask'[p] = 1 /\ at'[p] = 0 /\ got'[p] = 0
      /\ phase'[p] = phase[p] /\ InPhase(p)' /\ Wanted(p)' = w
  BY <1>2, <1>6, PhasesSame DEF GrantInv, InPhase, Wanted, Locals, LockShape
<1>8. /\ WellAsked(w) /\ 1 \in 1 .. Len(w) /\ w[1].resource \in Resources
      /\ w[1].count \in Nat \ {0}
  BY <1>5, <1>6 DEF WellAsked
<1>9. Held(p, w[1].resource)' = {} /\ Cardinality({}) = 0
  BY <1>4, <1>8, FS_EmptySet
<1>10. got'[p] \in 0 .. w[1].count - 1 /\ 1 .. 1 - 1 = {} /\ at'[p] \in Nat
  BY <1>7, <1>8
<1>11. Grants(p)'
  BY <1>4, <1>5, <1>7, <1>8, <1>9, <1>10, PartHeld
<1> QED
  BY <1>1, <1>3, <1>11, OthersGrants

\* A round that fails gives back all that it took of the resource it lacks.
LEMMA GrantGiveUp ==
  ASSUME GrantInv, NEW p \in Actors, GiveUp(p)
  PROVE  GrantInv'
<1>1. /\ pc[p] = "scan" /\ lock' = Freed(p, {Request(p).resource})
      /\ at' = [at EXCEPT ![p] = 0] /\ got' = [got EXCEPT ![p] = 0]
      /\ UNCHANGED <<pc, stage, phase, ask, gpu>>
  BY DEF GiveUp, Exhausted
<1>2. PICK w, n : Scans(p, w, n)
  BY <1>1, Scanning
<1> DEFINE r == w[n].resource
<1>3. /\ LockShape'
      /\ \A q \in Actors \ {p}, x \in Resources : Held(q, x)' = Held(q, x)
      /\ \A x \in Resources : Held(p, x)' = IF x \in {r} THEN {} ELSE Held(p, x)
  <2>1. lock' = Freed(p, {r})
    BY <1>1, <1>2 DEF Scans
  <2> HIDE DEF r
  <2> QED
    BY <2>1, Freeing
<1>4. OthersHold(p) /\ Locals'
  BY <1>1, <1>3 DEF OthersHold, Still, Locals, GrantInv, LockShape
<1>5. /\ pc'[p] = "scan" /\ ask'[p] = n /\ at'[p] = 0 /\ got'[p] = 0
      /\ phase'[p] = phase[p] /\ InPhase(p)' /\ Wanted(p)' = w
  BY <1>1, <1>2, PhasesSame DEF GrantInv, InPhase, Wanted, Scans, Locals, LockShape
<1>6. Held(p, r)' = {} /\ Cardinality({}) = 0 /\ 0 \in 0 .. w[n].count - 1
  BY <1>2, <1>3, FS_EmptySet DEF Scans
<1>7. \A i \in 1 .. n - 1 : Cardinality(Held(p, w[i].resource)') = w[i].count
  BY <1>2, <1>3 DEF Scans
<1>8. \A o \in Resources :
        (\A i \in 1 .. n : w[i].resource # o) => Held(p, o)' = {}
  BY <1>2, <1>3 DEF Scans
<1>9. /\ Cardinality(Held(p, w[n].resource)') = got'[p] /\ at'[p] \in Nat
      /\ \A s \in Held(p, w[n].resource)' : s < at'[p]
      /\ got'[p] \in 0 .. w[n].count - 1
  BY <1>5, <1>6
<1>10. WellAsked(w) /\ n \in 1 .. Len(w) /\ phase'[p] \in Nat \ {0}
  BY <1>2, <1>5 DEF Scans
<1> HIDE DEF r
<1>11. Grants(p)'
  BY <1>5, <1>7, <1>8, <1>9, <1>10, PartHeld
<1> QED
  BY <1>3, <1>4, <1>11, OthersGrants

LEMMA GrantFinish ==
  ASSUME GrantInv, NEW p \in Actors, Finish(p)
  PROVE  GrantInv'
<1>1. /\ pc[p] = "work" /\ lock' = Freed(p, Resources)
      /\ pc' = [pc EXCEPT ![p] = "phase"] /\ phase' = [phase EXCEPT ![p] = @ + 1]
      /\ UNCHANGED <<stage, ask, at, got, gpu>>
  BY DEF Finish
<1>2. /\ LockShape'
      /\ \A q \in Actors \ {p}, x \in Resources : Held(q, x)' = Held(q, x)
      /\ \A x \in Resources : Held(p, x)' = {}
  BY <1>1, Freeing
<1>3. OthersHold(p) /\ Locals'
  BY <1>1, <1>2 DEF OthersHold, Still, Locals, GrantInv, LockShape
<1>4. phase'[p] \in Nat \ {0} /\ pc'[p] = "phase"
  BY <1>1 DEF GrantInv, Grants, Locals, LockShape
<1>5. Grants(p)'
  BY <1>2, <1>4, GrantsEmpty
<1> QED
  BY <1>2, <1>3, <1>5, OthersGrants

LEMMA GrantLeave ==
  ASSUME GrantInv, NEW p \in Actors, Leave(p)
  PROVE  GrantInv'
<1>1. LockShape' /\ lock' = lock
  BY DEF Leave, GrantInv, LockShape, Locals
<1>2. /\ pc[p] = "phase" /\ gpu' = gpu /\ Gone(p)
      /\ \E w \in {"stage", "end"} : pc' = [pc EXCEPT ![p] = w]
      /\ \E n : stage' = [stage EXCEPT ![p] = n]
  BY DEF Leave, End
<1>3. OthersHold(p) /\ Locals'
  BY <1>1, <1>2, LockSame DEF OthersHold, Still, Locals, GrantInv, LockShape, Gone
<1>4. \A r \in Resources : Held(p, r)' = {}
  BY <1>1, <1>2, LockSame DEF GrantInv, Grants, Locals, LockShape
<1>5. pc'[p] \in {"stage", "end"} /\ phase'[p] \in Nat \ {0}
  BY <1>2 DEF GrantInv, Grants, Locals, LockShape, Gone
<1>6. Grants(p)'
  BY <1>4, <1>5, GrantsEmpty
<1> QED
  BY <1>1, <1>3, <1>6, OthersGrants

\* The end of a stage process that died, or of the workers it left.
LEMMA GrantDead ==
  ASSUME GrantInv, NEW p \in Actors,
         lock' = Freed(p, Resources), End(p), Gone(p), gpu' = gpu
  PROVE  GrantInv'
<1>1. /\ lock' = Freed(p, Resources) /\ pc' = [pc EXCEPT ![p] = "end"]
      /\ stage' = [stage EXCEPT ![p] = 1] /\ Gone(p) /\ gpu' = gpu
  BY DEF End
<1>2. /\ LockShape'
      /\ \A q \in Actors \ {p}, x \in Resources : Held(q, x)' = Held(q, x)
      /\ \A x \in Resources : Held(p, x)' = {}
  BY <1>1, Freeing
<1>3. OthersHold(p) /\ Locals'
  BY <1>1, <1>2 DEF OthersHold, Still, Locals, GrantInv, LockShape, Gone
<1>4. phase'[p] \in Nat \ {0} /\ pc'[p] = "end"
  BY <1>1 DEF GrantInv, Grants, Locals, LockShape, Gone
<1>5. Grants(p)'
  BY <1>2, <1>4, GrantsEmpty
<1> QED
  BY <1>2, <1>3, <1>5, OthersGrants

\* A step that touches no slot and no place of a process that holds one.
LEMMA GrantStill ==
  ASSUME GrantInv, lock' = lock, gpu' = gpu,
         UNCHANGED <<stage, phase, ask, at, got>>, DOMAIN pc' = Actors,
         \A p \in Actors : \/ pc'[p] = pc[p]
                           \/ pc[p] = "work" /\ pc'[p] = "workers"
                           \/ pc[p] \in {"queued", "stage"} /\ pc'[p] = "end"
  PROVE  GrantInv'
<1>1. LockShape' /\ Locals'
  BY DEF GrantInv, LockShape, Locals
<1>2. \A q \in Actors, r \in Resources : Held(q, r)' = Held(q, r)
  BY LockSame
<1>3. ASSUME NEW p \in Actors PROVE Grants(p)'
  <2>1. Grants(p) /\ \A r \in Resources : Held(p, r)' = Held(p, r)
    BY <1>2 DEF GrantInv
  <2>2. CASE pc'[p] = pc[p]
    <3>1. Still(p)
      BY <2>2 DEF Still
    <3> QED
      BY <2>1, <3>1, GrantsFrame
  <2>3. CASE pc[p] = "work" /\ pc'[p] = "workers"
    <3>1. WellAsked(Wanted(p)) /\ HoldsFirst(p, Len(Wanted(p))) /\ InPhase(p)
      BY <2>1, <2>3, WantedWell DEF Grants
    <3>2. Wanted(p)' = Wanted(p) /\ InPhase(p)'
      BY <3>1, PhasesSame DEF Wanted, InPhase
    <3>3. HoldsFirst(p, Len(Wanted(p)))'
      BY <2>1, <3>1, <3>2 DEF HoldsFirst, WellAsked
    <3> QED
      BY <2>1, <2>3, <3>2, <3>3 DEF Grants
  <2>4. CASE pc[p] \in {"queued", "stage"} /\ pc'[p] = "end"
    BY <2>1, <2>4, GrantsEmpty DEF Grants
  <2> QED
    BY <2>2, <2>3, <2>4
<1> QED
  BY <1>1, <1>3 DEF GrantInv

\* One slot is tried: taken it is one more of this ask, and the last one it
\* wanted completes the ask, or the phase's reservation.
LEMMA GrantTry ==
  ASSUME GrantInv, NEW p \in Actors, Try(p)
  PROVE  GrantInv'
<1>1. pc[p] = "scan" /\ UNCHANGED <<stage, phase, gpu>>
  BY DEF Try
<1>2. PICK w, n : Scans(p, w, n)
  BY <1>1, Scanning
<1> DEFINE r == w[n].resource
           s == at[p]
<1>3. /\ WellAsked(w) /\ n \in 1 .. Len(w) /\ w[n].count \in Nat \ {0}
      /\ r \in Resources /\ Len(w) \in Nat \ {0}
      /\ s \in Nat /\ got[p] \in 0 .. w[n].count - 1 /\ phase[p] \in Nat \ {0}
  BY <1>2 DEF Scans, WellAsked
<1>4. s \in Slots(r)
  BY <1>2 DEF Try, Scans
<1>5. phase' = phase /\ InPhase(p)' /\ Wanted(p)' = w
  BY <1>1, <1>2, PhasesSame DEF Scans, InPhase, Wanted
<1>6. CASE lock[r][s] # None
  <2>1. /\ at' = [at EXCEPT ![p] = s + 1] /\ UNCHANGED <<lock, pc, ask, got>>
    BY <1>2, <1>6 DEF Try, Scans
  <2>2. LockShape' /\ OthersHold(p) /\ Locals'
    BY <1>1, <2>1, LockSame DEF OthersHold, Still, Locals, GrantInv, LockShape
  <2>3. at'[p] = s + 1 /\ got'[p] = got[p] /\ ask'[p] = n /\ pc'[p] = "scan"
    BY <1>1, <1>2, <2>1 DEF GrantInv, Scans, Locals, LockShape
  <2>4. \A x \in Resources : Held(p, x)' = Held(p, x)
    BY <2>1, LockSame
  <2>5. /\ Cardinality(Held(p, w[n].resource)') = got'[p]
        /\ \A t \in Held(p, w[n].resource)' : t < at'[p]
    <3>1. Held(p, r)' = Held(p, r) /\ Held(p, r) \subseteq Nat
      BY <1>3, <2>4, HeldFinite, JobsAssumption DEF Slots
    <3> QED
      BY <1>2, <1>3, <2>3, <3>1 DEF Scans
  <2>6. \A i \in 1 .. n - 1 : Cardinality(Held(p, w[i].resource)') = w[i].count
    BY <1>2, <2>4 DEF Scans
  <2>7. \A o \in Resources :
          (\A i \in 1 .. n : w[i].resource # o) => Held(p, o)' = {}
    BY <1>2, <2>4 DEF Scans
  <2>8. at'[p] \in Nat /\ got'[p] \in 0 .. w[n].count - 1 /\ phase'[p] \in Nat \ {0}
    BY <1>3, <1>5, <2>3
  <2>9. ask'[p] = n /\ pc'[p] = "scan" /\ WellAsked(w) /\ n \in 1 .. Len(w)
    BY <1>3, <2>3
  <2> HIDE DEF r, s
  <2>10. Grants(p)'
    BY <1>5, <2>5, <2>6, <2>7, <2>8, <2>9, PartHeld
  <2> QED
    BY <2>2, <2>10, OthersGrants
<1>7. CASE lock[r][s] = None
  <2>1. lock' = [lock EXCEPT ![r][s] = p]
    BY <1>2, <1>7 DEF Try, Scans
  <2>2. /\ LockShape'
        /\ \A q \in Actors \ {p}, x \in Resources : Held(q, x)' = Held(q, x)
        /\ \A x \in Resources \ {r} : Held(p, x)' = Held(p, x)
        /\ Held(p, r)' = Held(p, r) \cup {s} /\ s \notin Held(p, r)
    <3>1. LockShape
      BY DEF GrantInv, LockShape, Locals
    <3> HIDE DEF r, s
    <3> QED
      BY <1>3, <1>4, <1>7, <2>1, <3>1, Taking
  <2>3. Cardinality(Held(p, r)') = got[p] + 1
    <3>1. IsFiniteSet(Held(p, r)) /\ Cardinality(Held(p, r)) = got[p]
      BY <1>2, <1>3, HeldFinite DEF Scans
    <3> HIDE DEF r, s
    <3> QED
      BY <2>2, <3>1, FS_AddElement
  <2>4. \A i \in 1 .. n - 1 : Cardinality(Held(p, w[i].resource)') = w[i].count
    BY <1>2, <2>2 DEF Scans
  <2>5. \A o \in Resources :
          (\A i \in 1 .. n : w[i].resource # o) => Held(p, o)' = {}
    BY <1>2, <1>3, <2>2 DEF Scans
  <2>6. CASE got[p] + 1 < w[n].count
    <3>1. /\ at' = [at EXCEPT ![p] = s + 1] /\ got' = [got EXCEPT ![p] = @ + 1]
          /\ UNCHANGED <<pc, ask>>
      BY <1>2, <1>7, <2>6 DEF Try, Scans
    <3>2. OthersHold(p) /\ Locals'
      BY <1>1, <2>2, <3>1 DEF OthersHold, Still, Locals, GrantInv, LockShape
    <3>3. at'[p] = s + 1 /\ got'[p] = got[p] + 1 /\ ask'[p] = n /\ pc'[p] = "scan"
      BY <1>1, <1>2, <3>1 DEF GrantInv, Scans, Locals, LockShape
    <3>4. \A t \in Held(p, r)' : t < at'[p]
      <4>1. \A t \in Held(p, r) : t \in Nat /\ t < s
        BY <1>2, <1>3, HeldFinite, JobsAssumption DEF Scans, Slots
      <4> HIDE DEF r, s
      <4> QED
        BY <1>3, <2>2, <3>3, <4>1
    <3>5. at'[p] \in Nat /\ got'[p] \in 0 .. w[n].count - 1 /\ phase'[p] \in Nat \ {0}
      BY <1>3, <1>5, <2>6, <3>3
    <3>6. /\ Cardinality(Held(p, w[n].resource)') = got'[p]
          /\ \A t \in Held(p, w[n].resource)' : t < at'[p]
      BY <2>3, <3>3, <3>4
    <3> HIDE DEF r, s
    <3>7. Grants(p)'
      BY <1>3, <1>5, <2>4, <2>5, <3>3, <3>5, <3>6, PartHeld
    <3> QED
      BY <2>2, <3>2, <3>7, OthersGrants
  <2>7. CASE ~(got[p] + 1 < w[n].count)
    <3>1. Cardinality(Held(p, r)') = w[n].count
      <4> HIDE DEF r, s
      <4> QED
        BY <1>3, <2>3, <2>7
    <3>2. \A i \in 1 .. n : Cardinality(Held(p, w[i].resource)') = w[i].count
      <4> SUFFICES ASSUME NEW i \in 1 .. n
                   PROVE  Cardinality(Held(p, w[i].resource)') = w[i].count
        OBVIOUS
      <4>1. i = n \/ i \in 1 .. n - 1
        BY <1>3
      <4> QED
        BY <2>4, <3>1, <4>1
    <3>3. /\ at' = [at EXCEPT ![p] = 0] /\ got' = [got EXCEPT ![p] = 0]
          /\ IF n < Len(w)
             THEN ask' = [ask EXCEPT ![p] = @ + 1] /\ UNCHANGED pc
             ELSE pc' = [pc EXCEPT ![p] = "work"] /\ UNCHANGED ask
      BY <1>2, <1>7, <2>7 DEF Try, Scans
    <3>4. OthersHold(p) /\ Locals'
      BY <1>1, <2>2, <3>3 DEF OthersHold, Still, Locals, GrantInv, LockShape
    <3>5. at'[p] = 0 /\ got'[p] = 0
      BY <3>3 DEF GrantInv, Locals, LockShape
    <3>6. CASE n < Len(w)
      <4>1. ask'[p] = n + 1 /\ pc'[p] = "scan"
        BY <1>1, <1>2, <3>3, <3>6 DEF GrantInv, Scans, Locals, LockShape
      <4>2. n + 1 \in 1 .. Len(w)
        BY <1>3, <3>6
      <4>3. /\ w[n + 1].resource \in Resources /\ w[n + 1].count \in Nat \ {0}
            /\ \A i \in 1 .. n : w[i].resource # w[n + 1].resource
        BY <1>3, <4>2 DEF WellAsked
      <4>4. Held(p, w[n + 1].resource)' = {} /\ Cardinality({}) = 0
        BY <2>5, <4>3, FS_EmptySet
      <4>5. \A o \in Resources :
              (\A i \in 1 .. n + 1 : w[i].resource # o) => Held(p, o)' = {}
        BY <1>3, <2>5
      <4>6. \A i \in 1 .. (n + 1) - 1 : Cardinality(Held(p, w[i].resource)') = w[i].count
        BY <1>3, <3>2
      <4>7. at'[p] \in Nat /\ got'[p] \in 0 .. w[n + 1].count - 1
            /\ phase'[p] \in Nat \ {0}
        BY <1>3, <1>5, <3>5, <4>3
      <4>8. /\ Cardinality(Held(p, w[n + 1].resource)') = got'[p]
            /\ \A t \in Held(p, w[n + 1].resource)' : t < at'[p]
        BY <3>5, <4>4
      <4> HIDE DEF r, s
      <4>9. Grants(p)'
        BY <1>3, <1>5, <4>1, <4>2, <4>5, <4>6, <4>7, <4>8, PartHeld
      <4> QED
        BY <2>2, <3>4, <4>9, OthersGrants
    <3>7. CASE ~(n < Len(w))
      <4>1. pc'[p] = "work" /\ n = Len(w)
        BY <1>3, <3>3, <3>7 DEF GrantInv, Locals, LockShape
      <4>2. HoldsFirst(p, Len(Wanted(p)))'
        BY <1>5, <2>5, <3>2, <4>1 DEF HoldsFirst
      <4>3. Grants(p)'
        BY <1>3, <1>5, <4>1, <4>2 DEF Grants
      <4> QED
        BY <2>2, <3>4, <4>3, OthersGrants
    <3> QED
      BY <3>6, <3>7
  <2> QED
    BY <2>6, <2>7
<1> QED
  BY <1>6, <1>7

LEMMA GrantInit == Init => GrantInv
<1> SUFFICES ASSUME Init PROVE GrantInv
  OBVIOUS
<1>1. \A p \in Actors, r \in Resources : Held(p, r) = {}
  BY JobsAssumption DEF Init, Held
<1> QED
  BY <1>1 DEF Init, GrantInv, Grants, Locals, LockShape

LEMMA GrantStep == GrantInv /\ [Next]_vars => GrantInv'
<1> SUFFICES ASSUME GrantInv, [Next]_vars PROVE GrantInv'
  OBVIOUS
<1>1. CASE UNCHANGED vars
  BY <1>1, GrantStill DEF vars, GrantInv, Locals
<1>2. ASSUME NEW p \in Actors, Step(p) PROVE GrantInv'
  <2>1. ASSUME WorkersEnd(p) PROVE GrantInv'
    BY <2>1, GrantDead DEF WorkersEnd
  <2> QED
    BY <1>2, <2>1, GrantStart, GrantEnter, GrantReserve, GrantTry, GrantGiveUp,
       GrantFinish, GrantLeave DEF Step
<1>3. ASSUME NEW p \in Actors, Fail(p) PROVE GrantInv'
  BY <1>3, GrantDead DEF Fail
<1>4. ASSUME NEW p \in Actors, Killed(p) PROVE GrantInv'
  BY <1>4, GrantStill DEF Killed, GrantInv, Locals
<1>5. ASSUME NEW p \in Actors, WrapperDies(p) PROVE GrantInv'
  BY <1>5, GrantStill DEF WrapperDies, GrantInv, Locals
<1>6. ASSUME RunnerDies PROVE GrantInv'
  BY <1>6, GrantStill DEF RunnerDies, GrantInv, Locals
<1> QED
  BY <1>1, <1>2, <1>3, <1>4, <1>5, <1>6 DEF Next

\* Of different resources each is asked for once, so what is reserved of one is
\* the count of its ask.
LEMMA GrantsExact ==
  ASSUME GrantInv, NEW p \in Actors, pc[p] \in {"work", "workers"}, NEW r \in Resources
  PROVE  Cardinality(Held(p, r)) = Reserved(p, r)
<1> DEFINE asks == {i \in 1 .. Len(Wanted(p)) : Wanted(p)[i].resource = r}
<1>1. HoldsFirst(p, Len(Wanted(p))) /\ WellAsked(Wanted(p))
  BY WantedWell DEF GrantInv, Grants, Locals, LockShape
<1>2. CASE asks = {}
  <2>1. Held(p, r) = {}
    BY <1>1, <1>2 DEF HoldsFirst
  <2>2. Reserved(p, r) = 0
    BY <1>2 DEF Reserved
  <2> QED
    BY <2>1, <2>2, FS_EmptySet
<1>3. CASE asks # {}
  <2>1. PICK i \in asks : i = CHOOSE j \in asks : TRUE
    BY <1>3
  <2>2. Reserved(p, r) = Wanted(p)[i].count
    BY <1>3, <2>1 DEF Reserved
  <2>3. i \in 1 .. Len(Wanted(p)) /\ Wanted(p)[i].resource = r
    OBVIOUS
  <2> QED
    BY <1>1, <2>2, <2>3 DEF HoldsFirst
<1> QED
  BY <1>2, <1>3

\* A phase that works has exactly what it asked for, and so have the forked
\* workers it leaves when it is killed alone; one that is about to try again has
\* nothing of what it lacks, all others hold nothing: however the tries of many
\* processes interleave.
THEOREM GrantsAreExact == Spec => []ExactGrant
<1>1. GrantInv => ExactGrant
  <2> SUFFICES ASSUME GrantInv, NEW p \in Actors
               PROVE  /\ pc[p] \in {"work", "workers"} =>
                           \A r \in Resources : Cardinality(Held(p, r)) = Reserved(p, r)
                      /\ pc[p] = "scan" /\ at[p] = 0 =>
                           Held(p, Request(p).resource) = {}
                      /\ pc[p] \notin {"scan", "work", "workers"} =>
                           \A r \in Resources : Held(p, r) = {}
    BY DEF ExactGrant
  <2>1. ASSUME pc[p] = "scan", at[p] = 0 PROVE Held(p, Request(p).resource) = {}
    <3>1. PICK w, n : Scans(p, w, n)
      BY <2>1, Scanning
    <3>2. /\ \A s \in Held(p, Request(p).resource) : s < 0
          /\ Request(p).resource \in Resources
      BY <2>1, <3>1 DEF Scans
    <3>3. Held(p, Request(p).resource) \subseteq Nat
      BY <3>2, HeldFinite, JobsAssumption DEF Slots
    <3> QED
      BY <3>2, <3>3
  <2>2. pc[p] \notin {"scan", "work", "workers"} => \A r \in Resources : Held(p, r) = {}
    BY DEF GrantInv, Grants, Locals, LockShape
  <2> QED
    BY <2>1, <2>2, GrantsExact
<1> QED
  BY <1>1, GrantInit, GrantStep, PTL DEF Spec
=============================================================================
