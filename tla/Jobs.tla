-------------------------------- MODULE Jobs -------------------------------
(***************************************************************************)
(* The token and stem locks of the host tools                              *)
(* (src/tools/resource_tokens.py) and the processes that take them: the    *)
(* pipeline jobs of one parallel runner (src/tools/parallel_run.py), each  *)
(* of which runs its stages one after another as child processes, and      *)
(* stages that somebody started by hand.                                   *)
(*                                                                         *)
(* A lock is a flock that is tried and never waited for, so every attempt  *)
(* is a step of its own.  The sleep between two rounds of attempts is any  *)
(* pause.                                                                  *)
(*                                                                         *)
(* A flock lives until the last copy of its descriptor is closed.  Programs*)
(* that are executed get none (Python closes them), forked workers all: so *)
(* a process may die with everything it started (Fail); or leave a pool of *)
(* forked workers that keep its slots until they end (Killed, WorkersEnd); *)
(* or the keeper of a stem may die alone, and the stage that ran under it  *)
(* goes on without (WrapperDies, RunnerDies).                              *)
(*                                                                         *)
(* Left out: the bookkeeping of the capacity, which is the same for all    *)
(* here (_ensure_capacity); waiting with a timeout and without waiting,    *)
(* which no stage asks for; the second lock a recording takes on its       *)
(* output file; the tmpfs leases (module Workspace); a program such as     *)
(* ffmpeg that outlives its killed stage, which holds nothing and asks for *)
(* nothing.                                                                *)
(***************************************************************************)
EXTENDS Integers, FiniteSets, Sequences

CONSTANTS
  JobCount,  \* profiles given to the runner, in order
  JobLimit,  \* --jobs
  Through,   \* --through, as the number of the last stage
  Sessions,  \* stages started by hand
  StageOf,   \* [Sessions -> stages]
  WidthOf,   \* [Sessions -> Nat]: CBRSIM_WORKERS
  StemOf,    \* [Actors -> stems]
  Capacity,  \* [Resources -> Nat]
  None

Jobs      == 1 .. JobCount
Actors    == Jobs \cup Sessions
Resources == {"cpu", "gpu", "emu"}
Stages    == <<"sim", "disc", "record", "hud">>
Slots(r)  == 0 .. Capacity[r] - 1

ASSUME JobsAssumption ==
  /\ JobCount \in Nat /\ JobLimit \in Nat \ {0} /\ Through \in 1 .. 4
  /\ Sessions \cap Jobs = {} /\ None \notin Actors
  /\ StageOf \in [Sessions -> {"sim", "disc", "record", "analysis"}]
  /\ Capacity \in [Resources -> Nat \ {0}]
  /\ WidthOf \in [Sessions -> Nat \ {0}]
  /\ DOMAIN StemOf = Actors

VARIABLES
  lock,   \* [Resources -> [slots -> Actors \cup {None}]]
  stem,   \* [stems -> Actors \cup {None}]
  pc,     \* queued, stage (between two stages), phase, scan, work,
          \* workers (only forked workers are left), end
  stage, phase, ask, \* where an actor is
  at,     \* next slot to try
  got,    \* len(descriptors) of this round
  alone,  \* actors whose stage works on though its stem's keeper is dead
  gpu     \* the encoders use the GPU

vars == <<lock, stem, pc, stage, phase, ask, at, got, alone, gpu>>

\* main: ThreadPoolExecutor, and the share of the processors of one job.
MaxWorkers   == IF JobLimit < JobCount THEN JobLimit ELSE JobCount
Workers_Bug  == Capacity["cpu"]
Workers      == IF Capacity["cpu"] \div MaxWorkers = 0 THEN 1
                ELSE Capacity["cpu"] \div MaxWorkers

\* requested_cpu_workers
Width(p) == LET asked == IF p \in Jobs THEN Workers ELSE WidthOf[p]
            IN  IF asked > Capacity["cpu"] THEN Capacity["cpu"] ELSE asked

Ask(r, n) == [resource |-> r, count |-> n]

Both(n) == IF gpu THEN <<Ask("gpu", 1), Ask("cpu", n)>> ELSE <<Ask("cpu", n)>>

\* The phases of a stage that reserve something, and what, in the order it
\* is taken.
Phases(p, name) ==
  CASE name = "sim" ->
         << <<Ask("cpu", Width(p))>>,   \* Extract
            Both(Width(p)),             \* Palette, Quantize
            Both(1) >>                  \* Scroll
    [] name = "analysis" ->
         << <<Ask("cpu", Width(p))>>, <<Ask("gpu", 1)>> >>
    [] name = "record" -> << <<Ask("emu", 1)>> >>
    [] OTHER -> << >>

StageName(p, n) == IF p \in Jobs THEN Stages[n] ELSE StageOf[p]
LastStage(p)    == IF p \in Jobs THEN Through ELSE 1

Stems == {StemOf[p] : p \in Actors}

Init ==
  /\ lock = [r \in Resources |-> [s \in Slots(r) |-> None]]
  /\ stem = [s \in Stems |-> None]
  /\ pc = [p \in Actors |-> "queued"]
  /\ stage = [p \in Actors |-> 1] /\ phase = [p \in Actors |-> 1]
  /\ ask = [p \in Actors |-> 1]
  /\ at = [p \in Actors |-> 0] /\ got = [p \in Actors |-> 0]
  /\ alone = {} /\ gpu \in BOOLEAN

----------------------------------------------------------------------------
Running(p) == pc[p] \notin {"queued", "workers", "end"}
Inside(p)  == pc[p] \in {"phase", "scan", "work"}  \* a stage process runs
Wanted(p)  == Phases(p, StageName(p, stage[p]))[phase[p]]
Request(p) == Wanted(p)[ask[p]]
Held(p, r) == {s \in Slots(r) : lock[r][s] = p}

Freed(p, R) == [r \in Resources |-> [s \in Slots(r) |->
                  IF r \in R /\ lock[r][s] = p THEN None ELSE lock[r][s]]]

\* The stem's descriptor is closed.
Unlock(p) == stem' = [s \in Stems |-> IF stem[s] = p THEN None ELSE stem[s]]

\* A job takes its stem's lock for all its stages; so does a stage by itself.
\* A lock that is taken is not waited for.
Start(p) ==
  /\ pc[p] = "queued"
  /\ p \in Jobs => /\ \A q \in Jobs : q < p => pc[q] # "queued"
                   /\ Cardinality({q \in Jobs : Running(q)}) < MaxWorkers
  /\ IF stem[StemOf[p]] = None
     THEN /\ stem' = [stem EXCEPT ![StemOf[p]] = p]
          /\ pc' = [pc EXCEPT ![p] = "stage"]
     ELSE /\ pc' = [pc EXCEPT ![p] = "end"]
          /\ UNCHANGED stem
  /\ UNCHANGED <<lock, stage, phase, ask, at, got, alone, gpu>>

\* The stage of a job finds its stem in the environment it inherits: its
\* lease is re-entrant and has nothing to release.
Enter(p) ==
  /\ pc[p] = "stage"
  /\ pc' = [pc EXCEPT ![p] = "phase"]
  /\ UNCHANGED <<lock, stem, stage, phase, ask, at, got, alone, gpu>>

\* _parallel_phase, acquire_tokens
Reserve(p) ==
  /\ pc[p] = "phase"
  /\ phase[p] <= Len(Phases(p, StageName(p, stage[p])))
  /\ pc' = [pc EXCEPT ![p] = "scan"]
  /\ ask' = [ask EXCEPT ![p] = 1]
  /\ at' = [at EXCEPT ![p] = 0] /\ got' = [got EXCEPT ![p] = 0]
  /\ UNCHANGED <<lock, stem, stage, phase, alone, gpu>>

\* One slot is tried: _open_locked.
Try(p) ==
  /\ pc[p] = "scan"
  /\ LET r == Request(p).resource
         s == at[p]
     IN  /\ s \in Slots(r)
         /\ IF lock[r][s] # None
            THEN /\ at' = [at EXCEPT ![p] = s + 1]
                 /\ UNCHANGED <<lock, pc, ask, got>>
            ELSE /\ lock' = [lock EXCEPT ![r][s] = p]
                 /\ IF got[p] + 1 < Request(p).count
                    THEN /\ at' = [at EXCEPT ![p] = s + 1]
                         /\ got' = [got EXCEPT ![p] = @ + 1]
                         /\ UNCHANGED <<pc, ask>>
                    ELSE /\ at' = [at EXCEPT ![p] = 0]
                         /\ got' = [got EXCEPT ![p] = 0]
                         /\ IF ask[p] < Len(Wanted(p))
                            THEN /\ ask' = [ask EXCEPT ![p] = @ + 1]
                                 /\ UNCHANGED pc
                            ELSE /\ pc' = [pc EXCEPT ![p] = "work"]
                                 /\ UNCHANGED ask
  /\ UNCHANGED <<stem, stage, phase, alone, gpu>>

\* Too few were free: the round's locks are closed, then it sleeps.
Exhausted(p) == pc[p] = "scan" /\ at[p] \notin Slots(Request(p).resource)

GiveUp_Bug(p) ==
  /\ Exhausted(p)
  /\ at' = [at EXCEPT ![p] = 0]
  /\ UNCHANGED <<lock, stem, pc, stage, phase, ask, got, alone, gpu>>

GiveUp(p) ==
  /\ Exhausted(p)
  /\ lock' = Freed(p, {Request(p).resource})
  /\ at' = [at EXCEPT ![p] = 0] /\ got' = [got EXCEPT ![p] = 0]
  /\ UNCHANGED <<stem, pc, stage, phase, ask, alone, gpu>>

\* The phase's work is done; it releases what it reserved.
Finish(p) ==
  /\ pc[p] = "work"
  /\ lock' = Freed(p, Resources)
  /\ pc' = [pc EXCEPT ![p] = "phase"]
  /\ phase' = [phase EXCEPT ![p] = @ + 1]
  /\ UNCHANGED <<stem, stage, ask, at, got, alone, gpu>>

----------------------------------------------------------------------------
\* The locals of a stage process that has ended.
Gone(p) ==
  /\ phase' = [phase EXCEPT ![p] = 1] /\ ask' = [ask EXCEPT ![p] = 1]
  /\ at' = [at EXCEPT ![p] = 0] /\ got' = [got EXCEPT ![p] = 0]

End(p) ==
  /\ pc' = [pc EXCEPT ![p] = "end"]
  /\ stage' = [stage EXCEPT ![p] = 1]

\* The stage process ends well.  Nobody starts the next one for a job whose
\* runner is dead.
Leave_Bug(p) ==
  /\ pc[p] = "phase"
  /\ phase[p] > Len(Phases(p, StageName(p, stage[p])))
  /\ IF stage[p] < LastStage(p) /\ p \notin alone
     THEN /\ stage' = [stage EXCEPT ![p] = @ + 1]
          /\ pc' = [pc EXCEPT ![p] = "stage"]
          /\ Unlock(p)
     ELSE End(p) /\ Unlock(p)
  /\ Gone(p) /\ UNCHANGED <<lock, alone, gpu>>

Leave(p) ==
  /\ pc[p] = "phase"
  /\ phase[p] > Len(Phases(p, StageName(p, stage[p])))
  /\ IF stage[p] < LastStage(p) /\ p \notin alone
     THEN /\ stage' = [stage EXCEPT ![p] = @ + 1]
          /\ pc' = [pc EXCEPT ![p] = "stage"]
          /\ UNCHANGED stem
     ELSE End(p) /\ Unlock(p)
  /\ Gone(p) /\ UNCHANGED <<lock, alone, gpu>>

\* It raises, exits with an error, or is killed with all it started; the job
\* stops at this stage and gives its stem back.
Fail(p) ==
  /\ Inside(p)
  /\ lock' = Freed(p, Resources)
  /\ End(p) /\ Unlock(p)
  /\ Gone(p) /\ UNCHANGED <<alone, gpu>>

\* Where a stage has a pool of forked workers: the quantization without a GPU,
\* and the panels of the analysis.
Forks(p) ==
  \/ StageName(p, stage[p]) = "sim" /\ phase[p] = 2 /\ ~gpu /\ Width(p) > 1
  \/ StageName(p, stage[p]) = "analysis" /\ phase[p] = 1

\* The stage process alone is killed.  Its workers have its descriptors: the
\* slots, and the stem when the stage took it by itself; a job's is the
\* runner's, who gives it back.
Killed(p) ==
  /\ pc[p] = "work" /\ Forks(p)
  /\ pc' = [pc EXCEPT ![p] = "workers"]
  /\ IF p \in Jobs THEN Unlock(p) ELSE UNCHANGED stem
  /\ UNCHANGED <<lock, stage, phase, ask, at, got, alone, gpu>>

\* They find the pipe of their work closed.
WorkersEnd(p) ==
  /\ pc[p] = "workers"
  /\ lock' = Freed(p, Resources)
  /\ End(p) /\ Unlock(p)
  /\ Gone(p) /\ UNCHANGED <<alone, gpu>>

\* run-stem is killed, the command it runs is not.
WrapperDies(p) ==
  /\ p \in Sessions /\ StageOf[p] \in {"disc", "record"}
  /\ Inside(p) /\ p \notin alone
  /\ alone' = alone \cup {p}
  /\ Unlock(p)
  /\ UNCHANGED <<lock, pc, stage, phase, ask, at, got, gpu>>

\* The runner is killed, the stages it runs are not: all its stems are free.
RunnerDies ==
  /\ \E p \in Jobs \ alone : pc[p] \notin {"workers", "end"}
  /\ stem' = [s \in Stems |-> IF stem[s] \in Jobs THEN None ELSE stem[s]]
  /\ alone' = alone \cup {p \in Jobs : Inside(p)}
  /\ pc' = [p \in Actors |-> IF p \in Jobs /\ pc[p] \in {"queued", "stage"}
                              THEN "end" ELSE pc[p]]
  /\ UNCHANGED <<lock, stage, phase, ask, at, got, gpu>>

Step(p) == Start(p) \/ Enter(p) \/ Reserve(p) \/ Try(p) \/ GiveUp(p)
           \/ Finish(p) \/ Leave(p) \/ WorkersEnd(p)

Next == \/ \E p \in Actors : Step(p) \/ Fail(p) \/ Killed(p) \/ WrapperDies(p)
        \/ RunnerDies

Spec == Init /\ [][Next]_vars

\* Every process is scheduled, wakes up and ends its work; none has to fail.
FairSpec == Spec /\ \A p \in Actors : WF_vars(Step(p))

----------------------------------------------------------------------------
(* Properties *)

\* Who works on its stem as its owner: not the stages whose keeper is dead, nor
\* the workers of a job's, which only compute.
Owner(p) == /\ p \notin alone
            /\ \/ Running(p)
               \/ pc[p] = "workers" /\ p \in Sessions

\* "A second process for the same stem fails immediately; it never shares managed
\* paths or output files" (CONFIG.md:47-48), as long as the keeper of the stem
\* lives: of the stages that run, the workers they leave and the jobs between
\* two stages, no two have one stem.
OneOwner ==
  \A p, q \in Actors : p # q /\ StemOf[p] = StemOf[q] => ~(Owner(p) /\ Owner(q))

\* What a phase asks of a resource.
Reserved(p, r) ==
  LET asks == {i \in 1 .. Len(Wanted(p)) : Wanted(p)[i].resource = r}
  IN  IF asks = {} THEN 0 ELSE Wanted(p)[CHOOSE i \in asks : TRUE].count

\* "Acquire exactly count slots without holding a partial reservation"
\* (resource_tokens.py:204): a phase that works holds what it asked for and no
\* more, and so do the workers that a killed one leaves; one that is about to
\* try again holds nothing of what it lacks; all the others hold nothing.
ExactGrant ==
  \A p \in Actors :
    /\ pc[p] \in {"work", "workers"} =>
         \A r \in Resources : Cardinality(Held(p, r)) = Reserved(p, r)
    /\ pc[p] = "scan" /\ at[p] = 0 => Held(p, Request(p).resource) = {}
    /\ pc[p] \notin {"scan", "work", "workers"} =>
         \A r \in Resources : Held(p, r) = {}

\* Nobody waits for ever: slots that are tried one at a time, taken back when
\* too few are free and tried again serve every job in the end, because the
\* widths of the runner's jobs fit the machine together; what workers keep of a
\* dead process comes back with them.
AllEnd == <>(\A p \in Actors : pc[p] = "end")
=============================================================================
