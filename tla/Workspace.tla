----------------------------- MODULE Workspace -----------------------------
(***************************************************************************)
(* The shared tmpfs workspace of the encoder's host tools                  *)
(* (src/tools/tmpfs_workspace.py) and the processes that use it: an        *)
(* encoder run (src/tools/sim.py), a tool that reads one entry and writes  *)
(* another (run_file_command, render_analysis.py), and the pipeline parent *)
(* that takes over a run's lease (src/tools/parallel_run.py).              *)
(*                                                                         *)
(* Every operation runs under one flock, but it is many file operations:   *)
(* a process may be killed between any two of them, and the kernel then    *)
(* drops the lock.  A directory is removed file by file, so a kill leaves  *)
(* it torn.  A process may get the pid of a dead one that left leases.     *)
(*                                                                         *)
(* An operator Name_Bug is Name with a plausible bug in it, used by the    *)
(* mutation runs of PROJECT.json only.                                     *)
(***************************************************************************)
EXTENDS Integers, FiniteSets, Sequences, SequencesExt, FiniteSetsExt, Functions

CONSTANTS
  Sims,      \* encoder runs
  Tools,     \* tools: lease Input, write Output, release both
  Parents,   \* pipeline parents
  Child,     \* [Parents -> Sims]
  Entries,   \* names under artifacts/
  Output,    \* [Sims \cup Tools -> Entries]
  Input,     \* [Tools -> Entries]
  Identity,  \* [Sims -> reuse tokens]
  Forced,    \* the sims run with CBRSIM_FORCE_REENCODE
  Required,  \* [Sims \cup Tools -> units]: required_bytes of the output
  Derived,   \* [Tools -> units]: required_bytes leased on the input
  Capacity,  \* units of the filesystem or quota
  MinFree,   \* units kept free
  MaxEvents, \* bound: processes started and processes killed
  None

Pids == Sims \cup Tools \cup Parents

\* A directory under artifacts/: its marker with the reuse token, whether its
\* data validates, and the units it takes.
Artifacts == [managed : BOOLEAN,
              token : {None} \cup {Identity[s] : s \in Sims},
              whole : BOOLEAN, size : Nat]

ASSUME WorkspaceAssumption ==
  /\ IsFiniteSet(Pids) /\ IsFiniteSet(Entries)
  /\ Sims \cap Tools = {} /\ (Sims \cup Tools) \cap Parents = {}
  /\ Child \in [Parents -> Sims]
  /\ \A p, q \in Parents : Child[p] = Child[q] => p = q
  /\ Output \in [Sims \cup Tools -> Entries] /\ Input \in [Tools -> Entries]
  /\ \A w \in Tools : Input[w] # Output[w]
  /\ Forced \subseteq Sims
  /\ Required \in [Sims \cup Tools -> Nat \ {0}]
  /\ Derived \in [Tools -> Nat]
  /\ Capacity \in Nat /\ MinFree \in Nat /\ MaxEvents \in Nat
  /\ None \notin Pids \cup Entries \cup Artifacts
  /\ \A s \in Sims : Identity[s] # None
  \* The token names the length, the size and the rate of the movie.
  /\ \A r, s \in Sims : Identity[r] = Identity[s] => Required[r] = Required[s]

VARIABLES
  art,      \* [Entries -> the directory or None]
  order,    \* the directories there are, oldest mtime first
  leases,   \* the marker files
  lock,     \* who is inside _workspace_lock, or None
  proc,     \* the processes
  ready, ack, \* the handoff directory of each sim
  events      \* starts and kills so far

vars == <<art, order, leases, lock, proc, ready, ack, events>>

Ended    == {"done", "failed"}
InLock   == {"reset", "torn", "plan", "evict", "unlink", "grant", "publish"}
\* The output is leased and being used, and nothing went wrong so far.
Holding  == {"make", "check", "hit", "mark", "handoff", "release"}

Running(p) == p \in Pids /\ proc[p].pc \notin Ended
Live       == {l \in leases : Running(l.pid)}
Active_Bug == {l.entry : l \in {k \in Live : k.required > 0}}
Active     == {l.entry : l \in Live}
Size(e)    == IF art[e] = None THEN 0 ELSE art[e].size
Free       == Capacity - SumFunction([e \in Entries |-> Size(e)])

\* What the live leases still claim: the largest claim on each entry, less
\* what the entry already takes.
Claim(e) ==
  LET most == Max({0} \cup {l.required : l \in {k \in Live : k.entry = e}})
  IN  Max({0, most - Size(e)})
ActiveReservation_Bug == 0
ActiveReservation == SumFunction([e \in Entries |-> Claim(e)])

Own(p)    == proc[p].own
Wants(p)  == IF p \in Parents THEN 0
             ELSE IF proc[p].op = "pin" THEN Derived[p] ELSE Required[p]
Target(p) == IF p \in Parents THEN Output[Child[p]]
             ELSE IF proc[p].op = "pin" THEN Input[p] ELSE Output[p]
Reuse(p)  == IF p \in Sims /\ p \notin Forced /\ ~proc[p].fresh
             THEN Identity[p] ELSE None

Started(p) == [pc    |-> IF p \in Sims THEN "activate" ELSE "pin",
               op    |-> IF p \in Sims THEN "activate" ELSE "pin",
               own   |-> {},      \* the leases it will release
               fresh |-> FALSE,   \* its cached entry was rejected
               goal  |-> 0,       \* target_free and the candidates of
               todo  |-> {},      \*   an eviction under way
               wrote |-> 0]
Exited(p, how) == [Started(p) EXCEPT !.pc = how]
Moved(p, at)   == [proc EXCEPT ![p] = IF at \in Ended THEN Exited(p, at)
                                      ELSE [@ EXCEPT !.pc = at]]

\* Entries nobody here writes may be left by earlier tools, if they fit.
Init ==
  /\ \E old \in SUBSET (Entries \ Range(Output)) :
       /\ Cardinality(old) <= Capacity
       /\ art = [e \in Entries |->
                   IF e \notin old THEN None
                   ELSE [managed |-> TRUE, token |-> None, whole |-> TRUE,
                         size |-> 1]]
       /\ order = SetToSeq(old)
  /\ leases = {}
  /\ lock = None
  /\ proc = [p \in Pids |-> Exited(p, "done")] /\ events = 0
  /\ ready = [s \in Sims |-> FALSE] /\ ack = [s \in Sims |-> FALSE]

----------------------------------------------------------------------------
(* Inside _workspace_lock *)

Sweep == leases' = Live   \* _lease_records unlinks the markers of the dead

\* Marker names are unique: n tells two leases of one pid apart.
NewLease(p, live) ==
  [pid |-> p, entry |-> Target(p), required |-> Wants(p),
   n |-> CHOOSE n \in 0 .. Cardinality(live) :
           \A l \in live : l.pid = p => l.n # n]

\* An operation that could not get its lease.  An encoder run has nothing
\* to release; a tool releases its input; a parent fails its job, having
\* terminated the child when the path did not resolve.
Refused(p) == IF Own(p) = {} THEN "failed" ELSE "failout"

\* activate_directory / allocate_file, up to the first thing it removes.
Activate(p) ==
  /\ proc[p].pc = "activate" /\ lock = None
  /\ LET e == Output[p]
         hit == /\ Reuse(p) # None /\ art[e] # None
                /\ art[e].token = Reuse(p) /\ art[e].managed
     IN  CASE e \in Active ->
                /\ Sweep
                /\ proc' = Moved(p, Refused(p))
                /\ UNCHANGED lock
           [] e \notin Active /\ hit ->
                LET l == NewLease(p, Live)
                IN  /\ leases' = Live \cup {l}
                    /\ proc' = [proc EXCEPT ![p].pc = "check",
                                            ![p].own = @ \cup {l}]
                    /\ UNCHANGED lock
           [] OTHER ->
                /\ Sweep
                /\ lock' = p
                /\ proc' = [proc EXCEPT ![p].pc =
                              IF art[e] = None THEN "plan" ELSE "reset"]
  /\ UNCHANGED <<art, order, ready, ack, events>>

\* shutil.rmtree, begun: any of the files may be gone.
Tear(e) ==
  \E m \in {FALSE, art[e].managed}, t \in {None, art[e].token},
     n \in {0, art[e].size} :
    art' = [art EXCEPT ![e] =
              [managed |-> m, token |-> t, whole |-> FALSE, size |-> n]]

Unlinked(e) ==
  /\ art' = [art EXCEPT ![e] = None]
  /\ order' = RemoveFirst(order, e)

\* activate_directory removes what is there before it evicts.
Reset(p) ==
  /\ proc[p].pc = "reset"
  /\ Tear(Output[p])
  /\ proc' = [proc EXCEPT ![p].pc = "torn"]
  /\ UNCHANGED <<order, leases, lock, ready, ack, events>>

ResetDone(p) ==
  /\ proc[p].pc = "torn"
  /\ Unlinked(Output[p])
  /\ proc' = [proc EXCEPT ![p].pc = "plan"]
  /\ UNCHANGED <<leases, lock, ready, ack, events>>

\* lease_managed_path, up to its eviction.  A parent's path is leased when
\* the run is ready; an unresolved path is a failure of the parent, which
\* terminates the child, and no lease at all for a tool.  The poll of the child
\* and the wait for the lock behind it are one step: a child that ends between
\* them ends without its acknowledgement, and the parent fails a little later.
Pin(p) ==
  /\ proc[p].pc = "pin" /\ lock = None
  /\ p \in Parents => ready[Child[p]] /\ Running(Child[p])
  /\ LET e == Target(p)
     IN  CASE art[e] # None /\ art[e].managed ->
                /\ lock' = p
                /\ proc' = [proc EXCEPT ![p].pc = "plan"]
           [] p \in Tools /\ (art[e] = None \/ ~art[e].managed) ->
                /\ proc' = [proc EXCEPT ![p].pc = "activate",
                                        ![p].op = "activate"]
                /\ UNCHANGED lock
           [] OTHER ->
                /\ proc' = [proc EXCEPT ![p] = Exited(p, "failed"),
                              ![Child[p]] = Exited(Child[p], "failed")]
                /\ UNCHANGED lock
  /\ UNCHANGED <<art, order, leases, ready, ack, events>>

\* _evict_old_entries_locked: its goal and its candidates.
Plan(p) ==
  /\ proc[p].pc = "plan"
  /\ LET goal == Wants(p) + ActiveReservation + MinFree
     IN  IF goal > Capacity
         THEN /\ lock' = None
              /\ proc' = Moved(p, Refused(p))
         ELSE /\ UNCHANGED lock
              /\ proc' =
                   IF Free >= goal THEN [proc EXCEPT ![p].pc = "grant"]
                   ELSE [proc EXCEPT
                     ![p].pc = "evict", ![p].goal = goal,
                     ![p].todo = {e \in Entries \ Active :
                                   /\ art[e] # None
                                   /\ proc[p].op = "pin" => e # Target(p)}]
  /\ Sweep
  /\ UNCHANGED <<art, order, ready, ack, events>>

\* The candidate with the oldest mtime; none changes under the lock.
Oldest(e, S) ==
  /\ e \in S
  /\ \E i \in DOMAIN order :
       order[i] = e /\ \A j \in 1 .. i - 1 : order[j] \notin S

Evict(p) ==
  /\ proc[p].pc = "evict"
  /\ \/ /\ proc[p].todo = {}
        /\ proc' = [Moved(p, Refused(p)) EXCEPT ![p].goal = 0]
        /\ lock' = None
        /\ UNCHANGED art
     \/ \E e \in Entries :
          /\ Oldest(e, proc[p].todo)
          /\ Tear(e)
          /\ proc' = [proc EXCEPT ![p].pc = "unlink"]
          /\ UNCHANGED lock
  /\ UNCHANGED <<order, leases, ready, ack, events>>

EvictDone(p) ==
  /\ proc[p].pc = "unlink"
  /\ \E e \in Entries :
       /\ Oldest(e, proc[p].todo)
       /\ Unlinked(e)
       /\ proc' = IF Free' >= proc[p].goal
                  THEN [proc EXCEPT ![p].pc = "grant", ![p].goal = 0,
                                    ![p].todo = {}]
                  ELSE [proc EXCEPT ![p].pc = "evict", ![p].todo = @ \ {e}]
  /\ UNCHANGED <<leases, lock, ready, ack, events>>

\* Room is made: a pinned path is leased; an output directory is created.
Grant_Bug(p) ==
  /\ proc[p].pc = "grant"
  /\ IF proc[p].op = "pin"
     THEN LET l == NewLease(p, leases)
          IN  /\ leases' = leases \cup {l}
              /\ lock' = None
              /\ proc' = [proc EXCEPT
                            ![p].own = @ \cup {l},
                            ![p].pc = IF p \in Tools THEN "activate"
                                      ELSE "child",
                            ![p].op = "activate"]
              /\ ack' = IF p \in Tools THEN ack
                        ELSE [ack EXCEPT ![Child[p]] = TRUE]
              /\ UNCHANGED <<art, order>>
     ELSE /\ art' = [art EXCEPT ![Output[p]] =
                       [managed |-> FALSE, token |-> None, whole |-> FALSE,
                        size |-> 0]]
          /\ order' = Append(order, Output[p])
          /\ proc' = [proc EXCEPT ![p].pc = "publish"]
          /\ lock' = None
          /\ UNCHANGED <<leases, ack>>
  /\ UNCHANGED <<ready, events>>

Grant(p) ==
  /\ proc[p].pc = "grant"
  /\ IF proc[p].op = "pin"
     THEN LET l == NewLease(p, leases)
          IN  /\ leases' = leases \cup {l}
              /\ lock' = None
              /\ proc' = [proc EXCEPT
                            ![p].own = @ \cup {l},
                            ![p].pc = IF p \in Tools THEN "activate"
                                      ELSE "child",
                            ![p].op = "activate"]
              /\ ack' = IF p \in Tools THEN ack
                        ELSE [ack EXCEPT ![Child[p]] = TRUE]
              /\ UNCHANGED <<art, order>>
     ELSE /\ art' = [art EXCEPT ![Output[p]] =
                       [managed |-> FALSE, token |-> None, whole |-> FALSE,
                        size |-> 0]]
          /\ order' = Append(order, Output[p])
          /\ proc' = [proc EXCEPT ![p].pc = "publish"]
          /\ UNCHANGED <<leases, lock, ack>>
  /\ UNCHANGED <<ready, events>>

Publish_Bug(p) ==
  /\ proc[p].pc = "publish"
  /\ art' = [art EXCEPT ![Output[p]].managed = TRUE]
  /\ proc' = [proc EXCEPT ![p].pc = "make"]
  /\ lock' = None
  /\ UNCHANGED <<order, leases, ready, ack, events>>

Publish(p) ==
  /\ proc[p].pc = "publish"
  /\ art' = [art EXCEPT ![Output[p]].managed = TRUE]
  /\ LET l == NewLease(p, leases)
     IN  /\ leases' = leases \cup {l}
         /\ proc' = [proc EXCEPT ![p].pc = "make", ![p].own = @ \cup {l}]
  /\ lock' = None
  /\ UNCHANGED <<order, ready, ack, events>>

----------------------------------------------------------------------------
(* The users *)

Touched(e) == IF art[e] = None THEN order
              ELSE Append(RemoveFirst(order, e), e)

\* The tool's input lease is held.
Pinned(p) == p \in Tools /\ \E l \in Own(p) : l.entry = Input[p]

\* Files appear in the output, and a tool's derived files in its input.
\* A full filesystem, or a directory that is gone, fails the writer.
Asked(p)  == Required[p] + (IF Pinned(p) THEN Derived[p] ELSE 0)

Write(p) ==
  /\ proc[p].pc = "make" /\ proc[p].wrote < Asked(p)
  /\ IF Free = 0 \/ art[Output[p]] = None
     THEN proc' = [proc EXCEPT ![p].pc = "failing"] /\ UNCHANGED art
     ELSE LET e == IF proc[p].wrote < Required[p] THEN Output[p]
                   ELSE Input[p]
          IN  /\ art' = [art EXCEPT ![e].size = @ + 1]
              /\ proc' = [proc EXCEPT ![p].wrote = @ + 1]
  /\ UNCHANGED <<order, leases, lock, ready, ack, events>>

\* The last file is written: now the data validates.
Finish(p) ==
  /\ proc[p].pc = "make" /\ proc[p].wrote > 0 /\ art[Output[p]] # None
  /\ art' = [art EXCEPT ![Output[p]].whole = TRUE]
  /\ proc' = [proc EXCEPT ![p].pc = IF p \in Sims THEN "mark"
                                    ELSE "release"]
  /\ UNCHANGED <<order, leases, lock, ready, ack, events>>

\* An encoder error: the run is not marked, but goes through the same
\* finally clause, and ends with a non-zero status.
Error(p) ==
  /\ proc[p].pc = "make" /\ p \in Sims
  /\ proc' = [proc EXCEPT ![p].pc = "failing"]
  /\ UNCHANGED <<art, order, leases, lock, ready, ack, events>>

\* validate_completed_data on a reused entry.
Check_Bug(p) ==
  /\ proc[p].pc = "check"
  /\ proc' = [proc EXCEPT ![p].pc = "hit"]
  /\ UNCHANGED <<art, order, leases, lock, ready, ack, events>>

Check(p) ==
  /\ proc[p].pc = "check"
  /\ proc' = [proc EXCEPT ![p].pc = IF art[Output[p]].whole THEN "hit"
                                    ELSE "reject"]
  /\ UNCHANGED <<art, order, leases, lock, ready, ack, events>>

\* A rejected entry is released and activated again without a token: in
\* between, it is anyone's.
Reject(p) ==
  /\ proc[p].pc = "reject" /\ lock = None
  /\ leases' = leases \ Own(p)
  /\ order' = Touched(Output[p])
  /\ proc' = [proc EXCEPT ![p].pc = "activate", ![p].own = {},
                          ![p].fresh = TRUE]
  /\ UNCHANGED <<art, lock, ready, ack, events>>

\* mark_directory_complete, after validating the data once more.
Mark(p) ==
  /\ proc[p].pc = "mark" /\ lock = None
  /\ IF art[Output[p]].whole /\ Own(p) \subseteq leases
     THEN /\ art' = [art EXCEPT ![Output[p]].token = Identity[p]]
          /\ order' = Touched(Output[p])
          /\ proc' = [proc EXCEPT ![p].pc = "handoff"]
     ELSE /\ proc' = Moved(p, "failed")
          /\ UNCHANGED <<art, order>>
  /\ UNCHANGED <<leases, lock, ready, ack, events>>

\* _handoff_sim_tmpfs_lease: a run with a parent says it is ready and waits.
Adopted(p) == \E q \in Parents : Child[q] = p

Ready(p) ==
  /\ proc[p].pc \in {"handoff", "hit", "failing"} /\ p \in Sims
  /\ Adopted(p) /\ ~ready[p]
  /\ ready' = [ready EXCEPT ![p] = TRUE]
  /\ UNCHANGED <<art, order, leases, lock, proc, ack, events>>

Handoff(p) ==
  /\ proc[p].pc \in {"handoff", "hit", "failing"} /\ p \in Sims
  /\ Adopted(p) => ack[p]
  /\ proc' = [proc EXCEPT ![p].pc = IF @ = "failing" THEN "failout"
                                    ELSE "release"]
  /\ UNCHANGED <<art, order, leases, lock, ready, ack, events>>

\* No acknowledgement for 60 s: the error leaves the lease to the pid.
Timeout_Bug(p) ==
  /\ proc[p].pc \in {"handoff", "hit", "failing"} /\ p \in Sims
  /\ ~ready[p] /\ Adopted(p)
  /\ proc' = Moved(p, "failed")
  /\ UNCHANGED <<art, order, leases, lock, ready, ack, events>>

Timeout(p) ==
  /\ proc[p].pc \in {"handoff", "hit", "failing"} /\ p \in Sims
  /\ ready[p] /\ ~ack[p]
  /\ proc' = Moved(p, "failed")
  /\ UNCHANGED <<art, order, leases, lock, ready, ack, events>>

\* Lease.release, the output's before the input's; the entry is touched.
Release(p) ==
  /\ \/ proc[p].pc \in {"release", "failout"}
     \/ proc[p].pc = "failing" /\ p \in Tools
  /\ Own(p) # {} /\ lock = None
  /\ \E l \in Own(p) :
       /\ \A k \in Own(p) : k.entry # l.entry => p \in Tools
                                                 /\ l.entry = Output[p]
       /\ leases' = leases \ {l}
       /\ order' = Touched(l.entry)
       /\ LET rest == Own(p) \ {l}
              end  == IF proc[p].pc = "release" THEN "done" ELSE "failed"
          IN  proc' = IF rest = {} THEN Moved(p, end)
                      ELSE [proc EXCEPT ![p].own = rest]
  /\ UNCHANGED <<art, lock, ready, ack, events>>

\* The parent: its child's exit, the disc build that reads the entry, and
\* the release when the job ends.
ChildExit(q) ==
  /\ q \in Parents
  /\ \/ proc[q].pc = "child" /\ ~Running(Child[q])
        /\ proc' = Moved(q, IF proc[Child[q]].pc = "done" THEN "disc"
                            ELSE "failout")
     \/ proc[q].pc = "pin" /\ ~Running(Child[q])
        /\ proc' = Moved(q, "failed")
  /\ UNCHANGED <<art, order, leases, lock, ready, ack, events>>

Disc(q) ==
  /\ proc[q].pc = "disc"
  /\ proc' = [proc EXCEPT ![q].pc = "release"]
  /\ UNCHANGED <<art, order, leases, lock, ready, ack, events>>

----------------------------------------------------------------------------
(* Processes come and go *)

\* A new process p.  Leases a dead p left belong to a pid that is gone, or
\* are taken for the new process's when it got the same pid (bound: one).
Start(p) ==
  /\ ~Running(p) /\ events < MaxEvents
  /\ p \in Sims => ~Adopted(p)
  /\ p \in Parents => ~Running(Child[p])
  /\ LET mine == {l \in leases : l.pid = p}
         old  == {[l EXCEPT !.pid = None] : l \in mine}
     IN  \/ leases' = (leases \ mine) \cup old
         \/ Cardinality(mine) = 1 /\ UNCHANGED leases
  /\ proc' = [x \in Pids |->
                IF x = p \/ (p \in Parents /\ x = Child[p]) THEN Started(x)
                ELSE proc[x]]
  /\ ready' = [s \in Sims |-> ready[s] /\ ~(p \in Parents /\ s = Child[p])]
  /\ ack'   = [s \in Sims |-> ack[s] /\ ~(p \in Parents /\ s = Child[p])]
  /\ events' = events + 1
  /\ UNCHANGED <<art, order, lock>>

\* Killed anywhere: its files stay, its flock is dropped.
Crash(p) ==
  /\ Running(p) /\ events < MaxEvents
  /\ proc' = Moved(p, "failed")
  /\ lock' = IF lock = p THEN None ELSE lock
  /\ events' = events + 1
  /\ UNCHANGED <<art, order, leases, ready, ack>>

Step(p) ==
  \/ Activate(p) \/ Reset(p) \/ ResetDone(p) \/ Pin(p) \/ Plan(p)
  \/ Evict(p) \/ EvictDone(p) \/ Grant(p) \/ Publish(p)
  \/ Write(p) \/ Finish(p) \/ Error(p) \/ Check(p) \/ Reject(p) \/ Mark(p)
  \/ Ready(p) \/ Handoff(p) \/ Timeout(p) \/ Release(p) \/ ChildExit(p)
  \/ Disc(p)

Next == \E p \in Pids : Step(p) \/ Start(p) \/ Crash(p)

\* A process that is not killed goes on.  With finitely many events the flock
\* is asked for finitely often, so a waiter gets it in any order.
Fairness == \A p \in Pids : WF_vars(Step(p))

Spec     == Init /\ [][Next]_vars
FairSpec == Spec /\ Fairness

----------------------------------------------------------------------------
(* Properties *)

LeaseRecord == [pid : Pids \cup {None}, entry : Entries,
                required : 0 .. Capacity, n : Nat]

\* The markers, the directories and the lock's holder are what the code can
\* produce; order lists the directories there are, once each; the lock is
\* held just while its holder is inside an operation.
TypeOK ==
  /\ \A e \in Entries : art[e] # None => art[e] \in Artifacts
  /\ \A l \in leases : l \in LeaseRecord
  /\ ToSet(order) = {e \in Entries : art[e] # None}
  /\ Len(order) = Cardinality(ToSet(order))
  /\ \A p \in Pids : (lock = p) = (proc[p].pc \in InLock)
  /\ events \in 0 .. MaxEvents
  /\ ready \in [Sims -> BOOLEAN] /\ ack \in [Sims -> BOOLEAN]
  /\ Free >= 0

\* "never removes a live lease owned by another encoder/render process":
\* while a live process owns a lease, nobody else's step removes, tears,
\* shrinks or replaces the leased directory.
LeaseKept ==
  \A p \in Pids : Running(p) /\ Running(p)' =>
    \A l \in Own(p) : l \in Own(p)' =>
      LET a == art[l.entry]
          b == art'[l.entry]
      IN  b # None /\ b.managed /\ b.size >= a.size /\ (a.whole => b.whole)
LeasesKept == [][LeaseKept]_vars

\* A run that skips its simulation has the complete data of a run of the
\* same identity in front of it, whatever was killed or torn before.
ReusedIsWhole ==
  \A s \in Sims : proc[s].pc = "hit" =>
    LET a == art[Output[s]]
    IN  a # None /\ a.whole /\ a.token = Identity[s]

\* The parent that goes on to the disc build finds what its child left: no
\* eviction or second run came between the child's exit and its own lease.
PinnedIsWhole ==
  \A q \in Parents : proc[q].pc = "disc" =>
    LET a == art[Output[Child[q]]]
    IN  a # None /\ a.whole /\ a.token = Identity[Child[q]]

\* Two processes never fill one directory.
OneMaker ==
  \A p, q \in Sims \cup Tools :
    /\ p # q /\ Output[p] = Output[q]
    => ~({proc[p].pc, proc[q].pc} \subseteq {"make", "mark"})

\* "preserving concurrent reservations": what the live writers have yet to
\* write of what they asked for is free.
Owed(p) == IF proc[p].pc = "make" THEN Asked(p) - proc[p].wrote ELSE 0
PromisedSpace == SumFunction([p \in Sims \cup Tools |-> Owed(p)]) <= Free

\* "Lease an existing direct managed path and reserve derived space": the
\* same for a tool that adds files to a finished entry.
DerivedSpace ==
  (\A p \in Tools : Pinned(p) => art[Input[p]].whole) => PromisedSpace

\* Whatever was started ends: no lease, lock, acknowledgement or child is
\* waited for without end, whoever is killed.
RunsEnd == <>[](\A p \in Pids : ~Running(p))
=============================================================================
