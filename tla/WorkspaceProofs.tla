-------------------------- MODULE WorkspaceProofs --------------------------
(***************************************************************************)
(* The leases of the workspace, for any number of runs, tools, parents,    *)
(* directories, starts and kills.  The argument: who is inside the lock    *)
(* has seen that nobody leases what it is about to remove, and nobody can  *)
(* take a lease on it before it leaves.                                    *)
(*                                                                         *)
(* Then the space.  BooksInv says what the markers, the tokens, the order  *)
(* and the processes' records are: it makes the model's types inductive.   *)
(* SpaceInv says that what the makers owe is free, and that an eviction    *)
(* aims at room for all of them: the reservations of their leases are an   *)
(* upper bound of what they owe, directory by directory.                   *)
(***************************************************************************)
EXTENDS Workspace, FiniteSetTheorems, SequenceTheorems, WellFoundedInduction, TLAPS

Users           == Sims \cup Tools
HasLease(p, e)  == \E l \in Own(p) : l.entry = e
HasOutput(p)    == HasLease(p, Output[p])
Pinning(p)      == proc[p].pc \in InLock /\ proc[p].op = "pin"
Making(p)       == proc[p].pc \in InLock /\ proc[p].op = "activate"

Shape ==
  /\ proc = [p \in Pids |-> proc[p]]
  /\ \A p \in Pids :
       proc[p] = [pc |-> proc[p].pc, op |-> proc[p].op, own |-> proc[p].own,
                  fresh |-> proc[p].fresh, goal |-> proc[p].goal,
                  todo |-> proc[p].todo, wrote |-> proc[p].wrote]
  /\ art \in [Entries -> {None} \cup Artifacts]
  /\ ready \in [Sims -> BOOLEAN] /\ ack \in [Sims -> BOOLEAN]

\* Where each kind of process can be.
PlaceOK(p) ==
  /\ proc[p].op \in {"pin", "activate"}
  /\ proc[p].pc \in {"activate", "reset", "torn", "publish"} =>
       proc[p].op = "activate"
  /\ proc[p].pc = "pin" => proc[p].op = "pin"
  /\ p \in Sims =>
       /\ proc[p].op = "activate"
       /\ proc[p].pc \in Ended \cup InLock \cup Holding
                         \cup {"activate", "reject", "failing", "failout"}
  /\ p \in Tools =>
       proc[p].pc \in Ended \cup InLock
                      \cup {"pin", "activate", "make", "failing", "release",
                            "failout"}
  /\ p \in Parents =>
       /\ proc[p].pc \in Ended \cup InLock
                         \cup {"pin", "child", "disc", "release", "failout"}
       /\ proc[p].pc \in InLock => proc[p].op = "pin"

\* What a process thinks it leases, it does, and it is there.
OwnOK(p) ==
  /\ Own(p) \subseteq leases
  /\ proc[p].pc \in Ended => Own(p) = {}
  /\ \A l \in Own(p) :
       /\ l.pid = p /\ l.entry \in Entries
       /\ art[l.entry] # None /\ art[l.entry].managed
       /\ p \in Sims => l.entry = Output[p]

\* Inside the lock: a path to be leased stays, and is no candidate; an output
\* to be removed or created, and a candidate, is nobody's.
LockedOK(p) ==
  /\ (lock = p) <=> (proc[p].pc \in InLock)
  /\ Pinning(p) => /\ art[Target(p)] # None /\ art[Target(p)].managed
                   /\ Target(p) \notin proc[p].todo
  /\ Making(p) => \A x \in Pids : ~HasLease(x, Output[p])
  /\ proc[p].pc \in {"reset", "torn", "publish"} => art[Output[p]] # None
  /\ proc[p].pc \in {"evict", "unlink"} =>
       /\ proc[p].todo \subseteq Entries
       /\ \A e \in proc[p].todo :
            art[e] # None /\ \A x \in Pids : ~HasLease(x, e)
  /\ proc[p].pc \notin {"evict", "unlink"} => proc[p].todo = {}

\* Where a process relies on its lease, it has it, alone among the makers.
HoldOK(p) ==
  /\ proc[p].pc \in {"make", "mark", "check", "hit", "handoff", "reject"} =>
       HasOutput(p)
  /\ p \in Sims /\ proc[p].pc \in {"release", "failing"} => HasOutput(p)
  /\ p \in Users /\ HasOutput(p) =>
       \A x \in Users \ {p} : Output[x] = Output[p] => ~HasOutput(x)

Good(s) == /\ art[Output[s]] # None /\ art[Output[s]].whole
           /\ art[Output[s]].token = Identity[s]

DataOK(s) ==
  /\ proc[s].pc = "check" => art[Output[s]].token = Identity[s]
  /\ proc[s].pc \in {"hit", "handoff", "release"} => Good(s)

\* A parent and its child.
ParentOK(q) ==
  LET s == Child[q]
  IN  /\ proc[q].pc \in {"pin"} \cup InLock => ~ack[s]
      /\ Running(q) /\ proc[s].pc \in {"release", "done"} => ack[s]
      /\ proc[q].pc = "pin" /\ ready[s] =>
           proc[s].pc \in {"handoff", "hit", "failing", "failed"}
      /\ proc[q].pc \in InLock \cup {"child", "disc"} =>
           \A x \in Users \ {s} : Output[x] = Output[s] => ~HasOutput(x)
      /\ proc[q].pc \in {"child", "disc"} => HasLease(q, Output[s])
      /\ proc[q].pc \in {"child", "disc"} /\ proc[s].pc = "done" => Good(s)
      /\ proc[q].pc = "disc" => proc[s].pc = "done"

\* The inductive invariant.
WInv ==
  /\ Shape
  /\ \A p \in Pids : PlaceOK(p) /\ OwnOK(p) /\ LockedOK(p) /\ HoldOK(p)
  /\ \A s \in Sims : DataOK(s)
  /\ \A q \in Parents : ParentOK(q)


----------------------------------------------------------------------------
(* Words for what a step does, and lemmas about them *)

Others(p) == \A x \in Pids \ {p} : proc'[x] = proc[x]
Fixed(e)  == \A x \in Entries \ {e} : art'[x] = art[x]
Kept(p)   == /\ Own(p)' = Own(p) /\ proc'[p].op = proc[p].op
             /\ proc'[p].todo = proc[p].todo

LEMMA Names ==
  /\ Sims \cap Tools = {} /\ Users \cap Parents = {}
  /\ Pids = Users \cup Parents /\ Users = Sims \cup Tools
  /\ \A p \in Users : Output[p] \in Entries
  /\ \A p \in Tools : Input[p] \in Entries /\ Input[p] # Output[p]
  /\ \A q \in Parents : Child[q] \in Sims
  /\ \A q, r \in Parents : Child[q] = Child[r] => q = r
  /\ None \notin Pids /\ None \notin Entries /\ None \notin Artifacts
  /\ \A s \in Sims : Identity[s] # None
  BY WorkspaceAssumption DEF Pids, Users

LEMMA TargetIsEntry ==
  \A p \in Pids : PlaceOK(p) => Target(p) \in Entries
  BY Names DEF Target, PlaceOK

\* The step that ends an operation without its lease.
Refuses(p) ==
  /\ Own(p)' = Own(p) /\ proc'[p].todo = {}
  /\ proc'[p].op \in {"pin", "activate"}
  /\ p \in Sims => proc'[p].op = "activate"
  /\ proc'[p].pc = IF Own(p) = {} THEN "failed" ELSE "failout"

\* The end of a process.
Ends(p) ==
  /\ proc'[p].pc = "failed" /\ Own(p)' = {} /\ proc'[p].todo = {}
  /\ proc'[p].op \in {"pin", "activate"}
  /\ p \in Sims => proc'[p].op = "activate"

LEMMA EndStep ==
  ASSUME NEW p \in Pids, proc'[p] = Exited(p, "failed")
  PROVE  Ends(p)
  BY DEF Ends, Exited, Started, Own

New(p, x) == x = p \/ (p \in Parents /\ x = Child[p])
Starts(p) ==
  /\ proc'[p].pc = (IF p \in Sims THEN "activate" ELSE "pin")
  /\ proc'[p].op = (IF p \in Sims THEN "activate" ELSE "pin")
  /\ Own(p)' = {} /\ proc'[p].todo = {}

\* A writer changes nothing of a directory but its size and that it is whole.
Grown == \A e \in Entries :
  /\ art'[e] = None <=> art[e] = None
  /\ art[e] # None => /\ art'[e].managed = art[e].managed
                      /\ art'[e].token = art[e].token
                      /\ (art[e].whole => art'[e].whole)
                      /\ art'[e].size >= art[e].size

LEMMA TearFacts ==
  ASSUME art \in [Entries -> {None} \cup Artifacts], NEW e \in Entries,
         art[e] # None, Tear(e)
  PROVE  /\ Fixed(e) /\ art'[e] # None
         /\ art' \in [Entries -> {None} \cup Artifacts]
<1>1. art[e] \in Artifacts
  OBVIOUS
<1>2. PICK m \in {FALSE, art[e].managed}, t \in {None, art[e].token},
           n \in {0, art[e].size} :
        art' = [art EXCEPT ![e] =
                  [managed |-> m, token |-> t, whole |-> FALSE, size |-> n]]
  BY DEF Tear
<1>3. [managed |-> m, token |-> t, whole |-> FALSE, size |-> n] \in Artifacts
  <2> DEFINE T == {None} \cup {Identity[s] : s \in Sims}
  <2>1. art[e] \in [managed : BOOLEAN, token : T, whole : BOOLEAN, size : Nat]
    BY <1>1 DEF Artifacts
  <2>2. None \in T
    OBVIOUS
  <2> HIDE DEF T
  <2>3. art[e].managed \in BOOLEAN /\ art[e].token \in T /\ art[e].size \in Nat
    BY <2>1
  <2>4. m \in BOOLEAN /\ t \in T /\ n \in Nat
    <3>1. m \in BOOLEAN
      BY <1>2, <2>3, Zenon
    <3>2. t \in T /\ n \in Nat
      BY <1>2, <2>2, <2>3
    <3> QED
      BY <3>1, <3>2
  <2>5. [managed |-> m, token |-> t, whole |-> FALSE, size |-> n]
          \in [managed : BOOLEAN, token : T, whole : BOOLEAN, size : Nat]
    BY <2>4
  <2> QED
    BY <2>5 DEF Artifacts, T
<1> QED
  BY <1>2, <1>3, Names DEF Fixed

LEMMA RefusedStep ==
  ASSUME Shape, NEW p \in Pids, PlaceOK(p), proc[p].todo = {},
         proc' = Moved(p, Refused(p))
  PROVE  Others(p) /\ Refuses(p)
<1>1. CASE Own(p) = {}
  <2>1. proc' = [proc EXCEPT ![p] = Exited(p, "failed")]
    BY <1>1 DEF Moved, Refused, Ended
  <2>2. Others(p) /\ proc'[p] = Exited(p, "failed")
    BY <2>1 DEF Shape, Others
  <2>3. /\ proc'[p].pc = "failed" /\ proc'[p].own = {} /\ proc'[p].todo = {}
        /\ proc'[p].op = IF p \in Sims THEN "activate" ELSE "pin"
    BY <2>2 DEF Exited, Started
  <2> QED
    BY <1>1, <2>2, <2>3 DEF Refuses, Own
<1>2. CASE Own(p) # {}
  <2>1. proc' = [proc EXCEPT ![p].pc = "failout"]
    BY <1>2 DEF Moved, Refused, Ended
  <2> QED
    BY <1>2, <2>1 DEF Shape, Others, Refuses, Own, PlaceOK
<1> QED
  BY <1>1, <1>2

LEMMA RefusedGoalStep ==
  ASSUME Shape, NEW p \in Pids, PlaceOK(p), proc[p].todo = {},
         proc' = [Moved(p, Refused(p)) EXCEPT ![p].goal = 0]
  PROVE  Others(p) /\ Refuses(p)
<1>1. CASE Own(p) = {}
  <2>1. proc' = [[proc EXCEPT ![p] = Exited(p, "failed")] EXCEPT ![p].goal = 0]
    BY <1>1 DEF Moved, Refused, Ended
  <2>2. Others(p) /\ proc'[p] = [Exited(p, "failed") EXCEPT !.goal = 0]
    BY <2>1 DEF Shape, Others
  <2>3. /\ proc'[p].pc = "failed" /\ proc'[p].own = {} /\ proc'[p].todo = {}
        /\ proc'[p].op = IF p \in Sims THEN "activate" ELSE "pin"
    BY <2>2 DEF Exited, Started
  <2> QED
    BY <1>1, <2>2, <2>3 DEF Refuses, Own
<1>2. CASE Own(p) # {}
  <2>1. proc' = [[proc EXCEPT ![p].pc = "failout"] EXCEPT ![p].goal = 0]
    BY <1>2 DEF Moved, Refused, Ended
  <2>2. /\ Others(p)
        /\ proc'[p] = [proc[p] EXCEPT !.pc = "failout", !.goal = 0]
    BY <2>1 DEF Shape, Others
  <2>3. proc'[p].pc = "failout" /\ proc'[p].own = proc[p].own
    BY <2>2 DEF Shape
  <2>4. proc'[p].op = proc[p].op /\ proc'[p].todo = proc[p].todo
    BY <2>2 DEF Shape
  <2> QED
    BY <1>2, <2>2, <2>3, <2>4 DEF Refuses, Own, PlaceOK
<1> QED
  BY <1>1, <1>2

LEMMA OwnIsLive ==
  ASSUME WInv, NEW x \in Pids
  PROVE  /\ Own(x) \subseteq Live
         /\ \A e : e \notin Active => ~HasLease(x, e)
  BY DEF WInv, OwnOK, Own, Live, Active, HasLease, Running

LEMMA SameKeeps ==
  ASSUME WInv,
         \/ UNCHANGED art
         \/ \A x \in Pids : \A l \in Own(x) : art'[l.entry] = art[l.entry]
  PROVE  LeaseKept
<1>1. \A x \in Pids : \A l \in Own(x) :
        /\ art'[l.entry] = art[l.entry] /\ art[l.entry] # None
        /\ art[l.entry].managed /\ art[l.entry].size \in Nat
  <2> TAKE x \in Pids
  <2> TAKE l \in Own(x)
  <2>1. l.entry \in Entries /\ art[l.entry] # None /\ art[l.entry].managed
    BY DEF WInv, OwnOK
  <2>2. art[l.entry].size \in Nat
    BY <2>1 DEF WInv, Shape, Artifacts
  <2> QED
    BY <2>1, <2>2
<1> QED
  BY <1>1 DEF LeaseKept, Own

LEMMA GrownKeeps ==
  ASSUME WInv, Grown
  PROVE  LeaseKept
<1>1. \A x \in Pids : \A l \in Own(x) :
        /\ l.entry \in Entries /\ art[l.entry] # None /\ art[l.entry].managed
  BY DEF WInv, OwnOK
<1> QED
  BY <1>1 DEF LeaseKept, Own, Grown

----------------------------------------------------------------------------
(* One lemma for each action: <1>0 says where the process is, <1>1 what the *)
(* step does to it and to the rest, and a step follows for each part of the *)
(* invariant and for LeaseKept.                                             *)

LEMMA ErrorStep ==
  ASSUME WInv, NEW p \in Pids, Error(p)
  PROVE  WInv' /\ LeaseKept
<1>0. p \in Sims
  BY Names DEF Error, WInv, PlaceOK, Ended, InLock, Holding
<1>1. /\ proc[p].pc = "make" /\ proc'[p].pc = "failing"
      /\ Others(p) /\ Kept(p)
      /\ UNCHANGED <<art, leases, lock, ready, ack>>
  BY <1>0 DEF Error, WInv, Shape, Others, Kept, Own
<1>2. Shape'
  BY <1>0, <1>1, Names DEF Error, WInv, Shape, Moved, Exited, Started
<1>3. \A x \in Pids : PlaceOK(x)'
  BY <1>0, <1>1, Names DEF WInv, PlaceOK, Others, Kept, Ended, InLock, Holding
<1>4. \A x \in Pids : OwnOK(x)'
  BY <1>0, <1>1, Names DEF WInv, OwnOK, Others, Kept, Ended, Own
<1>5. \A x \in Pids : LockedOK(x)'
  BY <1>0, <1>1, Names DEF WInv, LockedOK, Others, Kept, InLock, Own, Pinning,
     Making, HasLease, Target
<1>6. \A x \in Pids : HoldOK(x)'
  BY <1>0, <1>1, Names DEF WInv, HoldOK, Others, Kept, Own, HasOutput, HasLease
<1>7. \A s \in Sims : DataOK(s)'
  BY <1>0, <1>1, Names DEF WInv, DataOK, Others, Kept, Good
<1>8. \A q \in Parents : ParentOK(q)'
  BY <1>0, <1>1, Names DEF WInv, ParentOK, Others, Kept, Ended, InLock, Own,
     HasOutput, HasLease, Good, Running
<1>9. LeaseKept
  BY <1>1, SameKeeps
<1> QED
  BY <1>2, <1>3, <1>4, <1>5, <1>6, <1>7, <1>8, <1>9 DEF WInv

LEMMA CheckStep ==
  ASSUME WInv, NEW p \in Pids, Check(p)
  PROVE  WInv' /\ LeaseKept
<1>0. p \in Sims /\ proc[p].pc = "check"
  BY Names DEF Check, WInv, PlaceOK, Ended, InLock, Holding
<1>1. /\ Others(p) /\ Kept(p)
      /\ proc'[p].pc = IF art[Output[p]].whole THEN "hit" ELSE "reject"
      /\ UNCHANGED <<art, leases, lock, ready, ack>>
  BY <1>0 DEF Check, WInv, Shape, Others, Kept, Own
<1>2. Shape'
  BY <1>0, <1>1, Names DEF Check, WInv, Shape, Moved, Exited, Started
<1>3. \A x \in Pids : PlaceOK(x)'
  BY <1>0, <1>1, Names DEF WInv, PlaceOK, Others, Kept, Ended, InLock, Holding
<1>4. \A x \in Pids : OwnOK(x)'
  BY <1>0, <1>1, Names DEF WInv, OwnOK, Others, Kept, Ended, Own
<1>5. \A x \in Pids : LockedOK(x)'
  BY <1>0, <1>1, Names DEF WInv, LockedOK, Others, Kept, InLock, Own, Pinning,
     Making, HasLease, Target
<1>6. \A x \in Pids : HoldOK(x)'
  BY <1>0, <1>1, Names DEF WInv, HoldOK, Others, Kept, Own, HasOutput, HasLease
<1>7. \A s \in Sims : DataOK(s)'
  BY <1>0, <1>1, Names DEF WInv, DataOK, HoldOK, OwnOK, HasOutput, HasLease,
     Own, Others, Good, Pids, Users
<1>8. \A q \in Parents : ParentOK(q)'
  BY <1>0, <1>1, Names DEF WInv, ParentOK, Others, Kept, Ended, InLock, Own,
     HasOutput, HasLease, Good, Running
<1>9. LeaseKept
  BY <1>1, SameKeeps
<1> QED
  BY <1>2, <1>3, <1>4, <1>5, <1>6, <1>7, <1>8, <1>9 DEF WInv

LEMMA ReadyStep ==
  ASSUME WInv, NEW p \in Pids, Ready(p)
  PROVE  WInv' /\ LeaseKept
<1>0. p \in Sims /\ proc[p].pc \in {"handoff", "hit", "failing"}
  BY Names DEF Ready, WInv, PlaceOK, Ended, InLock, Holding
<1>1. /\ ready' = [ready EXCEPT ![p] = TRUE]
      /\ UNCHANGED <<art, leases, lock, proc, ack>>
  BY <1>0 DEF Ready, WInv, Shape, Others, Kept, Own
<1>2. Shape'
  BY <1>0, <1>1, Names DEF Ready, WInv, Shape, Moved, Exited, Started
<1>3. \A x \in Pids : PlaceOK(x)'
  BY <1>0, <1>1, Names DEF WInv, PlaceOK, Ended, InLock, Holding
<1>4. \A x \in Pids : OwnOK(x)'
  BY <1>0, <1>1, Names DEF WInv, OwnOK, Ended, Own
<1>5. \A x \in Pids : LockedOK(x)'
  BY <1>0, <1>1, Names DEF WInv, LockedOK, InLock, Own, Pinning, Making,
     HasLease, Target
<1>6. \A x \in Pids : HoldOK(x)'
  BY <1>0, <1>1, Names DEF WInv, HoldOK, Own, HasOutput, HasLease
<1>7. \A s \in Sims : DataOK(s)'
  BY <1>0, <1>1, Names DEF WInv, DataOK, Good
<1>8. \A q \in Parents : ParentOK(q)'
  BY <1>0, <1>1, Names DEF WInv, ParentOK, Ended, InLock, Own, HasOutput,
     HasLease, Good, Running
<1>9. LeaseKept
  BY <1>1, SameKeeps
<1> QED
  BY <1>2, <1>3, <1>4, <1>5, <1>6, <1>7, <1>8, <1>9 DEF WInv

LEMMA HandoffStep ==
  ASSUME WInv, NEW p \in Pids, Handoff(p)
  PROVE  WInv' /\ LeaseKept
<1>0. p \in Sims /\ proc[p].pc \in {"handoff", "hit", "failing"}
  BY Names DEF Handoff, WInv, PlaceOK, Ended, InLock, Holding
<1>1. /\ Others(p) /\ Kept(p) /\ (Adopted(p) => ack[p])
      /\ proc'[p].pc = IF proc[p].pc = "failing" THEN "failout" ELSE "release"
      /\ UNCHANGED <<art, leases, lock, ready, ack>>
  BY <1>0 DEF Handoff, WInv, Shape, Others, Kept, Own
<1>2. Shape'
  BY <1>0, <1>1, Names DEF Handoff, WInv, Shape, Moved, Exited, Started
<1>3. \A x \in Pids : PlaceOK(x)'
  BY <1>0, <1>1, Names DEF WInv, PlaceOK, Others, Kept, Ended, InLock, Holding
<1>4. \A x \in Pids : OwnOK(x)'
  BY <1>0, <1>1, Names DEF WInv, OwnOK, Others, Kept, Ended, Own
<1>5. \A x \in Pids : LockedOK(x)'
  BY <1>0, <1>1, Names DEF WInv, LockedOK, Others, Kept, InLock, Own, Pinning,
     Making, HasLease, Target
<1>6. \A x \in Pids : HoldOK(x)'
  BY <1>0, <1>1, Names DEF WInv, HoldOK, Others, Kept, Own, HasOutput, HasLease
<1>7. \A s \in Sims : DataOK(s)'
  BY <1>0, <1>1, Names DEF WInv, DataOK, Others, Kept, Good
<1>8. \A q \in Parents : ParentOK(q)'
  BY <1>0, <1>1, Names DEF WInv, ParentOK, Others, Kept, Fixed, Ended, InLock,
     Own, HasOutput, HasLease, Good, Running, Adopted
<1>9. LeaseKept
  BY <1>1, SameKeeps
<1> QED
  BY <1>2, <1>3, <1>4, <1>5, <1>6, <1>7, <1>8, <1>9 DEF WInv

LEMMA TimeoutStep ==
  ASSUME WInv, NEW p \in Pids, Timeout(p)
  PROVE  WInv' /\ LeaseKept
<1>0. p \in Sims /\ proc[p].pc \in {"handoff", "hit", "failing"}
  BY Names DEF Timeout, WInv, PlaceOK, Ended, InLock, Holding
<1>1. /\ Others(p) /\ proc'[p].pc = "failed" /\ Own(p)' = {}
      /\ proc'[p].op \in {"pin", "activate"} /\ proc'[p].todo = {}
      /\ p \in Sims => proc'[p].op = "activate"
      /\ UNCHANGED <<art, leases, lock, ready, ack>>
  BY <1>0, Names DEF Timeout, WInv, Shape, Others, Own, Moved, Exited, Started,
     Ended
<1>2. Shape'
  BY <1>0, <1>1, Names DEF Timeout, WInv, Shape, Moved, Exited, Started
<1>3. \A x \in Pids : PlaceOK(x)'
  BY <1>0, <1>1, Names DEF WInv, PlaceOK, Others, Ended, InLock, Holding
<1>4. \A x \in Pids : OwnOK(x)'
  BY <1>0, <1>1, Names DEF WInv, OwnOK, Others, Ended, Own
<1>5. \A x \in Pids : LockedOK(x)'
  BY <1>0, <1>1, Names DEF WInv, LockedOK, Others, InLock, Own, Pinning,
     Making, HasLease, Target
<1>6. \A x \in Pids : HoldOK(x)'
  BY <1>0, <1>1, Names DEF WInv, HoldOK, Others, Own, HasOutput, HasLease
<1>7. \A s \in Sims : DataOK(s)'
  BY <1>0, <1>1, Names DEF WInv, DataOK, Others, Good
<1>8. \A q \in Parents : ParentOK(q)'
  BY <1>0, <1>1, Names DEF WInv, ParentOK, Others, Ended, InLock, Own,
     HasOutput, HasLease, Good, Running
<1>9. LeaseKept
  BY <1>1, SameKeeps
<1> QED
  BY <1>2, <1>3, <1>4, <1>5, <1>6, <1>7, <1>8, <1>9 DEF WInv

LEMMA DiscStep ==
  ASSUME WInv, NEW p \in Pids, Disc(p)
  PROVE  WInv' /\ LeaseKept
<1>0. p \in Parents /\ proc[p].pc = "disc"
  BY Names DEF Disc, WInv, PlaceOK, Ended, InLock, Holding
<1>1. /\ proc'[p].pc = "release" /\ Others(p) /\ Kept(p)
      /\ UNCHANGED <<art, leases, lock, ready, ack>>
  BY <1>0 DEF Disc, WInv, Shape, Others, Kept, Own
<1>2. Shape'
  BY <1>0, <1>1, Names DEF Disc, WInv, Shape, Moved, Exited, Started
<1>3. \A x \in Pids : PlaceOK(x)'
  BY <1>0, <1>1, Names DEF WInv, PlaceOK, Others, Kept, Ended, InLock, Holding
<1>4. \A x \in Pids : OwnOK(x)'
  BY <1>0, <1>1, Names DEF WInv, OwnOK, Others, Kept, Ended, Own
<1>5. \A x \in Pids : LockedOK(x)'
  BY <1>0, <1>1, Names DEF WInv, LockedOK, Others, Kept, InLock, Own, Pinning,
     Making, HasLease, Target
<1>6. \A x \in Pids : HoldOK(x)'
  BY <1>0, <1>1, Names DEF WInv, HoldOK, Others, Kept, Own, HasOutput, HasLease
<1>7. \A s \in Sims : DataOK(s)'
  BY <1>0, <1>1, Names DEF WInv, DataOK, Others, Kept, Good
<1>8. \A q \in Parents : ParentOK(q)'
  BY <1>0, <1>1, Names DEF WInv, ParentOK, Others, Kept, Ended, InLock, Own,
     HasOutput, HasLease, Good, Running
<1>9. LeaseKept
  BY <1>1, SameKeeps
<1> QED
  BY <1>2, <1>3, <1>4, <1>5, <1>6, <1>7, <1>8, <1>9 DEF WInv

LEMMA ActivateStep ==
  ASSUME WInv, NEW p \in Pids, Activate(p)
  PROVE  WInv' /\ LeaseKept
<1>0. p \in Users /\ proc[p].pc = "activate" /\ proc[p].op = "activate" /\ lock = None
  BY Names DEF Activate, WInv, PlaceOK, Ended, InLock, Holding
<1>1. /\ Others(p)
      /\ UNCHANGED <<art, ready, ack>>
      /\ \/ /\ Refuses(p) /\ leases' = Live /\ UNCHANGED lock
         \/ /\ Output[p] \notin Active /\ p \in Sims
            /\ art[Output[p]] # None /\ art[Output[p]].managed
            /\ art[Output[p]].token = Identity[p]
            /\ \E l : /\ l.pid = p /\ l.entry = Output[p]
                     /\ leases' = Live \cup {l} /\ Own(p)' = Own(p) \cup {l}
            /\ proc'[p].pc = "check" /\ proc'[p].op = "activate"
            /\ proc'[p].todo = proc[p].todo /\ UNCHANGED lock
         \/ /\ Output[p] \notin Active /\ Kept(p)
            /\ leases' = Live /\ lock' = p
            /\ proc'[p].pc = IF art[Output[p]] = None THEN "plan" ELSE "reset"
  <2> DEFINE e   == Output[p]
             hit == /\ Reuse(p) # None /\ art[e] # None
                    /\ art[e].token = Reuse(p) /\ art[e].managed
  <2>0. Others(p) /\ UNCHANGED <<art, ready, ack>>
    BY <1>0 DEF Activate, WInv, Shape, Others, Sweep, Moved
  <2>1. CASE e \in Active
    <3>1. leases' = Live /\ UNCHANGED lock /\ proc' = Moved(p, Refused(p))
      BY <2>1 DEF Activate, Sweep
    <3>2. proc[p].todo = {}
      BY <1>0 DEF WInv, LockedOK
    <3> QED
      BY <1>0, <2>0, <3>1, <3>2, RefusedStep DEF WInv
  <2>2. CASE e \notin Active /\ hit
    <3>1. /\ leases' = Live \cup {NewLease(p, Live)} /\ UNCHANGED lock
          /\ proc' = [proc EXCEPT ![p].pc = "check",
                                  ![p].own = @ \cup {NewLease(p, Live)}]
      BY <2>2 DEF Activate
    <3>2. NewLease(p, Live).pid = p /\ NewLease(p, Live).entry = Output[p]
      BY <1>0, Names DEF NewLease, Target
    <3>3. p \in Sims /\ art[e].token = Identity[p]
      BY <2>2 DEF Reuse
    <3>4. /\ proc'[p].pc = "check" /\ proc'[p].op = "activate"
          /\ proc'[p].todo = proc[p].todo
          /\ Own(p)' = Own(p) \cup {NewLease(p, Live)}
      <4> DEFINE l == NewLease(p, Live)
      <4> HIDE DEF l
      <4>1. proc' = [proc EXCEPT ![p].pc = "check", ![p].own = @ \cup {l}]
        BY <3>1 DEF l
      <4>2. proc'[p] = [proc[p] EXCEPT !.pc = "check", !.own = @ \cup {l}]
        BY <4>1 DEF WInv, Shape
      <4>3. /\ proc'[p].pc = "check" /\ proc'[p].op = proc[p].op
            /\ proc'[p].todo = proc[p].todo
            /\ proc'[p].own = proc[p].own \cup {l}
        BY <4>2 DEF WInv, Shape
      <4> QED
        BY <1>0, <4>3 DEF Own, l
    <3> HIDE DEF e
    <3> QED
      BY <2>0, <2>2, <3>1, <3>2, <3>3, <3>4 DEF e
  <2>3. CASE e \notin Active /\ ~hit
    <3>1. /\ leases' = Live /\ lock' = p
          /\ proc' = [proc EXCEPT ![p].pc = IF art[e] = None THEN "plan"
                                            ELSE "reset"]
      BY <2>3 DEF Activate, Sweep
    <3> QED
      BY <1>0, <2>0, <2>3, <3>1 DEF Kept, WInv, Shape, Own
  <2> QED
    BY <2>1, <2>2, <2>3
<1>2. Shape'
  BY <1>1 DEF Activate, WInv, Shape, Sweep, Moved, Exited, Started
<1>3. \A x \in Pids : PlaceOK(x)'
  BY <1>0, <1>1, Names, OwnIsLive DEF WInv, PlaceOK, Refuses, Others, Kept,
     Ended, InLock, Holding
<1>4. \A x \in Pids : OwnOK(x)'
  BY <1>0, <1>1, Names, OwnIsLive DEF WInv, OwnOK, Refuses, Others, Kept,
     Ended, Own
<1>5. \A x \in Pids : LockedOK(x)'
  BY <1>0, <1>1, Names, OwnIsLive DEF WInv, LockedOK, Refuses, Others, Kept,
     InLock, Own, Pinning, Making, HasLease, Target
<1>6. \A x \in Pids : HoldOK(x)'
  BY <1>0, <1>1, Names, OwnIsLive DEF WInv, HoldOK, Refuses, Others, Kept, Own,
     HasOutput, HasLease
<1>7. \A s \in Sims : DataOK(s)'
  BY <1>0, <1>1, Names, OwnIsLive DEF WInv, DataOK, Refuses, Others, Kept, Good
<1>8. \A q \in Parents : ParentOK(q)'
  <2> SUFFICES ASSUME NEW q \in Parents PROVE ParentOK(q)'
    OBVIOUS
  <2> DEFINE s == Child[q]
  <2>0. s \in Sims /\ ParentOK(q)
    BY Names DEF WInv
  <2>1. \A x \in Pids : proc'[x].pc # proc[x].pc => x = p
    BY <1>1 DEF Others
  <2>2. UNCHANGED proc[q]
    BY <1>0, <1>1, Names DEF Others
  <2>3. proc'[s].pc \in {"release", "done"} => proc[s].pc = proc'[s].pc
    BY <1>1, <2>0, <2>1, Names DEF Refuses
  <2>4. \A x \in Users \ {s} :
          proc[q].pc \in InLock \cup {"child", "disc"} /\ Output[x] = Output[s]
            => HasOutput(x)' = HasOutput(x)
    <3>1. proc[q].pc \in InLock => FALSE
      BY <1>0, Names DEF WInv, LockedOK
    <3>2. proc[q].pc \in {"child", "disc"} => Output[s] \in Active
      BY <2>0, OwnIsLive, Names DEF ParentOK
    <3> QED
      BY <1>1, <3>1, <3>2, Names DEF Others, Refuses, Kept, HasOutput,
         HasLease, Own
  <2> QED
    BY <1>0, <1>1, <2>0, <2>1, <2>2, <2>3, <2>4, Names DEF ParentOK, Good,
       HasLease, Own, Running, Ended
<1>9. LeaseKept
  BY <1>1, SameKeeps
<1> QED
  BY <1>2, <1>3, <1>4, <1>5, <1>6, <1>7, <1>8, <1>9 DEF WInv

LEMMA ResetStep ==
  ASSUME WInv, NEW p \in Pids, Reset(p)
  PROVE  WInv' /\ LeaseKept
<1>0. p \in Users /\ proc[p].pc = "reset" /\ proc[p].op = "activate"
  BY Names DEF Reset, WInv, PlaceOK, Ended, InLock, Holding
<1>1. /\ \A x \in Pids : ~HasLease(x, Output[p])
      /\ Others(p) /\ Kept(p) /\ proc'[p].pc = "torn"
      /\ Fixed(Output[p]) /\ art'[Output[p]] # None /\ art' \in [Entries -> {None} \cup Artifacts]
      /\ UNCHANGED <<leases, lock, ready, ack>>
  <2>1. Output[p] \in Entries /\ art[Output[p]] # None
    BY <1>0, Names DEF WInv, Shape, LockedOK
  <2>3. \A x \in Pids : ~HasLease(x, Output[p])
    BY <1>0 DEF WInv, LockedOK, Making, InLock
  <2>4. Others(p) /\ Kept(p) /\ proc'[p].pc = "torn"
    BY <1>0 DEF Reset, WInv, Shape, Others, Kept, Own
  <2>2. /\ Fixed(Output[p]) /\ art'[Output[p]] # None
        /\ art' \in [Entries -> {None} \cup Artifacts]
    BY <2>1, TearFacts DEF Reset, WInv, Shape
  <2> QED
    BY <2>2, <2>3, <2>4 DEF Reset
<1>2. Shape'
  BY <1>0, <1>1, Names DEF Reset, WInv, Shape, Moved, Exited, Started
<1>3. \A x \in Pids : PlaceOK(x)'
  BY <1>0, <1>1, Names DEF WInv, PlaceOK, Others, Kept, Fixed, Ended, InLock,
     Holding
<1>4. \A x \in Pids : OwnOK(x)'
  BY <1>0, <1>1, Names DEF WInv, OwnOK, Others, Kept, Fixed, Ended, Own,
     HasLease
<1>5. \A x \in Pids : LockedOK(x)'
  BY <1>0, <1>1, Names DEF WInv, LockedOK, Others, Kept, Fixed, InLock, Own,
     Pinning, Making, HasLease, Target
<1>6. \A x \in Pids : HoldOK(x)'
  BY <1>0, <1>1, Names DEF WInv, HoldOK, Others, Kept, Fixed, Own, HasOutput,
     HasLease
<1>7. \A s \in Sims : DataOK(s)'
  BY <1>0, <1>1, Names DEF WInv, DataOK, Others, Kept, Fixed, Good, HoldOK,
     HasOutput, HasLease, Own, Pids, Users
<1>8. \A q \in Parents : ParentOK(q)'
  BY <1>0, <1>1, Names DEF WInv, ParentOK, Others, Kept, Fixed, Ended, InLock,
     Own, HasOutput, HasLease, Good, Running
<1>9. LeaseKept
  <2>1. \A x \in Pids : \A l \in Own(x) : art'[l.entry] = art[l.entry]
    BY <1>0, <1>1 DEF WInv, OwnOK, LockedOK, HasLease, Fixed
  <2> QED
    BY <2>1, SameKeeps
<1> QED
  BY <1>2, <1>3, <1>4, <1>5, <1>6, <1>7, <1>8, <1>9 DEF WInv

LEMMA ResetDoneStep ==
  ASSUME WInv, NEW p \in Pids, ResetDone(p)
  PROVE  WInv' /\ LeaseKept
<1>0. p \in Users /\ proc[p].pc = "torn" /\ proc[p].op = "activate"
  BY Names DEF ResetDone, WInv, PlaceOK, Ended, InLock, Holding
<1>1. /\ \A x \in Pids : ~HasLease(x, Output[p])
      /\ Others(p) /\ Kept(p) /\ proc'[p].pc = "plan"
      /\ Fixed(Output[p]) /\ art'[Output[p]] = None
      /\ UNCHANGED <<leases, lock, ready, ack>>
  <2>1. \A x \in Pids : ~HasLease(x, Output[p])
    BY <1>0 DEF WInv, LockedOK, Making, InLock
  <2>2. Others(p) /\ Kept(p) /\ proc'[p].pc = "plan"
    BY <1>0 DEF ResetDone, WInv, Shape, Others, Kept, Own
  <2>3. Fixed(Output[p]) /\ art'[Output[p]] = None
    BY <1>0, Names DEF ResetDone, Unlinked, WInv, Shape, Fixed
  <2> QED
    BY <2>1, <2>2, <2>3 DEF ResetDone
<1>2. Shape'
  BY <1>0, <1>1, Names DEF ResetDone, Unlinked, WInv, Shape
<1>3. \A x \in Pids : PlaceOK(x)'
  BY <1>0, <1>1, Names DEF WInv, PlaceOK, Others, Kept, Fixed, Ended, InLock,
     Holding
<1>4. \A x \in Pids : OwnOK(x)'
  BY <1>0, <1>1, Names DEF WInv, OwnOK, Others, Kept, Fixed, Ended, Own,
     HasLease
<1>5. \A x \in Pids : LockedOK(x)'
  BY <1>0, <1>1, Names DEF WInv, LockedOK, Others, Kept, Fixed, InLock, Own,
     Pinning, Making, HasLease, Target
<1>6. \A x \in Pids : HoldOK(x)'
  BY <1>0, <1>1, Names DEF WInv, HoldOK, Others, Kept, Fixed, Own, HasOutput,
     HasLease
<1>7. \A s \in Sims : DataOK(s)'
  BY <1>0, <1>1, Names DEF WInv, DataOK, Others, Kept, Fixed, Good, HoldOK,
     HasOutput, HasLease, Own, Pids, Users
<1>8. \A q \in Parents : ParentOK(q)'
  BY <1>0, <1>1, Names DEF WInv, ParentOK, Others, Kept, Fixed, Ended, InLock,
     Own, HasOutput, HasLease, Good, Running
<1>9. LeaseKept
  <2>1. \A x \in Pids : \A l \in Own(x) : art'[l.entry] = art[l.entry]
    BY <1>0, <1>1 DEF WInv, OwnOK, LockedOK, HasLease, Fixed
  <2> QED
    BY <2>1, SameKeeps
<1> QED
  BY <1>2, <1>3, <1>4, <1>5, <1>6, <1>7, <1>8, <1>9 DEF WInv

LEMMA PinStep ==
  ASSUME WInv, NEW p \in Pids, Pin(p)
  PROVE  WInv' /\ LeaseKept
<1>0. p \in Tools \cup Parents /\ proc[p].pc = "pin" /\ proc[p].op = "pin" /\ lock = None
  BY Names DEF Pin, WInv, PlaceOK, Ended, InLock, Holding
<1>1. /\ UNCHANGED <<art, leases, ready, ack>>
      /\ p \in Parents => ready[Child[p]] /\ Running(Child[p])
      /\ \/ /\ art[Target(p)] # None /\ art[Target(p)].managed
            /\ Others(p) /\ Kept(p) /\ proc'[p].pc = "plan" /\ lock' = p
            /\ proc' = [proc EXCEPT ![p].pc = "plan"]
         \/ /\ p \in Tools /\ Others(p) /\ UNCHANGED lock
            /\ proc'[p].pc = "activate" /\ proc'[p].op = "activate"
            /\ Own(p)' = Own(p) /\ proc'[p].todo = proc[p].todo
            /\ proc' = [proc EXCEPT ![p].pc = "activate", ![p].op = "activate"]
         \/ /\ p \in Parents /\ Ends(p) /\ Ends(Child[p]) /\ UNCHANGED lock
            /\ \A x \in Pids \ {p, Child[p]} : proc'[x] = proc[x]
            /\ proc' = [proc EXCEPT ![p] = Exited(p, "failed"),
                              ![Child[p]] = Exited(Child[p], "failed")]
  <2> DEFINE e == Target(p)
  <2>0. /\ UNCHANGED <<art, leases, ready, ack>>
        /\ p \in Parents => ready[Child[p]] /\ Running(Child[p])
    BY DEF Pin
  <2>1. CASE art[e] # None /\ art[e].managed
    <3>1. lock' = p /\ proc' = [proc EXCEPT ![p].pc = "plan"]
      BY <2>1 DEF Pin
    <3>2. Others(p) /\ Kept(p) /\ proc'[p].pc = "plan"
      BY <3>1 DEF WInv, Shape, Others, Kept, Own
    <3> QED
      BY <2>0, <2>1, <3>1, <3>2
  <2>2. CASE ~(art[e] # None /\ art[e].managed) /\ p \in Tools
    <3>1. /\ proc' = [proc EXCEPT ![p].pc = "activate", ![p].op = "activate"]
          /\ UNCHANGED lock
      BY <2>2 DEF Pin
    <3>2. /\ Others(p)
          /\ proc'[p] = [proc[p] EXCEPT !.pc = "activate", !.op = "activate"]
      BY <3>1 DEF WInv, Shape, Others
    <3>3. /\ proc'[p].pc = "activate" /\ proc'[p].op = "activate"
          /\ Own(p)' = Own(p) /\ proc'[p].todo = proc[p].todo
      BY <3>2 DEF WInv, Shape, Own
    <3> QED
      BY <2>0, <2>2, <3>1, <3>2, <3>3
  <2>3. CASE ~(art[e] # None /\ art[e].managed) /\ p \notin Tools
    <3>1. /\ proc' = [proc EXCEPT ![p] = Exited(p, "failed"),
                              ![Child[p]] = Exited(Child[p], "failed")]
          /\ UNCHANGED lock
      BY <2>3 DEF Pin
    <3>2. p \in Parents /\ Child[p] \in Pids /\ Child[p] # p
      BY <1>0, <2>3, Names
    <3>3. /\ proc'[p] = Exited(p, "failed")
          /\ proc'[Child[p]] = Exited(Child[p], "failed")
          /\ \A x \in Pids \ {p, Child[p]} : proc'[x] = proc[x]
      BY <3>1, <3>2 DEF WInv, Shape
    <3> QED
      BY <2>0, <3>1, <3>2, <3>3, EndStep
  <2> QED
    BY <2>1, <2>2, <2>3
<1>2. Shape'
  <2>0. UNCHANGED <<art, ready, ack>> /\ Shape
    BY <1>1 DEF WInv
  <2>1. CASE proc' = [proc EXCEPT ![p].pc = "plan"]
    BY <2>0, <2>1 DEF Shape
  <2>2. CASE proc' = [proc EXCEPT ![p].pc = "activate", ![p].op = "activate"]
    BY <2>0, <2>2 DEF Shape
  <2>3. CASE /\ p \in Parents
             /\ proc' = [proc EXCEPT ![p] = Exited(p, "failed"),
                               ![Child[p]] = Exited(Child[p], "failed")]
    BY <2>0, <2>3, Names DEF Shape, Exited, Started
  <2> QED
    BY <1>1, <2>1, <2>2, <2>3
<1>3. \A x \in Pids : PlaceOK(x)'
  BY <1>0, <1>1, Names DEF WInv, PlaceOK, Others, Kept, Ended, InLock, Holding,
     Ends, HoldOK, ParentOK, Running, HasOutput
<1>4. \A x \in Pids : OwnOK(x)'
  BY <1>0, <1>1, Names DEF WInv, OwnOK, Others, Kept, Ended, Own, Ends, HoldOK,
     ParentOK, Running, HasOutput
<1>5. \A x \in Pids : LockedOK(x)'
  BY <1>0, <1>1, Names DEF WInv, LockedOK, Others, Kept, Ended, InLock, Own,
     Pinning, Making, HasLease, Target, Ends, HoldOK, ParentOK, Running,
     HasOutput
<1>6. \A x \in Pids : HoldOK(x)'
  BY <1>0, <1>1, Names DEF WInv, HoldOK, Others, Kept, Ended, Own, HasOutput,
     HasLease, Ends, ParentOK, Running
<1>7. \A s \in Sims : DataOK(s)'
  BY <1>0, <1>1, Names DEF WInv, DataOK, Others, Kept, Ended, Good, Ends,
     HoldOK, ParentOK, Running, HasOutput
<1>8. \A q \in Parents : ParentOK(q)'
  BY <1>0, <1>1, Names DEF WInv, ParentOK, Others, Kept, Ended, InLock, Own,
     HasOutput, HasLease, Good, Running, Ends, HoldOK
<1>9. LeaseKept
  BY <1>1, SameKeeps
<1> QED
  BY <1>2, <1>3, <1>4, <1>5, <1>6, <1>7, <1>8, <1>9 DEF WInv

LEMMA PlanStep ==
  ASSUME WInv, NEW p \in Pids, Plan(p)
  PROVE  WInv' /\ LeaseKept
<1>0. proc[p].pc = "plan" /\ lock = p /\ (p \in Users \/ proc[p].op = "pin")
  BY Names DEF Plan, WInv, PlaceOK, Ended, InLock, Holding, LockedOK
<1>1. /\ Others(p) /\ UNCHANGED <<art, ready, ack>> /\ leases' = Live
      /\ \/ /\ Refuses(p) /\ lock' = None
         \/ /\ Kept(p) /\ proc'[p].pc = "grant" /\ UNCHANGED lock
         \/ /\ Own(p)' = Own(p) /\ proc'[p].op = proc[p].op
            /\ proc'[p].pc = "evict" /\ UNCHANGED lock
            /\ proc'[p].todo \subseteq Entries
            /\ \A e \in proc'[p].todo :
                 /\ e \notin Active /\ art[e] # None
                 /\ proc[p].op = "pin" => e # Target(p)
  <2> DEFINE goal == Wants(p) + ActiveReservation + MinFree
             S    == {e \in Entries \ Active :
                        /\ art[e] # None
                        /\ proc[p].op = "pin" => e # Target(p)}
  <2>0. /\ leases' = Live /\ UNCHANGED <<art, ready, ack>>
        /\ proc[p].todo = {} /\ PlaceOK(p)
    BY <1>0 DEF Plan, Sweep, WInv, LockedOK
  <2>1. CASE goal > Capacity
    <3>1. lock' = None /\ proc' = Moved(p, Refused(p))
      BY <2>1 DEF Plan
    <3> QED
      BY <2>0, <3>1, RefusedStep DEF WInv
  <2>2. CASE ~(goal > Capacity) /\ Free >= goal
    <3>1. UNCHANGED lock /\ proc' = [proc EXCEPT ![p].pc = "grant"]
      BY <2>2 DEF Plan
    <3> QED
      BY <2>0, <3>1 DEF WInv, Shape, Others, Kept, Own
  <2>3. CASE ~(goal > Capacity) /\ ~(Free >= goal)
    <3> HIDE DEF S
    <3>1. /\ UNCHANGED lock
          /\ proc' = [proc EXCEPT ![p].pc = "evict", ![p].goal = goal,
                                  ![p].todo = S]
      BY <2>3 DEF Plan, S
    <3> HIDE DEF goal
    <3>2. /\ Others(p)
          /\ proc'[p] = [proc[p] EXCEPT !.pc = "evict", !.goal = goal,
                                        !.todo = S]
      BY <3>1 DEF WInv, Shape, Others
    <3>3. /\ proc'[p].pc = "evict" /\ proc'[p].op = proc[p].op
          /\ proc'[p].own = proc[p].own /\ proc'[p].todo = S
      BY <3>2 DEF WInv, Shape
    <3> QED
      BY <2>0, <3>1, <3>2, <3>3 DEF S, Own
  <2> QED
    BY <2>1, <2>2, <2>3
<1>2. Shape'
  BY <1>1 DEF Plan, WInv, Shape, Moved, Exited, Started
<1>3. \A x \in Pids : PlaceOK(x)'
  BY <1>0, <1>1, Names, OwnIsLive DEF WInv, PlaceOK, Others, Kept, Ended,
     InLock, Holding, Refuses
<1>4. \A x \in Pids : OwnOK(x)'
  BY <1>0, <1>1, Names, OwnIsLive DEF WInv, OwnOK, Others, Kept, Ended, Own,
     Refuses
<1>5. \A x \in Pids : LockedOK(x)'
  BY <1>0, <1>1, Names, OwnIsLive DEF WInv, LockedOK, Others, Kept, InLock,
     Own, Pinning, Making, HasLease, Target, Refuses
<1>6. \A x \in Pids : HoldOK(x)'
  BY <1>0, <1>1, Names, OwnIsLive DEF WInv, HoldOK, Others, Kept, Own,
     HasOutput, HasLease, Refuses
<1>7. \A s \in Sims : DataOK(s)'
  BY <1>0, <1>1, Names, OwnIsLive DEF WInv, DataOK, Others, Kept, Good, Refuses
<1>8. \A q \in Parents : ParentOK(q)'
  BY <1>0, <1>1, Names, OwnIsLive DEF WInv, ParentOK, Others, Kept, Ended,
     InLock, Own, HasOutput, HasLease, Good, Running, Refuses
<1>9. LeaseKept
  BY <1>1, SameKeeps
<1> QED
  BY <1>2, <1>3, <1>4, <1>5, <1>6, <1>7, <1>8, <1>9 DEF WInv

LEMMA EvictStep ==
  ASSUME WInv, NEW p \in Pids, Evict(p)
  PROVE  WInv' /\ LeaseKept
<1>0. proc[p].pc = "evict" /\ lock = p /\ (p \in Users \/ proc[p].op = "pin")
  BY Names DEF Evict, WInv, PlaceOK, Ended, InLock, Holding, LockedOK
<1>1. /\ Others(p) /\ UNCHANGED <<leases, ready, ack>>
      /\ art' \in [Entries -> {None} \cup Artifacts]
      /\ \/ Refuses(p) /\ lock' = None /\ UNCHANGED art
         \/ /\ Kept(p) /\ proc'[p].pc = "unlink" /\ UNCHANGED lock
            /\ \E e \in proc[p].todo : Fixed(e) /\ art'[e] # None
  <2>0. /\ proc[p].todo \subseteq Entries /\ \A e \in proc[p].todo : art[e] # None
        /\ UNCHANGED <<leases, ready, ack>>
    BY <1>0 DEF Evict, WInv, LockedOK
  <2>1. CASE /\ proc[p].todo = {} /\ lock' = None /\ UNCHANGED art
             /\ proc' = [Moved(p, Refused(p)) EXCEPT ![p].goal = 0]
    <3>1. Others(p) /\ Refuses(p)
      BY <1>0, <2>1, RefusedGoalStep DEF WInv
    <3> QED
      BY <2>0, <2>1, <3>1 DEF WInv, Shape
  <2>2. CASE \E e \in Entries :
               /\ Oldest(e, proc[p].todo)
               /\ Tear(e)
               /\ proc' = [proc EXCEPT ![p].pc = "unlink"]
               /\ UNCHANGED lock
    <3> PICK e \in Entries :
               /\ Oldest(e, proc[p].todo)
               /\ Tear(e)
               /\ proc' = [proc EXCEPT ![p].pc = "unlink"]
               /\ UNCHANGED lock
      BY <2>2
    <3>1. e \in proc[p].todo /\ art[e] # None
      BY <2>0 DEF Oldest
    <3>2. /\ Fixed(e) /\ art'[e] # None
          /\ art' \in [Entries -> {None} \cup Artifacts]
      BY <3>1, TearFacts DEF WInv, Shape
    <3>3. Others(p) /\ Kept(p) /\ proc'[p].pc = "unlink"
      BY DEF WInv, Shape, Others, Kept, Own
    <3> QED
      BY <2>0, <3>1, <3>2, <3>3
  <2> QED
    BY <2>1, <2>2 DEF Evict
<1>2. Shape'
  BY <1>1 DEF Evict, WInv, Shape, Moved, Exited, Started
<1>3. \A x \in Pids : PlaceOK(x)'
  BY <1>0, <1>1, Names DEF WInv, PlaceOK, Others, Kept, Fixed, Ended, InLock,
     Holding, Refuses, LockedOK, HoldOK, HasOutput, HasLease, Pids, Users
<1>4. \A x \in Pids : OwnOK(x)'
  BY <1>0, <1>1, Names DEF WInv, OwnOK, Others, Kept, Fixed, Ended, Own,
     Refuses, LockedOK, HoldOK, HasOutput, HasLease, Pids, Users
<1>5. \A x \in Pids : LockedOK(x)'
  <2>1. CASE Refuses(p) /\ lock' = None /\ UNCHANGED art
    BY <1>0, <1>1, <2>1, Names DEF WInv, LockedOK, Refuses, Others, InLock,
       Own,
       Pinning, Making, HasLease, Target
  <2>2. CASE Kept(p) /\ proc'[p].pc = "unlink" /\ UNCHANGED lock
    <3>1. PICK e \in proc[p].todo : Fixed(e) /\ art'[e] # None
      BY <1>1, <2>2 DEF Refuses
    <3>2. \A x \in Entries : art[x] # None => art'[x] # None
      BY <3>1 DEF Fixed
    <3>3. Pinning(p) => art'[Target(p)] = art[Target(p)]
      BY <1>0, <3>1, TargetIsEntry DEF WInv, LockedOK, Fixed
    <3> QED
      BY <1>0, <1>1, <2>2, <3>2, <3>3, Names DEF WInv, LockedOK, Others, Kept,
         InLock, Own,
         Pinning, Making, HasLease, Target
  <2> QED
    BY <1>1, <2>1, <2>2
<1>6. \A x \in Pids : HoldOK(x)'
  BY <1>0, <1>1, Names DEF WInv, HoldOK, Others, Kept, Fixed, Own, HasOutput,
     HasLease, Refuses, LockedOK, Pids, Users
<1>7. \A s \in Sims : DataOK(s)'
  BY <1>0, <1>1, Names DEF WInv, DataOK, Others, Kept, Fixed, Good, Refuses,
     LockedOK, HoldOK, HasOutput, HasLease, Pids, Users
<1>8. \A q \in Parents : ParentOK(q)'
  BY <1>0, <1>1, Names DEF WInv, ParentOK, Others, Kept, Fixed, Ended, InLock,
     Own, HasOutput, HasLease, Good, Running, Refuses, LockedOK, HoldOK, Pids,
     Users
<1>9. LeaseKept
  <2>1. \A x \in Pids : \A l \in Own(x) : art'[l.entry] = art[l.entry]
    BY <1>0, <1>1 DEF WInv, OwnOK, LockedOK, HasLease, Fixed
  <2> QED
    BY <2>1, SameKeeps
<1> QED
  BY <1>2, <1>3, <1>4, <1>5, <1>6, <1>7, <1>8, <1>9 DEF WInv

LEMMA EvictDoneStep ==
  ASSUME WInv, NEW p \in Pids, EvictDone(p)
  PROVE  WInv' /\ LeaseKept
<1>0. proc[p].pc = "unlink" /\ lock = p /\ (p \in Users \/ proc[p].op = "pin")
  BY Names DEF EvictDone, WInv, PlaceOK, Ended, InLock, Holding, LockedOK
<1>1. /\ Others(p) /\ UNCHANGED <<leases, lock, ready, ack>>
      /\ Own(p)' = Own(p) /\ proc'[p].op = proc[p].op
      /\ \E e \in proc[p].todo :
           /\ Fixed(e) /\ art' = [art EXCEPT ![e] = None]
           /\ \/ /\ proc'[p].pc = "grant" /\ proc'[p].todo = {}
                 /\ proc' = [proc EXCEPT ![p].pc = "grant", ![p].goal = 0,
                                         ![p].todo = {}]
              \/ /\ proc'[p].pc = "evict" /\ proc'[p].todo = proc[p].todo \ {e}
                 /\ proc' = [proc EXCEPT ![p].pc = "evict",
                                         ![p].todo = @ \ {e}]
  <2>1. PICK e \in Entries :
          /\ Oldest(e, proc[p].todo)
          /\ Unlinked(e)
          /\ proc' = IF Free' >= proc[p].goal
                     THEN [proc EXCEPT ![p].pc = "grant", ![p].goal = 0,
                                       ![p].todo = {}]
                     ELSE [proc EXCEPT ![p].pc = "evict",
                                       ![p].todo = @ \ {e}]
    BY DEF EvictDone
  <2>2. /\ e \in proc[p].todo /\ Fixed(e) /\ art' = [art EXCEPT ![e] = None]
        /\ UNCHANGED <<leases, lock, ready, ack>>
    BY <2>1 DEF EvictDone, Oldest, Unlinked, Fixed, WInv, Shape
  <2>3. CASE Free' >= proc[p].goal
    <3>1. proc' = [proc EXCEPT ![p].pc = "grant", ![p].goal = 0, ![p].todo = {}]
      BY <2>1, <2>3
    <3>2. /\ Others(p)
          /\ proc'[p] = [proc[p] EXCEPT !.pc = "grant", !.goal = 0, !.todo = {}]
      BY <3>1 DEF WInv, Shape, Others
    <3>3. /\ proc'[p].pc = "grant" /\ proc'[p].op = proc[p].op
          /\ Own(p)' = Own(p) /\ proc'[p].todo = {}
      BY <3>2 DEF WInv, Shape, Own
    <3> QED
      BY <2>2, <3>1, <3>2, <3>3
  <2>4. CASE ~(Free' >= proc[p].goal)
    <3>1. proc' = [proc EXCEPT ![p].pc = "evict", ![p].todo = @ \ {e}]
      BY <2>1, <2>4
    <3>2. /\ Others(p)
          /\ proc'[p] = [proc[p] EXCEPT !.pc = "evict", !.todo = @ \ {e}]
      BY <3>1 DEF WInv, Shape, Others
    <3>3. /\ proc'[p].pc = "evict" /\ proc'[p].op = proc[p].op
          /\ Own(p)' = Own(p) /\ proc'[p].todo = proc[p].todo \ {e}
      BY <3>2 DEF WInv, Shape, Own
    <3> QED
      BY <2>2, <3>1, <3>2, <3>3
  <2> QED
    BY <2>3, <2>4
<1>2. Shape'
  <2>1. art' \in [Entries -> {None} \cup Artifacts]
    BY <1>1 DEF WInv, Shape
  <2> QED
    BY <1>1, <2>1 DEF WInv, Shape
<1>3. \A x \in Pids : PlaceOK(x)'
  BY <1>0, <1>1, Names DEF WInv, PlaceOK, Others, Fixed, Ended, InLock,
     Holding, LockedOK, HoldOK, HasOutput, HasLease, Pids, Users
<1>4. \A x \in Pids : OwnOK(x)'
  BY <1>0, <1>1, Names DEF WInv, OwnOK, Others, Fixed, Ended, Own, LockedOK,
     HoldOK, HasOutput, HasLease, Pids, Users
<1>5. \A x \in Pids : LockedOK(x)'
  <2>1. PICK e \in proc[p].todo :
          /\ Fixed(e)
          /\ \/ proc'[p].pc = "grant" /\ proc'[p].todo = {}
             \/ proc'[p].pc = "evict" /\ proc'[p].todo = proc[p].todo \ {e}
    BY <1>1
  <2>2. Pinning(p) => art'[Target(p)] = art[Target(p)]
    BY <1>0, <2>1, TargetIsEntry DEF WInv, LockedOK, Fixed
  <2>3. \A x \in proc'[p].todo : x \in proc[p].todo /\ art'[x] = art[x]
    BY <1>0, <2>1 DEF WInv, LockedOK, Fixed
  <2>4. \A x \in Pids \ {p} : ~Pinning(x) /\ ~Making(x)
    BY <1>0 DEF WInv, LockedOK, Pinning, Making
  <2> QED
    BY <1>0, <1>1, <2>1, <2>2, <2>3, <2>4, Names DEF WInv, LockedOK, Others,
       InLock, Own,
       Pinning, Making, HasLease, Target
<1>6. \A x \in Pids : HoldOK(x)'
  BY <1>0, <1>1, Names DEF WInv, HoldOK, Others, Fixed, Own, HasOutput,
     HasLease, LockedOK, Pids, Users
<1>7. \A s \in Sims : DataOK(s)'
  BY <1>0, <1>1, Names DEF WInv, DataOK, Others, Fixed, Good, LockedOK, HoldOK,
     HasOutput, HasLease, Pids, Users
<1>8. \A q \in Parents : ParentOK(q)'
  BY <1>0, <1>1, Names DEF WInv, ParentOK, Others, Fixed, Ended, InLock, Own,
     HasOutput, HasLease, Good, Running, LockedOK, HoldOK, Pids, Users
<1>9. LeaseKept
  <2>1. \A x \in Pids : \A l \in Own(x) : art'[l.entry] = art[l.entry]
    BY <1>0, <1>1 DEF WInv, OwnOK, LockedOK, HasLease, Fixed
  <2> QED
    BY <2>1, SameKeeps
<1> QED
  BY <1>2, <1>3, <1>4, <1>5, <1>6, <1>7, <1>8, <1>9 DEF WInv

LEMMA PublishStep ==
  ASSUME WInv, NEW p \in Pids, Publish(p)
  PROVE  WInv' /\ LeaseKept
<1>0. p \in Users /\ proc[p].pc = "publish" /\ proc[p].op = "activate" /\ lock = p
  BY Names DEF Publish, WInv, PlaceOK, Ended, InLock, Holding, LockedOK
<1>1. /\ Others(p) /\ lock' = None /\ UNCHANGED <<ready, ack>>
      /\ \A x \in Pids : ~HasLease(x, Output[p])
      /\ \E l : /\ l.pid = p /\ l.entry = Output[p]
               /\ leases' = leases \cup {l} /\ Own(p)' = Own(p) \cup {l}
      /\ proc'[p].pc = "make" /\ proc'[p].op = "activate"
      /\ proc'[p].todo = proc[p].todo
      /\ Fixed(Output[p]) /\ art'[Output[p]] # None /\ art'[Output[p]].managed
      /\ art' \in [Entries -> {None} \cup Artifacts]
  <2> DEFINE l == NewLease(p, leases)
  <2>1. l.pid = p /\ l.entry = Output[p]
    BY <1>0, Names DEF NewLease, Target
  <2>2. /\ leases' = leases \cup {l} /\ lock' = None /\ UNCHANGED <<ready, ack>>
        /\ proc' = [proc EXCEPT ![p].pc = "make", ![p].own = @ \cup {l}]
        /\ art' = [art EXCEPT ![Output[p]].managed = TRUE]
    BY DEF Publish
  <2> HIDE DEF l
  <2>3. Others(p) /\ proc'[p] = [proc[p] EXCEPT !.pc = "make", !.own = @ \cup {l}]
    BY <2>2 DEF WInv, Shape, Others
  <2>4. /\ proc'[p].pc = "make" /\ proc'[p].op = proc[p].op
        /\ Own(p)' = Own(p) \cup {l} /\ proc'[p].todo = proc[p].todo
    BY <2>3 DEF WInv, Shape, Own
  <2>5. \A x \in Pids : ~HasLease(x, Output[p])
    BY <1>0 DEF WInv, LockedOK, Making, InLock
  <2>6. Output[p] \in Entries /\ art[Output[p]] # None
    BY <1>0, Names DEF WInv, LockedOK
  <2>7. /\ Fixed(Output[p]) /\ art'[Output[p]] # None
        /\ art'[Output[p]].managed
        /\ art' \in [Entries -> {None} \cup Artifacts]
    <3>1. art[Output[p]] \in Artifacts
      BY <2>6 DEF WInv, Shape
    <3>2. [art[Output[p]] EXCEPT !.managed = TRUE] \in Artifacts
      BY <3>1 DEF Artifacts
    <3>3. [art[Output[p]] EXCEPT !.managed = TRUE].managed
      BY <3>1 DEF Artifacts
    <3> QED
      BY <2>2, <2>6, <3>2, <3>3, Names DEF WInv, Shape, Fixed
  <2> QED
    BY <1>0, <2>1, <2>2, <2>3, <2>4, <2>5, <2>7
<1>2. Shape'
  BY <1>1 DEF Publish, WInv, Shape
<1>3. \A x \in Pids : PlaceOK(x)'
  BY <1>0, <1>1, Names DEF WInv, PlaceOK, Others, Fixed, Ended, InLock, Holding
<1>4. \A x \in Pids : OwnOK(x)'
  BY <1>0, <1>1, Names DEF WInv, OwnOK, Others, Fixed, Ended, Own, HoldOK,
     HasOutput, HasLease, Pids, Users
<1>5. \A x \in Pids : LockedOK(x)'
  BY <1>0, <1>1, Names DEF WInv, LockedOK, Others, Fixed, InLock, Own, Pinning,
     Making, HasLease, Target
<1>6. \A x \in Pids : HoldOK(x)'
  BY <1>0, <1>1, Names DEF WInv, HoldOK, Others, Fixed, Own, HasOutput,
     HasLease
<1>7. \A s \in Sims : DataOK(s)'
  BY <1>0, <1>1, Names DEF WInv, DataOK, Others, Fixed, Good, HoldOK,
     HasOutput, HasLease, Pids, Users
<1>8. \A q \in Parents : ParentOK(q)'
  <2> SUFFICES ASSUME NEW q \in Parents PROVE ParentOK(q)'
    OBVIOUS
  <2> DEFINE s == Child[q]
  <2>0. s \in Sims /\ ParentOK(q) /\ q \in Pids /\ s \in Pids /\ q # p
    BY <1>0, Names DEF WInv
  <2>1. UNCHANGED proc[q]
    BY <1>1, <2>0 DEF Others
  <2>2. proc'[s].pc \in {"release", "done", "handoff", "hit", "failing", "failed"}
          \/ proc[s].pc = "done"
          => proc'[s] = proc[s]
    BY <1>0, <1>1, <2>0 DEF Others
  <2>3. proc[q].pc \notin InLock
    BY <1>0, <2>0 DEF WInv, LockedOK
  <2>4. proc[q].pc \in {"child", "disc"} => Output[s] # Output[p]
    BY <1>1, <2>0 DEF ParentOK
  <2>5. \A x \in Users : x # p => HasOutput(x)' = HasOutput(x)
    BY <1>1, Names DEF Others, HasOutput, HasLease, Own
  <2>6. proc[q].pc \in {"child", "disc"} => art'[Output[s]] = art[Output[s]]
    BY <1>1, <2>0, <2>4, Names DEF Fixed
  <2>7. proc[q].pc = "pin" /\ ready[s] => proc'[s] = proc[s]
    BY <1>0, <1>1, <2>0, Names DEF ParentOK, Others
  <2>8. /\ HasLease(q, Output[s])' = HasLease(q, Output[s])
        /\ proc[q].pc \in {"child", "disc"} =>
             /\ Good(s)' = Good(s)
             /\ \A x \in Users \ {s} : Output[x] = Output[s] => ~HasOutput(x)'
    BY <2>0, <2>1, <2>4, <2>5, <2>6 DEF HasLease, Own, Good, ParentOK
  <2> QED
    BY <1>1, <2>0, <2>1, <2>2, <2>3, <2>7, <2>8 DEF ParentOK, Running, Ended
<1>9. LeaseKept
  <2>1. \A x \in Pids : \A l \in Own(x) : art'[l.entry] = art[l.entry]
    BY <1>0, <1>1 DEF WInv, OwnOK, LockedOK, HasLease, Fixed
  <2> QED
    BY <2>1, SameKeeps
<1> QED
  BY <1>2, <1>3, <1>4, <1>5, <1>6, <1>7, <1>8, <1>9 DEF WInv

LEMMA GrantLeaseStep ==
  ASSUME WInv, NEW p \in Pids, Grant(p), proc[p].op = "pin"
  PROVE  WInv' /\ LeaseKept
<1>0. proc[p].pc = "grant" /\ lock = p /\ (p \in Tools \/ p \in Parents)
  BY Names DEF Grant, WInv, PlaceOK, Ended, InLock, Holding, LockedOK
<1>1. /\ Others(p) /\ lock' = None /\ UNCHANGED <<art, ready>>
      /\ \E l : /\ l.pid = p /\ l.entry = Target(p)
               /\ leases' = leases \cup {l} /\ Own(p)' = Own(p) \cup {l}
      /\ art[Target(p)] # None /\ art[Target(p)].managed /\ Target(p) \in Entries
      /\ p \in Tools => Target(p) # Output[p] /\ UNCHANGED ack
      /\ p \in Parents => /\ Target(p) = Output[Child[p]]
                          /\ ack' = [ack EXCEPT ![Child[p]] = TRUE]
      /\ proc'[p].pc = IF p \in Tools THEN "activate" ELSE "child"
      /\ proc'[p].op = "activate" /\ proc'[p].todo = proc[p].todo
  <2> DEFINE l == NewLease(p, leases)
             at == IF p \in Tools THEN "activate" ELSE "child"
  <2>1. l.pid = p /\ l.entry = Target(p)
    BY DEF NewLease
  <2>2. /\ leases' = leases \cup {l} /\ lock' = None /\ UNCHANGED <<art, ready>>
        /\ proc' = [proc EXCEPT ![p].own = @ \cup {l}, ![p].pc = at,
                                ![p].op = "activate"]
        /\ ack' = IF p \in Tools THEN ack ELSE [ack EXCEPT ![Child[p]] = TRUE]
    BY DEF Grant
  <2> HIDE DEF l, at
  <2>3. /\ Others(p)
        /\ proc'[p] = [proc[p] EXCEPT !.own = @ \cup {l}, !.pc = at,
                                      !.op = "activate"]
    BY <2>2 DEF WInv, Shape, Others
  <2>4. proc'[p].pc = at /\ proc'[p].op = "activate"
    BY <2>3 DEF WInv, Shape
  <2>5. Own(p)' = Own(p) \cup {l} /\ proc'[p].todo = proc[p].todo
    BY <2>3 DEF WInv, Shape, Own
  <2>6. /\ Target(p) \in Entries /\ art[Target(p)] # None
        /\ art[Target(p)].managed
    BY <1>0, TargetIsEntry DEF WInv, LockedOK, Pinning, InLock
  <2>7. /\ p \in Tools => Target(p) # Output[p]
        /\ p \in Parents => Target(p) = Output[Child[p]]
    BY Names DEF Target
  <2> QED
    BY <1>0, <2>1, <2>2, <2>3, <2>4, <2>5, <2>6, <2>7, Names DEF at
<1>2. Shape'
  <2> DEFINE l  == NewLease(p, leases)
             at == IF p \in Tools THEN "activate" ELSE "child"
  <2>1. proc' = [proc EXCEPT ![p].own = @ \cup {l}, ![p].pc = at,
                            ![p].op = "activate"]
    BY DEF Grant
  <2> HIDE DEF l, at
  <2>2. ack' \in [Sims -> BOOLEAN]
    BY <1>0, <1>1, Names DEF WInv, Shape
  <2> QED
    BY <1>1, <2>1, <2>2 DEF WInv, Shape
<1>3. \A x \in Pids : PlaceOK(x)'
  BY <1>0, <1>1, Names DEF WInv, PlaceOK, Others, Ended, InLock, Holding
<1>4. \A x \in Pids : OwnOK(x)'
  BY <1>0, <1>1, Names DEF WInv, OwnOK, Others, Ended, Own, HasLease, Pids,
     Users
<1>5. \A x \in Pids : LockedOK(x)'
  BY <1>0, <1>1, Names DEF WInv, LockedOK, Others, InLock, Own, Pinning,
     Making, HasLease, Target
<1>6. \A x \in Pids : HoldOK(x)'
  BY <1>0, <1>1, Names DEF WInv, HoldOK, Others, Own, HasOutput, HasLease,
     Pids, Users
<1>7. \A s \in Sims : DataOK(s)'
  BY <1>0, <1>1, Names DEF WInv, DataOK, Others, Good
<1>8. \A q \in Parents : ParentOK(q)'
  <2>1. \A x \in Users : HasOutput(x)' = HasOutput(x)
    BY <1>0, <1>1, Names DEF Others, HasOutput, HasLease, Own
  <2>2. \A s \in Sims : proc'[s] = proc[s] /\ (Good(s)' = Good(s))
    BY <1>0, <1>1, Names DEF Others, Good
  <2>3. ParentOK(p)' \/ p \notin Parents
    <3> SUFFICES ASSUME p \in Parents PROVE ParentOK(p)'
      OBVIOUS
    <3> DEFINE s == Child[p]
    <3>1. /\ s \in Sims /\ ParentOK(p) /\ proc[p].pc \in InLock
          /\ Running(p)
      BY <1>0, Names DEF WInv, InLock, Running, Ended
    <3>2. proc[s].pc \notin {"release", "done"}
      BY <3>1 DEF ParentOK
    <3>3. HasLease(p, Output[s])'
      BY <1>1 DEF HasLease, Own
    <3>4. \A x \in Users \ {s} : Output[x] = Output[s] => ~HasOutput(x)'
      BY <2>1, <3>1 DEF ParentOK
    <3>5. proc'[p].pc = "child"
      BY <1>1, Names
    <3> QED
      BY <2>2, <3>1, <3>2, <3>3, <3>4, <3>5 DEF ParentOK, InLock
  <2>4. ASSUME NEW q \in Parents, q # p PROVE ParentOK(q)'
    <3> DEFINE s == Child[q]
    <3>1. /\ s \in Sims /\ ParentOK(q) /\ UNCHANGED <<proc[q], ready[s], ack[s]>>
      <4>1. s \in Sims /\ ParentOK(q) /\ q \in Pids \ {p}
        BY <2>4, Names DEF WInv
      <4>2. p \in Parents => s # Child[p]
        BY <2>4, Names
      <4>3. UNCHANGED ack[s]
        BY <1>0, <1>1, <4>1, <4>2 DEF WInv, Shape
      <4> QED
        BY <1>1, <4>1, <4>3 DEF Others
    <3>2. HasLease(q, Output[s])' = HasLease(q, Output[s])
      BY <3>1 DEF HasLease, Own
    <3>3. Running(q)' = Running(q)
      BY <3>1 DEF Running
    <3> QED
      BY <2>1, <2>2, <3>1, <3>2, <3>3 DEF ParentOK
  <2> QED
    BY <2>3, <2>4
<1>9. LeaseKept
  BY <1>1, SameKeeps
<1> QED
  BY <1>2, <1>3, <1>4, <1>5, <1>6, <1>7, <1>8, <1>9 DEF WInv

LEMMA GrantOutputStep ==
  ASSUME WInv, NEW p \in Pids, Grant(p), proc[p].op = "activate"
  PROVE  WInv' /\ LeaseKept
<1>0. proc[p].pc = "grant" /\ lock = p /\ p \in Users /\ proc[p].op = "activate"
  BY Names DEF Grant, WInv, PlaceOK, Ended, InLock, Holding, LockedOK
<1>1. /\ \A x \in Pids : ~HasLease(x, Output[p])
      /\ Others(p) /\ Kept(p) /\ proc'[p].pc = "publish"
      /\ UNCHANGED <<leases, lock, ready, ack>>
      /\ Fixed(Output[p]) /\ art'[Output[p]] # None
      /\ art' \in [Entries -> {None} \cup Artifacts]
  <2> DEFINE new == [managed |-> FALSE, token |-> None, whole |-> FALSE, size |-> 0]
  <2>1. /\ art' = [art EXCEPT ![Output[p]] = new]
        /\ proc' = [proc EXCEPT ![p].pc = "publish"]
        /\ UNCHANGED <<leases, lock, ready, ack>>
    BY <1>0 DEF Grant
  <2>2. new \in Artifacts
    BY DEF Artifacts
  <2> HIDE DEF new
  <2>3. /\ Fixed(Output[p]) /\ art'[Output[p]] # None
        /\ art' \in [Entries -> {None} \cup Artifacts]
    BY <1>0, <2>1, <2>2, Names DEF WInv, Shape, Fixed
  <2>4. Others(p) /\ Kept(p) /\ proc'[p].pc = "publish"
    BY <2>1 DEF WInv, Shape, Others, Kept, Own
  <2>5. \A x \in Pids : ~HasLease(x, Output[p])
    BY <1>0 DEF WInv, LockedOK, Making, InLock
  <2> QED
    BY <2>1, <2>3, <2>4, <2>5
<1>2. Shape'
  <2>1. proc' = [proc EXCEPT ![p].pc = "publish"]
    BY <1>0 DEF Grant
  <2> QED
    BY <1>1, <2>1 DEF WInv, Shape
<1>3. \A x \in Pids : PlaceOK(x)'
  BY <1>0, <1>1, Names DEF WInv, PlaceOK, Others, Kept, Fixed, Ended, InLock,
     Holding
<1>4. \A x \in Pids : OwnOK(x)'
  BY <1>0, <1>1, Names DEF WInv, OwnOK, Others, Kept, Fixed, Ended, Own,
     HasLease
<1>5. \A x \in Pids : LockedOK(x)'
  BY <1>0, <1>1, Names DEF WInv, LockedOK, Others, Kept, Fixed, InLock, Own,
     Pinning, Making, HasLease, Target
<1>6. \A x \in Pids : HoldOK(x)'
  BY <1>0, <1>1, Names DEF WInv, HoldOK, Others, Kept, Fixed, Own, HasOutput,
     HasLease
<1>7. \A s \in Sims : DataOK(s)'
  BY <1>0, <1>1, Names DEF WInv, DataOK, Others, Kept, Fixed, Good, HoldOK,
     HasOutput, HasLease, Own, Pids, Users
<1>8. \A q \in Parents : ParentOK(q)'
  BY <1>0, <1>1, Names DEF WInv, ParentOK, Others, Kept, Fixed, Ended, InLock,
     Own, HasOutput, HasLease, Good, Running
<1>9. LeaseKept
  <2>1. \A x \in Pids : \A l \in Own(x) : art'[l.entry] = art[l.entry]
    BY <1>0, <1>1 DEF WInv, OwnOK, LockedOK, HasLease, Fixed
  <2> QED
    BY <2>1, SameKeeps
<1> QED
  BY <1>2, <1>3, <1>4, <1>5, <1>6, <1>7, <1>8, <1>9 DEF WInv

LEMMA WriteStep ==
  ASSUME WInv, NEW p \in Pids, Write(p)
  PROVE  WInv' /\ LeaseKept
<1>0. p \in Users /\ proc[p].pc = "make"
  BY Names DEF Write, WInv, PlaceOK, Ended, InLock, Holding
<1>1. /\ Others(p) /\ Kept(p) /\ proc'[p].pc \in {"make", "failing"}
      /\ Grown /\ art' \in [Entries -> {None} \cup Artifacts]
      /\ UNCHANGED <<leases, lock, ready, ack>>
  <2>0. UNCHANGED <<leases, lock, ready, ack>>
    BY DEF Write
  <2>1. CASE proc' = [proc EXCEPT ![p].pc = "failing"] /\ UNCHANGED art
    <3>1. Others(p) /\ Kept(p) /\ proc'[p].pc = "failing"
      BY <2>1 DEF WInv, Shape, Others, Kept, Own
    <3>2. Grown
      BY <2>1 DEF WInv, Shape, Grown, Artifacts
    <3> QED
      BY <2>0, <2>1, <3>1, <3>2 DEF WInv, Shape
  <2>2. CASE ~(Free = 0 \/ art[Output[p]] = None)
    <3> DEFINE e == IF proc[p].wrote < Required[p] THEN Output[p] ELSE Input[p]
    <3>1. /\ art' = [art EXCEPT ![e].size = @ + 1]
          /\ proc' = [proc EXCEPT ![p].wrote = @ + 1]
          /\ proc[p].wrote < Asked(p)
      BY <2>2 DEF Write
    <3>2. Others(p) /\ Kept(p) /\ proc'[p].pc = "make"
      BY <1>0, <3>1 DEF WInv, Shape, Others, Kept, Own
    <3>3. e \in Entries /\ art[e] # None
      <4>1. CASE proc[p].wrote < Required[p]
        BY <1>0, <2>2, <4>1, Names
      <4>2. CASE ~(proc[p].wrote < Required[p])
        <5>1. Pinned(p)
          <6>1. Pinned(p) \/ proc[p].wrote < Required[p] + 0
            BY <3>1 DEF Asked
          <6> QED
            BY <1>0, <4>2, <6>1, WorkspaceAssumption DEF Users
        <5> QED
          BY <4>2, <5>1, Names DEF Pinned, WInv, OwnOK, Own
      <4> QED
        BY <4>1, <4>2
    <3> HIDE DEF e
    <3>4. Grown /\ art' \in [Entries -> {None} \cup Artifacts]
      <4> DEFINE a == [art[e] EXCEPT !.size = @ + 1]
      <4>1. /\ art[e] \in Artifacts /\ art' = [art EXCEPT ![e] = a]
            /\ art \in [Entries -> {None} \cup Artifacts]
        BY <3>1, <3>3 DEF WInv, Shape
      <4>2. /\ a \in Artifacts /\ a.managed = art[e].managed
            /\ a.token = art[e].token
            /\ a.whole = art[e].whole /\ a.size >= art[e].size
        BY <4>1 DEF Artifacts
      <4>3. a # None /\ \A x \in Entries : art[x] # None => art[x].size \in Nat
        BY <4>1, <4>2, Names DEF Artifacts
      <4> HIDE DEF a
      <4> QED
        BY <3>3, <4>1, <4>2, <4>3 DEF Grown
    <3> QED
      BY <2>0, <3>2, <3>4
  <2> QED
    BY <2>1, <2>2 DEF Write
<1>2. Shape'
  <2>1. \/ proc' = [proc EXCEPT ![p].pc = "failing"]
        \/ proc' = [proc EXCEPT ![p].wrote = @ + 1]
    BY DEF Write
  <2> QED
    BY <1>1, <2>1 DEF WInv, Shape
<1>3. \A x \in Pids : PlaceOK(x)'
  BY <1>0, <1>1, Names DEF WInv, PlaceOK, Others, Kept, Ended, InLock, Holding,
     Grown, HasOutput, HasLease, Pids, Users
<1>4. \A x \in Pids : OwnOK(x)'
  BY <1>0, <1>1, Names DEF WInv, OwnOK, Others, Kept, Ended, Own, Grown,
     HasOutput, HasLease, Pids, Users
<1>5. \A x \in Pids : LockedOK(x)'
  <2>1. \A x \in Pids : Pinning(x) => Target(x) \in Entries
    BY TargetIsEntry DEF WInv
  <2>2. \A x \in Pids, e \in Entries : HasLease(x, e)' = HasLease(x, e)
    BY <1>1 DEF Others, Kept, HasLease, Own
  <2>3. \A x \in Pids : x # p => UNCHANGED <<proc[x], Pinning(x), Making(x), Target(x)>>
    BY <1>1 DEF Others, Pinning, Making, Target
  <2>4. ~Pinning(p)' /\ ~Making(p)' /\ proc'[p].pc \notin InLock
    BY <1>0, <1>1 DEF Pinning, Making, InLock
  <2>5. ASSUME NEW x \in Pids, x # p PROVE LockedOK(x)'
    <3>1. UNCHANGED <<proc[x], lock, Pinning(x), Making(x), Target(x)>> /\ LockedOK(x)
      BY <1>1, <2>3, <2>5 DEF WInv
    <3>2. \A y \in Pids : Making(x) => HasLease(y, Output[x])' = HasLease(y, Output[x])
      BY <1>1 DEF Others, Kept, HasLease, Own
    <3>3. Pinning(x) => art'[Target(x)] # None /\ art'[Target(x)].managed
      BY <1>1, <2>1, <3>1 DEF LockedOK, Grown
    <3>4. proc[x].pc \in {"reset", "torn", "publish"} => art'[Output[x]] # None
      BY <1>1, <2>5, <3>1, Names DEF LockedOK, PlaceOK, WInv, InLock, Grown
    <3> QED
      BY <1>1, <2>2, <3>1, <3>2, <3>3, <3>4 DEF LockedOK, Grown
  <2>6. LockedOK(p)'
    <3>1. LockedOK(p) /\ proc'[p].todo = proc[p].todo /\ proc[p].pc \notin InLock
      BY <1>0, <1>1 DEF WInv, Kept, InLock
    <3> QED
      BY <1>0, <1>1, <2>4, <3>1 DEF LockedOK, InLock
  <2> QED
    BY <2>5, <2>6
<1>6. \A x \in Pids : HoldOK(x)'
  BY <1>0, <1>1, Names DEF WInv, HoldOK, Others, Kept, Own, HasOutput,
     HasLease, Grown, Pids, Users
<1>7. \A s \in Sims : DataOK(s)'
  BY <1>0, <1>1, Names DEF WInv, DataOK, Others, Kept, Good, Grown, HasOutput,
     HasLease, Pids, Users
<1>8. \A q \in Parents : ParentOK(q)'
  <2> SUFFICES ASSUME NEW q \in Parents PROVE ParentOK(q)'
    OBVIOUS
  <2> DEFINE s == Child[q]
  <2>1. /\ s \in Sims /\ ParentOK(q) /\ UNCHANGED <<proc[q], ready, ack>>
    BY <1>0, <1>1, Names DEF WInv, Others
  <2>2. \A x \in Users : HasOutput(x)' = HasOutput(x)
    BY <1>1, Names DEF Others, Kept, HasOutput, HasLease, Own
  <2>3. Good(s) => Good(s)'
    BY <1>1, <2>1, Names DEF Grown, Good
  <2>4. HasLease(q, Output[s])' = HasLease(q, Output[s])
    BY <2>1 DEF HasLease, Own
  <2>5. \/ UNCHANGED proc[s]
        \/ proc[s].pc = "make" /\ proc'[s].pc \in {"make", "failing"}
    BY <1>0, <1>1, <2>1, Names DEF Others
  <2> QED
    BY <2>1, <2>2, <2>3, <2>4, <2>5 DEF ParentOK, Running
<1>9. LeaseKept
  BY <1>1, GrownKeeps
<1> QED
  BY <1>2, <1>3, <1>4, <1>5, <1>6, <1>7, <1>8, <1>9 DEF WInv

LEMMA FinishStep ==
  ASSUME WInv, NEW p \in Pids, Finish(p)
  PROVE  WInv' /\ LeaseKept
<1>0. p \in Users /\ proc[p].pc = "make"
  BY Names DEF Finish, WInv, PlaceOK, Ended, InLock, Holding
<1>1. /\ Others(p) /\ Kept(p)
      /\ proc'[p].pc = IF p \in Sims THEN "mark" ELSE "release"
      /\ Grown /\ art' \in [Entries -> {None} \cup Artifacts]
      /\ UNCHANGED <<leases, lock, ready, ack>>
  <2> DEFINE e == Output[p]
             a == [art[e] EXCEPT !.whole = TRUE]
  <2>1. /\ UNCHANGED <<leases, lock, ready, ack>>
        /\ art' = [art EXCEPT ![e] = a] /\ art[e] # None
        /\ proc' = [proc EXCEPT ![p].pc = IF p \in Sims THEN "mark"
                                          ELSE "release"]
    BY DEF Finish
  <2>2. e \in Entries /\ art[e] \in Artifacts
    BY <1>0, <2>1, Names DEF WInv, Shape
  <2>3. /\ a \in Artifacts /\ a.managed = art[e].managed
        /\ a.token = art[e].token /\ a.whole /\ a.size = art[e].size
    BY <2>2 DEF Artifacts
  <2>4. a # None /\ \A x \in Entries : art[x] # None => art[x].size \in Nat
    BY <2>2, <2>3, Names DEF Artifacts, WInv, Shape
  <2>5. Others(p) /\ Kept(p) /\ proc'[p].pc = IF p \in Sims THEN "mark" ELSE "release"
    BY <2>1 DEF WInv, Shape, Others, Kept, Own
  <2> HIDE DEF a, e
  <2>6. Grown /\ art' \in [Entries -> {None} \cup Artifacts]
    BY <2>1, <2>2, <2>3, <2>4 DEF Grown, WInv, Shape
  <2> QED
    BY <2>1, <2>5, <2>6
<1>2. Shape'
  <2>1. proc' = [proc EXCEPT ![p].pc = IF p \in Sims THEN "mark" ELSE "release"]
    BY DEF Finish
  <2> QED
    BY <1>1, <2>1 DEF WInv, Shape
<1>3. \A x \in Pids : PlaceOK(x)'
  BY <1>0, <1>1, Names DEF WInv, PlaceOK, Others, Kept, Ended, InLock, Holding,
     Grown, HasOutput, HasLease, Pids, Users
<1>4. \A x \in Pids : OwnOK(x)'
  BY <1>0, <1>1, Names DEF WInv, OwnOK, Others, Kept, Ended, Own, Grown,
     HasOutput, HasLease, Pids, Users
<1>5. \A x \in Pids : LockedOK(x)'
  <2>1. \A x \in Pids : Pinning(x) => Target(x) \in Entries
    BY TargetIsEntry DEF WInv
  <2>2. \A x \in Pids, e \in Entries : HasLease(x, e)' = HasLease(x, e)
    BY <1>1 DEF Others, Kept, HasLease, Own
  <2>3. \A x \in Pids : x # p => UNCHANGED <<proc[x], Pinning(x), Making(x), Target(x)>>
    BY <1>1 DEF Others, Pinning, Making, Target
  <2>4. ~Pinning(p)' /\ ~Making(p)' /\ proc'[p].pc \notin InLock
    BY <1>0, <1>1 DEF Pinning, Making, InLock
  <2>5. ASSUME NEW x \in Pids, x # p PROVE LockedOK(x)'
    <3>1. UNCHANGED <<proc[x], lock, Pinning(x), Making(x), Target(x)>> /\ LockedOK(x)
      BY <1>1, <2>3, <2>5 DEF WInv
    <3>2. \A y \in Pids : Making(x) => HasLease(y, Output[x])' = HasLease(y, Output[x])
      BY <1>1 DEF Others, Kept, HasLease, Own
    <3>3. Pinning(x) => art'[Target(x)] # None /\ art'[Target(x)].managed
      BY <1>1, <2>1, <3>1 DEF LockedOK, Grown
    <3>4. proc[x].pc \in {"reset", "torn", "publish"} => art'[Output[x]] # None
      BY <1>1, <2>5, <3>1, Names DEF LockedOK, PlaceOK, WInv, InLock, Grown
    <3> QED
      BY <1>1, <2>2, <3>1, <3>2, <3>3, <3>4 DEF LockedOK, Grown
  <2>6. LockedOK(p)'
    <3>1. LockedOK(p) /\ proc'[p].todo = proc[p].todo /\ proc[p].pc \notin InLock
      BY <1>0, <1>1 DEF WInv, Kept, InLock
    <3> QED
      BY <1>0, <1>1, <2>4, <3>1 DEF LockedOK, InLock
  <2> QED
    BY <2>5, <2>6
<1>6. \A x \in Pids : HoldOK(x)'
  BY <1>0, <1>1, Names DEF WInv, HoldOK, Others, Kept, Own, HasOutput,
     HasLease, Grown, Pids, Users
<1>7. \A s \in Sims : DataOK(s)'
  BY <1>0, <1>1, Names DEF WInv, DataOK, Others, Kept, Good, Grown, HasOutput,
     HasLease, Pids, Users
<1>8. \A q \in Parents : ParentOK(q)'
  <2> SUFFICES ASSUME NEW q \in Parents PROVE ParentOK(q)'
    OBVIOUS
  <2> DEFINE s == Child[q]
  <2>1. /\ s \in Sims /\ ParentOK(q) /\ UNCHANGED <<proc[q], ready, ack>>
    BY <1>0, <1>1, Names DEF WInv, Others
  <2>2. \A x \in Users : HasOutput(x)' = HasOutput(x)
    BY <1>1, Names DEF Others, Kept, HasOutput, HasLease, Own
  <2>3. Good(s) => Good(s)'
    BY <1>1, <2>1, Names DEF Grown, Good
  <2>4. HasLease(q, Output[s])' = HasLease(q, Output[s])
    BY <2>1 DEF HasLease, Own
  <2>5. \/ UNCHANGED proc[s]
        \/ proc[s].pc = "make" /\ proc'[s].pc = "mark"
    BY <1>0, <1>1, <2>1, Names DEF Others
  <2> QED
    BY <2>1, <2>2, <2>3, <2>4, <2>5 DEF ParentOK, Running
<1>9. LeaseKept
  BY <1>1, GrownKeeps
<1> QED
  BY <1>2, <1>3, <1>4, <1>5, <1>6, <1>7, <1>8, <1>9 DEF WInv

LEMMA RejectStep ==
  ASSUME WInv, NEW p \in Pids, Reject(p)
  PROVE  WInv' /\ LeaseKept
<1>0. p \in Sims /\ proc[p].pc = "reject" /\ lock = None
  BY Names DEF Reject, WInv, PlaceOK, Ended, InLock, Holding
<1>1. /\ Others(p) /\ UNCHANGED <<art, lock, ready, ack>>
      /\ leases' = leases \ Own(p) /\ Own(p)' = {}
      /\ proc'[p].pc = "activate" /\ proc'[p].op = proc[p].op
      /\ proc'[p].todo = proc[p].todo
  <2>1. /\ proc' = [proc EXCEPT ![p].pc = "activate", ![p].own = {},
                                ![p].fresh = TRUE]
        /\ leases' = leases \ Own(p) /\ UNCHANGED <<art, lock, ready, ack>>
    BY DEF Reject
  <2>2. /\ Others(p)
        /\ proc'[p] = [proc[p] EXCEPT !.pc = "activate", !.own = {}, !.fresh = TRUE]
    BY <2>1 DEF WInv, Shape, Others
  <2>3. proc'[p].pc = "activate" /\ proc'[p].own = {}
    BY <2>2 DEF WInv, Shape
  <2>4. proc'[p].op = proc[p].op /\ proc'[p].todo = proc[p].todo
    BY <2>2 DEF WInv, Shape
  <2> QED
    BY <2>1, <2>2, <2>3, <2>4 DEF Own
<1>2. Shape'
  <2>1. proc' = [proc EXCEPT ![p].pc = "activate", ![p].own = {}, ![p].fresh = TRUE]
    BY DEF Reject
  <2> QED
    BY <1>1, <2>1 DEF WInv, Shape
<1>3. \A x \in Pids : PlaceOK(x)'
  BY <1>0, <1>1, Names DEF WInv, PlaceOK, Others, Ended, InLock, Holding
<1>4. \A x \in Pids : OwnOK(x)'
  BY <1>0, <1>1, Names DEF WInv, OwnOK, Others, Ended, Own
<1>5. \A x \in Pids : LockedOK(x)'
  BY <1>0, <1>1, Names DEF WInv, LockedOK, Others, InLock, Own, Pinning,
     Making, HasLease, Target
<1>6. \A x \in Pids : HoldOK(x)'
  BY <1>0, <1>1, Names DEF WInv, HoldOK, Others, Own, HasOutput, HasLease
<1>7. \A s \in Sims : DataOK(s)'
  BY <1>0, <1>1, Names DEF WInv, DataOK, Others, Good
<1>8. \A q \in Parents : ParentOK(q)'
  BY <1>0, <1>1, Names DEF WInv, ParentOK, Others, Ended, InLock, Own,
     HasOutput, HasLease, Good, Running
<1>9. LeaseKept
  BY <1>1, SameKeeps
<1> QED
  BY <1>2, <1>3, <1>4, <1>5, <1>6, <1>7, <1>8, <1>9 DEF WInv

LEMMA MarkFailsStep ==
  ASSUME WInv, NEW p \in Pids, Mark(p),
         ~(art[Output[p]].whole /\ Own(p) \subseteq leases)
  PROVE  WInv' /\ LeaseKept
<1>0. p \in Sims /\ proc[p].pc = "mark" /\ lock = None
  BY Names DEF Mark, WInv, PlaceOK, Ended, InLock, Holding
<1>1. /\ Others(p) /\ UNCHANGED <<leases, lock, ready, ack>> /\ UNCHANGED art
      /\ Ends(p)
  <2>1. /\ proc' = Moved(p, "failed") /\ UNCHANGED <<art, leases, lock, ready, ack>>
    BY DEF Mark
  <2>2. Others(p) /\ proc'[p] = Exited(p, "failed")
    BY <2>1 DEF Moved, Ended, WInv, Shape, Others
  <2> QED
    BY <2>1, <2>2, EndStep
<1>2. Shape'
  <2>1. proc' = [proc EXCEPT ![p] = Exited(p, "failed")]
    BY DEF Mark, Moved, Ended
  <2> QED
    BY <1>1, <2>1 DEF WInv, Shape, Exited, Started
<1>3. \A x \in Pids : PlaceOK(x)'
  BY <1>0, <1>1, Names DEF WInv, PlaceOK, Others, Ended, InLock, Holding, Ends
<1>4. \A x \in Pids : OwnOK(x)'
  BY <1>0, <1>1, Names DEF WInv, OwnOK, Others, Ended, Own, Ends
<1>5. \A x \in Pids : LockedOK(x)'
  BY <1>0, <1>1, Names DEF WInv, LockedOK, Others, InLock, Own, Pinning,
     Making, HasLease, Target, Ends
<1>6. \A x \in Pids : HoldOK(x)'
  BY <1>0, <1>1, Names DEF WInv, HoldOK, Others, Own, HasOutput, HasLease, Ends
<1>7. \A s \in Sims : DataOK(s)'
  BY <1>0, <1>1, Names DEF WInv, DataOK, Others, Good, Ends
<1>8. \A q \in Parents : ParentOK(q)'
  BY <1>0, <1>1, Names DEF WInv, ParentOK, Others, Ended, InLock, Own,
     HasOutput, HasLease, Good, Running, Ends
<1>9. LeaseKept
  BY <1>1, SameKeeps
<1> QED
  BY <1>2, <1>3, <1>4, <1>5, <1>6, <1>7, <1>8, <1>9 DEF WInv

LEMMA MarkDoneStep ==
  ASSUME WInv, NEW p \in Pids, Mark(p),
         art[Output[p]].whole, Own(p) \subseteq leases
  PROVE  WInv' /\ LeaseKept
<1>0. p \in Sims /\ proc[p].pc = "mark" /\ lock = None
  BY Names DEF Mark, WInv, PlaceOK, Ended, InLock, Holding
<1>1. /\ Others(p) /\ Kept(p) /\ proc'[p].pc = "handoff"
      /\ UNCHANGED <<leases, lock, ready, ack>>
      /\ HasOutput(p) /\ Fixed(Output[p]) /\ Good(p)'
      /\ art'[Output[p]].managed = art[Output[p]].managed
      /\ art'[Output[p]].size = art[Output[p]].size
      /\ art' \in [Entries -> {None} \cup Artifacts]
  <2> DEFINE e == Output[p]
             a == [art[e] EXCEPT !.token = Identity[p]]
             T == {None} \cup {Identity[s] : s \in Sims}
  <2>1. /\ UNCHANGED <<leases, lock, ready, ack>>
        /\ art' = [art EXCEPT ![e] = a] /\ art[e].whole
        /\ proc' = [proc EXCEPT ![p].pc = "handoff"]
    BY DEF Mark
  <2>2. HasOutput(p) /\ e \in Entries /\ art[e] # None
    BY <1>0, Names DEF WInv, HoldOK, OwnOK, HasOutput, HasLease, Own
  <2>3. art[e] \in Artifacts
    BY <2>2 DEF WInv, Shape
  <2>4. Identity[p] \in T
    BY <1>0
  <2>5. art[e] \in [managed : BOOLEAN, token : T, whole : BOOLEAN, size : Nat]
    BY <2>3 DEF Artifacts
  <2> HIDE DEF T
  <2>6. /\ a \in [managed : BOOLEAN, token : T, whole : BOOLEAN, size : Nat]
        /\ a.managed = art[e].managed /\ a.token = Identity[p] /\ a.whole
        /\ a.size = art[e].size
    BY <2>1, <2>4, <2>5
  <2>7. a \in Artifacts /\ a # None
    BY <2>6, Names DEF Artifacts, T
  <2>8. Others(p) /\ Kept(p) /\ proc'[p].pc = "handoff"
    BY <2>1 DEF WInv, Shape, Others, Kept, Own
  <2> HIDE DEF a
  <2>9. art'[e] = a /\ Fixed(e) /\ art' \in [Entries -> {None} \cup Artifacts]
    BY <2>1, <2>2, <2>7 DEF WInv, Shape, Fixed
  <2> QED
    BY <2>1, <2>2, <2>6, <2>7, <2>8, <2>9 DEF Good
<1>2. Shape'
  <2>1. proc' = [proc EXCEPT ![p].pc = "handoff"]
    BY DEF Mark
  <2> QED
    BY <1>1, <2>1 DEF WInv, Shape
<1>3. \A x \in Pids : PlaceOK(x)'
  BY <1>0, <1>1, Names DEF WInv, PlaceOK, Others, Kept, Fixed, Ended, InLock,
     Holding, Good, HoldOK, HasOutput, HasLease, Pids, Users
<1>4. \A x \in Pids : OwnOK(x)'
  BY <1>0, <1>1, Names DEF WInv, OwnOK, Others, Kept, Fixed, Ended, Own, Good,
     HoldOK, HasOutput, HasLease, Pids, Users
<1>5. \A x \in Pids : LockedOK(x)'
  BY <1>0, <1>1, Names DEF WInv, LockedOK, Others, Kept, Fixed, InLock, Own,
     Pinning, Making, HasLease, Target, Good, HoldOK, HasOutput, Pids, Users
<1>6. \A x \in Pids : HoldOK(x)'
  BY <1>0, <1>1, Names DEF WInv, HoldOK, Others, Kept, Fixed, Own, HasOutput,
     HasLease, Good, Pids, Users
<1>7. \A s \in Sims : DataOK(s)'
  BY <1>0, <1>1, Names DEF WInv, DataOK, Others, Kept, Fixed, Good, HoldOK,
     HasOutput, HasLease, Pids, Users
<1>8. \A q \in Parents : ParentOK(q)'
  BY <1>0, <1>1, Names DEF WInv, ParentOK, Others, Kept, Fixed, Ended, InLock,
     Own, HasOutput, HasLease, Good, Running, HoldOK, Pids, Users
<1>9. LeaseKept
  <2>1. Output[p] \in Entries /\ art[Output[p]] # None /\ art'[Output[p]] # None
    BY <1>0, <1>1, Names DEF Good, WInv, OwnOK, HasOutput, HasLease
  <2>2. \A x \in Pids : \A l \in Own(x) :
          /\ art'[l.entry] # None /\ art'[l.entry].managed
          /\ art'[l.entry].size >= art[l.entry].size
          /\ art[l.entry].whole => art'[l.entry].whole
    <3> TAKE x \in Pids
    <3> TAKE l \in Own(x)
    <3>1. /\ l.entry \in Entries /\ art[l.entry] # None
          /\ art[l.entry].managed /\ art[l.entry].size \in Nat
      BY DEF WInv, Shape, OwnOK, Artifacts
    <3>2. CASE l.entry = Output[p]
      BY <1>1, <3>1, <3>2 DEF Good
    <3>3. CASE l.entry # Output[p]
      BY <1>1, <3>1, <3>3 DEF Fixed
    <3> QED
      BY <3>2, <3>3
  <2> QED
    BY <2>2 DEF LeaseKept, Own
<1> QED
  BY <1>2, <1>3, <1>4, <1>5, <1>6, <1>7, <1>8, <1>9 DEF WInv

LEMMA ReleaseStep ==
  ASSUME WInv, NEW p \in Pids, Release(p)
  PROVE  WInv' /\ LeaseKept
<1>0. /\ lock = None /\ Own(p) # {}
      /\ \/ proc[p].pc \in {"release", "failout"}
         \/ proc[p].pc = "failing" /\ p \in Tools
  BY Names DEF Release, WInv, PlaceOK, Ended, InLock, Holding
<1>1. /\ Others(p) /\ UNCHANGED <<art, lock, ready, ack>>
      /\ \E l \in Own(p) :
           /\ leases' = leases \ {l}
           /\ \/ /\ proc'[p] = Exited(p, IF proc[p].pc = "release" THEN "done"
                                        ELSE "failed")
                 /\ proc'[p].pc = IF proc[p].pc = "release" THEN "done" ELSE "failed"
                 /\ Own(p)' = {} /\ proc'[p].todo = {}
                 /\ proc'[p].op \in {"pin", "activate"}
                 /\ p \in Sims => proc'[p].op = "activate"
              \/ /\ Own(p)' = Own(p) \ {l} /\ Own(p)' # {}
                 /\ proc'[p].pc = proc[p].pc /\ proc'[p].op = proc[p].op
                 /\ proc'[p].todo = proc[p].todo
  <2> DEFINE end == IF proc[p].pc = "release" THEN "done" ELSE "failed"
  <2>1. PICK l \in Own(p) :
          /\ leases' = leases \ {l}
          /\ proc' = IF Own(p) \ {l} = {} THEN Moved(p, end)
                     ELSE [proc EXCEPT ![p].own = Own(p) \ {l}]
    BY DEF Release
  <2>2. UNCHANGED <<art, lock, ready, ack>>
    BY DEF Release
  <2>3. CASE Own(p) \ {l} = {}
    <3>1. proc' = [proc EXCEPT ![p] = Exited(p, end)]
      BY <2>1, <2>3 DEF Moved, Ended
    <3>2. Others(p) /\ proc'[p] = Exited(p, end)
      BY <3>1 DEF WInv, Shape, Others
    <3>3. /\ Exited(p, end).pc = end /\ Exited(p, end).own = {}
          /\ Exited(p, end).todo = {}
          /\ Exited(p, end).op = IF p \in Sims THEN "activate" ELSE "pin"
      BY DEF Exited, Started
    <3> QED
      BY <2>1, <2>2, <3>2, <3>3 DEF Own
  <2>4. CASE Own(p) \ {l} # {}
    <3>1. proc' = [proc EXCEPT ![p].own = Own(p) \ {l}]
      BY <2>1, <2>4
    <3>2. /\ Others(p) /\ Own(p)' = Own(p) \ {l}
          /\ proc'[p].pc = proc[p].pc /\ proc'[p].op = proc[p].op
          /\ proc'[p].todo = proc[p].todo
      BY <3>1 DEF WInv, Shape, Others, Own
    <3> QED
      BY <2>1, <2>2, <2>4, <3>2
  <2> QED
    BY <2>3, <2>4
<1>2. Shape'
  <2>1. \/ proc' = [proc EXCEPT ![p] = Exited(p, "done")]
        \/ proc' = [proc EXCEPT ![p] = Exited(p, "failed")]
        \/ \E rest : proc' = [proc EXCEPT ![p].own = rest]
    BY DEF Release, Moved, Ended
  <2> QED
    BY <1>1, <2>1 DEF WInv, Shape, Exited, Started
<1>3. \A x \in Pids : PlaceOK(x)'
  BY <1>0, <1>1, Names DEF WInv, PlaceOK, Others, Ended, InLock, Holding,
     DataOK, OwnOK
<1>4. \A x \in Pids : OwnOK(x)'
  BY <1>0, <1>1, Names DEF WInv, OwnOK, Others, Ended, Own, DataOK
<1>5. \A x \in Pids : LockedOK(x)'
  BY <1>0, <1>1, Names DEF WInv, LockedOK, Others, InLock, Own, Pinning,
     Making, HasLease, Target, DataOK, OwnOK
<1>6. \A x \in Pids : HoldOK(x)'
  BY <1>0, <1>1, Names DEF WInv, HoldOK, Others, Own, HasOutput, HasLease,
     DataOK, OwnOK
<1>7. \A s \in Sims : DataOK(s)'
  BY <1>0, <1>1, Names DEF WInv, DataOK, Others, Good, OwnOK
<1>8. \A q \in Parents : ParentOK(q)'
  BY <1>0, <1>1, Names DEF WInv, ParentOK, Others, Ended, InLock, Own,
     HasOutput, HasLease, Good, Running, DataOK, OwnOK
<1>9. LeaseKept
  BY <1>1, SameKeeps
<1> QED
  BY <1>2, <1>3, <1>4, <1>5, <1>6, <1>7, <1>8, <1>9 DEF WInv

LEMMA ChildExitStep ==
  ASSUME WInv, NEW p \in Pids, ChildExit(p)
  PROVE  WInv' /\ LeaseKept
<1>0. /\ p \in Parents /\ ~Running(Child[p])
      /\ proc[p].pc \in {"child", "pin"}
  BY Names DEF ChildExit, WInv, PlaceOK, Ended, InLock, Holding
<1>1. /\ Others(p) /\ UNCHANGED <<art, leases, lock, ready, ack>>
      /\ \/ /\ Kept(p) /\ proc[p].pc = "child"
            /\ proc'[p].pc = IF proc[Child[p]].pc = "done" THEN "disc" ELSE "failout"
         \/ Ends(p)
  <2>1. UNCHANGED <<art, leases, lock, ready, ack>>
    BY DEF ChildExit
  <2>2. CASE proc[p].pc = "child"
    <3> DEFINE at == IF proc[Child[p]].pc = "done" THEN "disc" ELSE "failout"
    <3>1. proc' = [proc EXCEPT ![p].pc = at]
      BY <2>2 DEF ChildExit, Moved, Ended
    <3>2. Others(p) /\ Kept(p) /\ proc'[p].pc = at
      BY <3>1 DEF WInv, Shape, Others, Kept, Own
    <3> QED
      BY <2>1, <2>2, <3>2
  <2>3. CASE proc[p].pc = "pin"
    <3>1. proc' = [proc EXCEPT ![p] = Exited(p, "failed")]
      BY <2>3 DEF ChildExit, Moved, Ended
    <3>2. Others(p) /\ proc'[p] = Exited(p, "failed")
      BY <3>1 DEF WInv, Shape, Others
    <3> QED
      BY <2>1, <3>2, EndStep
  <2> QED
    BY <1>0, <2>2, <2>3
<1>2. Shape'
  <2>1. \/ proc' = [proc EXCEPT ![p] = Exited(p, "failed")]
        \/ \E at : proc' = [proc EXCEPT ![p].pc = at]
    BY DEF ChildExit, Moved, Ended
  <2> QED
    BY <1>1, <2>1 DEF WInv, Shape, Exited, Started
<1>3. \A x \in Pids : PlaceOK(x)'
  BY <1>0, <1>1, Names DEF WInv, PlaceOK, Others, Kept, Ended, InLock, Holding,
     Ends, Running
<1>4. \A x \in Pids : OwnOK(x)'
  BY <1>0, <1>1, Names DEF WInv, OwnOK, Others, Kept, Ended, Own, Ends, Running
<1>5. \A x \in Pids : LockedOK(x)'
  BY <1>0, <1>1, Names DEF WInv, LockedOK, Others, Kept, Ended, InLock, Own,
     Pinning, Making, HasLease, Target, Ends, Running
<1>6. \A x \in Pids : HoldOK(x)'
  BY <1>0, <1>1, Names DEF WInv, HoldOK, Others, Kept, Ended, Own, HasOutput,
     HasLease, Ends, Running
<1>7. \A s \in Sims : DataOK(s)'
  BY <1>0, <1>1, Names DEF WInv, DataOK, Others, Kept, Ended, Good, Ends,
     Running
<1>8. \A q \in Parents : ParentOK(q)'
  BY <1>0, <1>1, Names DEF WInv, ParentOK, Others, Kept, Ended, InLock, Own,
     HasOutput, HasLease, Good, Running, Ends
<1>9. LeaseKept
  BY <1>1, SameKeeps
<1> QED
  BY <1>2, <1>3, <1>4, <1>5, <1>6, <1>7, <1>8, <1>9 DEF WInv

LEMMA CrashStep ==
  ASSUME WInv, NEW p \in Pids, Crash(p)
  PROVE  WInv' /\ LeaseKept
<1>0. Running(p)
  BY Names DEF Crash, WInv, PlaceOK, Ended, InLock, Holding
<1>1. /\ Others(p) /\ Ends(p) /\ UNCHANGED <<art, leases, ready, ack>>
      /\ lock' = IF lock = p THEN None ELSE lock
  <2>1. Others(p) /\ proc'[p] = Exited(p, "failed")
    BY DEF Crash, Moved, Ended, WInv, Shape, Others
  <2> QED
    BY <2>1, EndStep DEF Crash
<1>2. Shape'
  <2>1. proc' = [proc EXCEPT ![p] = Exited(p, "failed")]
    BY DEF Crash, Moved, Ended
  <2> QED
    BY <1>1, <2>1 DEF WInv, Shape, Exited, Started
<1>3. \A x \in Pids : PlaceOK(x)'
  BY <1>0, <1>1, Names DEF WInv, PlaceOK, Others, Ended, InLock, Holding, Ends,
     Running
<1>4. \A x \in Pids : OwnOK(x)'
  BY <1>0, <1>1, Names DEF WInv, OwnOK, Others, Ended, Own, Ends, Running
<1>5. \A x \in Pids : LockedOK(x)'
  BY <1>0, <1>1, Names DEF WInv, LockedOK, Others, Ended, InLock, Own, Pinning,
     Making, HasLease, Target, Ends, Running
<1>6. \A x \in Pids : HoldOK(x)'
  BY <1>0, <1>1, Names DEF WInv, HoldOK, Others, Ended, Own, HasOutput,
     HasLease, Ends, Running
<1>7. \A s \in Sims : DataOK(s)'
  BY <1>0, <1>1, Names DEF WInv, DataOK, Others, Ended, Good, Ends, Running
<1>8. \A q \in Parents : ParentOK(q)'
  BY <1>0, <1>1, Names DEF WInv, ParentOK, Others, Ended, InLock, Own,
     HasOutput, HasLease, Good, Running, Ends
<1>9. LeaseKept
  BY <1>1, SameKeeps
<1> QED
  BY <1>2, <1>3, <1>4, <1>5, <1>6, <1>7, <1>8, <1>9 DEF WInv

LEMMA StartStep ==
  ASSUME WInv, NEW p \in Pids, Start(p)
  PROVE  WInv' /\ LeaseKept
<1>0. ~Running(p) /\ (p \in Parents => ~Running(Child[p]))
  BY Names DEF Start, WInv, PlaceOK, Ended, InLock, Holding
<1>1. /\ UNCHANGED <<art, lock>>
      /\ \A x \in Pids : Own(x) \subseteq leases'
      /\ \A x \in Pids : IF New(p, x) THEN Starts(x) ELSE proc'[x] = proc[x]
      /\ p \in Sims => ~Adopted(p)
      /\ \A s \in Sims : ready'[s] => ready[s] /\ ~(p \in Parents /\ s = Child[p])
      /\ \A s \in Sims : ack'[s] = (ack[s] /\ ~(p \in Parents /\ s = Child[p]))
      /\ ready' \in [Sims -> BOOLEAN] /\ ack' \in [Sims -> BOOLEAN]
  <2>1. \A x \in Pids : Own(x) \subseteq leases'
    <3> DEFINE mine == {l \in leases : l.pid = p}
    <3>1. \A l \in leases : l.pid # p => l \in leases'
      BY DEF Start
    <3> QED
      BY <1>0, <3>1 DEF WInv, OwnOK, Running
  <2>2. \A x \in Pids : IF New(p, x) THEN Starts(x) ELSE proc'[x] = proc[x]
    <3> TAKE x \in Pids
    <3>1. proc'[x] = IF New(p, x) THEN Started(x) ELSE proc[x]
      BY DEF Start, New
    <3>2. CASE New(p, x)
      BY <3>1, <3>2 DEF Starts, Started, Own
    <3>3. CASE ~New(p, x)
      BY <3>1, <3>3
    <3> QED
      BY <3>2, <3>3
  <2>4. /\ \A s \in Sims : ready'[s] = (ready[s] /\ ~(p \in Parents /\ s = Child[p]))
        /\ \A s \in Sims : ack'[s] = (ack[s] /\ ~(p \in Parents /\ s = Child[p]))
        /\ ready' \in [Sims -> BOOLEAN] /\ ack' \in [Sims -> BOOLEAN]
        /\ UNCHANGED <<art, lock>>
        /\ (p \in Sims => ~Adopted(p))
    BY DEF Start
  <2>8. \A s \in Sims : ready'[s] => ready[s] /\ ~(p \in Parents /\ s = Child[p])
    BY <2>4
  <2> QED
    BY <2>1, <2>2, <2>4, <2>8
<1>2. Shape'
  <2>1. proc' = [x \in Pids |-> IF x = p \/ (p \in Parents /\ x = Child[p])
                               THEN Started(x) ELSE proc[x]]
    BY DEF Start
  <2> QED
    BY <1>1, <2>1 DEF WInv, Shape, Started
<1>3. \A x \in Pids : PlaceOK(x)'
  BY <1>0, <1>1, Names DEF WInv, PlaceOK, Ended, InLock, Holding, New, Starts,
     Running, Adopted, OwnOK
<1>4. \A x \in Pids : OwnOK(x)'
  BY <1>0, <1>1, Names DEF WInv, OwnOK, Ended, Own, New, Starts, Running,
     Adopted
<1>5. \A x \in Pids : LockedOK(x)'
  BY <1>0, <1>1, Names DEF WInv, LockedOK, Ended, InLock, Own, Pinning, Making,
     HasLease, Target, New, Starts, Running, Adopted, OwnOK
<1>6. \A x \in Pids : HoldOK(x)'
  BY <1>0, <1>1, Names DEF WInv, HoldOK, Ended, Own, HasOutput, HasLease, New,
     Starts, Running, Adopted, OwnOK
<1>7. \A s \in Sims : DataOK(s)'
  BY <1>0, <1>1, Names DEF WInv, DataOK, Ended, Good, New, Starts, Running,
     Adopted, OwnOK
<1>8. \A q \in Parents : ParentOK(q)'
  BY <1>0, <1>1, Names DEF WInv, ParentOK, Ended, InLock, Own, HasOutput,
     HasLease, Good, Running, New, Starts, Adopted, OwnOK
<1>9. LeaseKept
  BY <1>1, SameKeeps
<1> QED
  BY <1>2, <1>3, <1>4, <1>5, <1>6, <1>7, <1>8, <1>9 DEF WInv

----------------------------------------------------------------------------
LEMMA WInvInit == Init => WInv
<1> SUFFICES ASSUME Init PROVE WInv
  OBVIOUS
<1>1. PICK old \in SUBSET (Entries \ Range(Output)) :
        art = [e \in Entries |->
                 IF e \notin old THEN None
                 ELSE [managed |-> TRUE, token |-> None, whole |-> TRUE,
                       size |-> 1]]
  BY DEF Init
<1>2. /\ proc = [p \in Pids |-> Exited(p, "done")] /\ lock = None
      /\ ready = [s \in Sims |-> FALSE] /\ ack = [s \in Sims |-> FALSE]
  BY DEF Init
<1>3. \A p \in Pids :
        /\ proc[p].pc = "done" /\ Own(p) = {} /\ proc[p].todo = {}
        /\ proc[p].op = IF p \in Sims THEN "activate" ELSE "pin"
  BY <1>2 DEF Exited, Started, Own
<1>4. Shape
  <2>1. [managed |-> TRUE, token |-> None, whole |-> TRUE, size |-> 1] \in Artifacts
    BY DEF Artifacts
  <2> QED
    BY <1>1, <1>2, <2>1 DEF Shape, Exited, Started
<1>5. \A p \in Pids : PlaceOK(p) /\ OwnOK(p) /\ LockedOK(p) /\ HoldOK(p)
  <2> TAKE p \in Pids
  <2>1. PlaceOK(p)
    BY <1>3, Names DEF PlaceOK, Ended, InLock
  <2>2. OwnOK(p)
    BY <1>3 DEF OwnOK
  <2>3. LockedOK(p)
    BY <1>2, <1>3, Names DEF LockedOK, Pinning, Making, InLock
  <2>4. HoldOK(p)
    BY <1>3 DEF HoldOK, HasOutput, HasLease
  <2> QED
    BY <2>1, <2>2, <2>3, <2>4
<1>6. \A s \in Sims : DataOK(s)
  BY <1>3, Names DEF DataOK
<1>7. \A q \in Parents : ParentOK(q)
  BY <1>2, <1>3, Names DEF ParentOK, Running, InLock, Ended
<1> QED
  BY <1>4, <1>5, <1>6, <1>7 DEF WInv

LEMMA WInvStep == WInv /\ [Next]_vars => WInv' /\ (LeaseKept \/ UNCHANGED vars)
<1> SUFFICES ASSUME WInv, [Next]_vars PROVE WInv' /\ (LeaseKept \/ UNCHANGED vars)
  OBVIOUS
<1>1. CASE UNCHANGED vars
  <2>1. Shape'
    BY <1>1 DEF vars, WInv, Shape
  <2>2. \A p \in Pids : PlaceOK(p)' /\ OwnOK(p)'
    BY <1>1 DEF vars, WInv, PlaceOK, OwnOK, Own
  <2>3. \A p \in Pids : LockedOK(p)'
    BY <1>1 DEF vars, WInv, LockedOK, Own, HasLease, Pinning, Making, Target
  <2>4. \A p \in Pids : HoldOK(p)'
    BY <1>1 DEF vars, WInv, HoldOK, Own, HasLease, HasOutput
  <2>5. \A s \in Sims : DataOK(s)'
    BY <1>1 DEF vars, WInv, DataOK, Good
  <2>6. \A q \in Parents : ParentOK(q)'
    BY <1>1 DEF vars, WInv, ParentOK, Own, HasLease, HasOutput, Good, Running
  <2> QED
    BY <1>1, <2>1, <2>2, <2>3, <2>4, <2>5, <2>6 DEF WInv
<1>2. ASSUME NEW p \in Pids, Step(p) \/ Start(p) \/ Crash(p)
      PROVE  WInv' /\ LeaseKept
  <2>1. CASE Activate(p) \/ Reset(p) \/ ResetDone(p) \/ Pin(p) \/ Plan(p)
    BY <2>1, ActivateStep, ResetStep, ResetDoneStep, PinStep, PlanStep
  <2>2. CASE Evict(p) \/ EvictDone(p) \/ Publish(p)
    BY <2>2, EvictStep, EvictDoneStep, PublishStep
  <2>3. CASE Grant(p)
    <3>1. proc[p].op \in {"pin", "activate"}
      BY DEF WInv, PlaceOK
    <3> QED
      BY <2>3, <3>1, GrantLeaseStep, GrantOutputStep
  <2>4. CASE Write(p) \/ Finish(p) \/ Error(p) \/ Check(p) \/ Reject(p)
    BY <2>4, WriteStep, FinishStep, ErrorStep, CheckStep, RejectStep
  <2>5. CASE Mark(p)
    BY <2>5, MarkFailsStep, MarkDoneStep
  <2>6. CASE Ready(p) \/ Handoff(p) \/ Timeout(p) \/ Release(p)
    BY <2>6, ReadyStep, HandoffStep, TimeoutStep, ReleaseStep
  <2>7. CASE ChildExit(p) \/ Disc(p) \/ Start(p) \/ Crash(p)
    BY <2>7, ChildExitStep, DiscStep, StartStep, CrashStep
  <2> QED
    BY <1>2, <2>1, <2>2, <2>3, <2>4, <2>5, <2>6, <2>7 DEF Step
<1> QED
  BY <1>1, <1>2 DEF Next

LEMMA WInvAlways == Spec => []WInv
  BY WInvInit, WInvStep, PTL DEF Spec

----------------------------------------------------------------------------
\* No step removes, tears, shrinks or replaces a directory that a live process
\* other than its remover leases: "never removes a live lease owned by another
\* encoder/render process", with kills, pid reuse and evictions.
THEOREM LeasesAreKept == Spec => LeasesKept
<1>1. WInv /\ [Next]_vars => [LeaseKept]_vars
  BY WInvStep
<1> QED
  BY <1>1, WInvAlways, PTL DEF Spec, LeasesKept

\* Two processes never fill one directory.
THEOREM MakersAlone == Spec => []OneMaker
<1>1. WInv => OneMaker
  BY Names DEF WInv, HoldOK, OneMaker, Pids, Users
<1> QED
  BY <1>1, WInvAlways, PTL

\* A run that skips its simulation has complete data of its own identity, of
\* whatever process and however many kills later.
THEOREM ReuseIsSound == Spec => []ReusedIsWhole
<1>1. WInv => ReusedIsWhole
  BY DEF WInv, DataOK, Good, ReusedIsWhole
<1> QED
  BY <1>1, WInvAlways, PTL

\* The parent's disc build reads what its child left.
THEOREM PinIsSound == Spec => []PinnedIsWhole
<1>1. WInv => PinnedIsWhole
  BY DEF WInv, ParentOK, Good, PinnedIsWhole
<1> QED
  BY <1>1, WInvAlways, PTL

----------------------------------------------------------------------------
(* Sums over finite sets.  A sum counts the unit intervals of its entries, so*)
(* what holds of it follows from what holds of cardinalities.              *)

Less == OpToRel(<, Nat)

LEMMA LessMember == \A x, y \in Nat : x < y => <<x, y>> \in Less
  BY Zenon DEF Less, OpToRel

LEMMA LessWellFounded == IsWellFoundedOn(Less, Nat)
  BY ONLY NatLessThanWellFounded, Zenon DEF Less

LEMMA Minimum ==
  ASSUME NEW S, S \subseteq Nat, S # {}
  PROVE  \E s \in S : \A t \in S : s <= t
<1>1. PICK s \in S : \A t \in S : ~(<<t, s>> \in Less)
  BY ONLY LessWellFounded, WFMin, S \subseteq Nat, S # {}, Zenon
<1>2. \A t \in S : ~(t < s)
  BY <1>1, LessMember
<1>3. \A t \in S : s <= t
  BY <1>2
<1> QED
  BY <1>3

\* The unit intervals of the entries of s: what a sum over s counts.
Units(f, s) == UNION {{x} \X (1 .. f[x]) : x \in s}

LEMMA OneUnits ==
  ASSUME NEW x, NEW n \in Nat
  PROVE  IsFiniteSet({x} \X (1 .. n)) /\ Cardinality({x} \X (1 .. n)) = n
<1> DEFINE g == [i \in 1 .. n |-> <<x, i>>]
           T == {x} \X (1 .. n)
<1>1. g \in Bijection(1 .. n, T)
  <2>1. g \in [1 .. n -> T] /\ IsInjective(g)
    BY DEF IsInjective
  <2>2. \A t \in T : \E i \in 1 .. n : g[i] = t
    OBVIOUS
  <2> QED
    BY <2>1, <2>2 DEF Bijection, Injection, Surjection
<1>2. IsFiniteSet(1 .. n) /\ Cardinality(1 .. n) = n
  BY FS_Interval
<1>3. ExistsBijection(1 .. n, T)
  BY <1>1, Zenon DEF ExistsBijection
<1> HIDE DEF g, T
<1>4. IsFiniteSet(T) /\ Cardinality(T) = n
  BY <1>2, <1>3, FS_Bijection
<1> QED
  BY <1>4 DEF T

LEMMA UnitsFinite ==
  ASSUME NEW s, IsFiniteSet(s), NEW f, \A x \in s : f[x] \in Nat
  PROVE  IsFiniteSet(Units(f, s)) /\ Cardinality(Units(f, s)) \in Nat
<1> DEFINE T == {{x} \X (1 .. f[x]) : x \in s}
           g == [x \in s |-> {x} \X (1 .. f[x])]
<1>1. g \in Surjection(s, T)
  BY DEF Surjection
<1>2. \A t \in T : IsFiniteSet(t)
  <2> SUFFICES ASSUME NEW x \in s PROVE IsFiniteSet({x} \X (1 .. f[x]))
    OBVIOUS
  <2> QED
    BY OneUnits
<1> HIDE DEF g, T
<1>3. IsFiniteSet(T)
  BY <1>1, FS_Surjection
<1>4. IsFiniteSet(UNION T)
  BY <1>2, <1>3, FS_UNION
<1>5. Cardinality(UNION T) \in Nat
  BY <1>4, FS_CardinalityType
<1> QED
  BY <1>4, <1>5 DEF T, Units

LEMMA UnitsStep ==
  ASSUME NEW s, IsFiniteSet(s), NEW f, \A x \in s : f[x] \in Nat, NEW x \in s
  PROVE  Cardinality(Units(f, s)) = Cardinality(Units(f, s \ {x})) + f[x]
<1> DEFINE A == Units(f, s \ {x})
           B == {x} \X (1 .. f[x])
<1>1. Units(f, s) = A \cup B
  BY DEF Units
<1>2. A \cap B = {}
  BY DEF Units
<1>3. IsFiniteSet(A) /\ Cardinality(A) \in Nat
  <2>1. IsFiniteSet(s \ {x})
    BY FS_RemoveElement
  <2> QED
    BY <2>1, UnitsFinite
<1>4. IsFiniteSet(B) /\ Cardinality(B) = f[x]
  BY OneUnits
<1> HIDE DEF A, B
<1>5. Cardinality(A \cup B) = Cardinality(A) + Cardinality(B) - Cardinality(A \cap B)
  BY <1>3, <1>4, FS_Union
<1>6. Cardinality(A \cap B) = 0
  BY <1>2, FS_EmptySet
<1>7. Cardinality(Units(f, s)) = Cardinality(A) + f[x]
  BY <1>1, <1>3, <1>4, <1>5, <1>6
<1> QED
  BY <1>7 DEF A

Some(s) == CHOOSE x \in s : TRUE
IsFold(g, f, S) ==
  g = [s \in SUBSET S |-> IF s = {} THEN 0 ELSE f[Some(s)] + g[s \ {Some(s)}]]

\* A fold of + over a set counts units: the cardinality satisfies its
\* recursion, and nothing else does.
LEMMA FoldExists ==
  ASSUME NEW S, IsFiniteSet(S), NEW f, \A x \in S : f[x] \in Nat
  PROVE  \E g : IsFold(g, f, S)
<1> DEFINE g == [s \in SUBSET S |-> Cardinality(Units(f, s))]
<1>1. ASSUME NEW s \in SUBSET S
      PROVE  g[s] = IF s = {} THEN 0 ELSE f[Some(s)] + g[s \ {Some(s)}]
  <2>1. CASE s = {}
    <3>1. Units(f, s) = {}
      BY <2>1 DEF Units
    <3> QED
      BY <2>1, <3>1, FS_EmptySet
  <2>2. CASE s # {}
    <3>1. Some(s) \in s
      BY <2>2 DEF Some
    <3>2. IsFiniteSet(s)
      BY FS_Subset
    <3>3. Cardinality(Units(f, s)) = Cardinality(Units(f, s \ {Some(s)})) + f[Some(s)]
      BY <3>1, <3>2, UnitsStep
    <3>4. Cardinality(Units(f, s \ {Some(s)})) \in Nat /\ f[Some(s)] \in Nat
      <4>1. IsFiniteSet(s \ {Some(s)})
        BY <3>2, FS_RemoveElement
      <4> QED
        BY <3>1, <4>1, UnitsFinite
    <3> QED
      BY <2>2, <3>3, <3>4
  <2> QED
    BY <2>1, <2>2
<1> HIDE DEF g
<1>2. g = [s \in SUBSET S |-> g[s]]
  BY DEF g
<1>3. IsFold(g, f, S)
  BY <1>1, <1>2 DEF IsFold
<1> QED
  BY <1>3

LEMMA FoldUnique ==
  ASSUME NEW S, IsFiniteSet(S), NEW f, \A x \in S : f[x] \in Nat, NEW g, IsFold(g, f, S)
  PROVE  g[S] = Cardinality(Units(f, S))
<1> DEFINE bad == {s \in SUBSET S : g[s] # Cardinality(Units(f, s))}
           sizes == {Cardinality(s) : s \in bad}
<1>1. \A s \in SUBSET S : g[s] = IF s = {} THEN 0 ELSE f[Some(s)] + g[s \ {Some(s)}]
  BY DEF IsFold
<1> SUFFICES ASSUME bad # {} PROVE FALSE
  OBVIOUS
<1>2. sizes \subseteq Nat /\ sizes # {}
  BY FS_Subset, FS_CardinalityType
<1>3. PICK n \in sizes : \A m \in sizes : n <= m
  BY <1>2, Minimum
<1>4. PICK s \in bad : Cardinality(s) = n
  BY <1>3
<1>5. s # {}
  <2>1. Units(f, {}) = {}
    BY DEF Units
  <2> QED
    BY <1>1, <1>4, <2>1, FS_EmptySet
<1>6. Some(s) \in s
  BY <1>5 DEF Some
<1>7. IsFiniteSet(s)
  BY FS_Subset
<1> DEFINE t == s \ {Some(s)}
<1>8. t \in SUBSET S /\ IsFiniteSet(t) /\ Cardinality(t) = Cardinality(s) - 1
  BY <1>6, <1>7, FS_RemoveElement
<1>9. Cardinality(s) \in Nat /\ Cardinality(t) \in Nat
  BY <1>7, <1>8, FS_CardinalityType
<1>10. t \notin bad
  <2>1. Cardinality(t) \notin sizes
    <3> HIDE DEF sizes, t
    <3> QED
      BY <1>2, <1>3, <1>4, <1>8, <1>9
  <2> HIDE DEF t
  <2> QED
    BY <2>1
<1>11. g[t] = Cardinality(Units(f, t))
  BY <1>8, <1>10
<1>12. Cardinality(Units(f, s)) = Cardinality(Units(f, t)) + f[Some(s)]
  BY <1>6, <1>7, UnitsStep
<1>13. Cardinality(Units(f, t)) \in Nat /\ f[Some(s)] \in Nat
  BY <1>6, <1>8, UnitsFinite
<1>14. g[s] = f[Some(s)] + g[t]
  BY <1>1, <1>5
<1>15. g[s] # Cardinality(Units(f, s))
  OBVIOUS
<1> HIDE DEF t, bad, sizes
<1> QED
  BY <1>11, <1>12, <1>13, <1>14, <1>15

LEMMA SumIsUnits ==
  ASSUME NEW S, IsFiniteSet(S), NEW f \in [S -> Nat]
  PROVE  SumFunction(f) = Cardinality(Units(f, S))
<1> DEFINE P(g) == IsFold(g, f, S)
           h == CHOOSE g : P(g)
<1>1. SumFunction(f) = h[S]
  BY DEF SumFunction, SumFunctionOnSet, FoldFunctionOnSet, MapThenFoldSet, IsFold, Some
<1>2. \E g : P(g)
  BY FoldExists
<1> HIDE DEF P
<1>3. P(h)
  BY <1>2, Zenon
<1> HIDE DEF h
<1>4. h[S] = Cardinality(Units(f, S))
  BY <1>3, FoldUnique DEF P
<1> QED
  BY <1>1, <1>4

LEMMA SumNat ==
  ASSUME NEW S, IsFiniteSet(S), NEW f \in [S -> Nat]
  PROVE  SumFunction(f) \in Nat
  BY SumIsUnits, UnitsFinite

LEMMA SumMonotone ==
  ASSUME NEW S, IsFiniteSet(S), NEW f \in [S -> Nat], NEW g \in [S -> Nat],
         \A x \in S : f[x] <= g[x]
  PROVE  SumFunction(f) <= SumFunction(g)
<1> DEFINE A == Units(f, S)
           B == Units(g, S)
<1>1. A \subseteq B
  BY DEF Units
<1>2. IsFiniteSet(B)
  BY UnitsFinite
<1>3. SumFunction(f) = Cardinality(A) /\ SumFunction(g) = Cardinality(B)
  BY SumIsUnits
<1> HIDE DEF A, B
<1> QED
  BY <1>1, <1>2, <1>3, FS_Subset

\* One entry changes.
LEMMA SumPoint ==
  ASSUME NEW S, IsFiniteSet(S), NEW f \in [S -> Nat], NEW g \in [S -> Nat],
         NEW x \in S, \A y \in S \ {x} : f[y] = g[y]
  PROVE  SumFunction(g) + f[x] = SumFunction(f) + g[x]
<1> DEFINE A == Units(f, S \ {x})
           B == Units(g, S \ {x})
<1>1. A = B
  BY DEF Units
<1>2. Cardinality(A) \in Nat
  <2>1. IsFiniteSet(S \ {x})
    BY FS_RemoveElement
  <2> QED
    BY <2>1, UnitsFinite
<1>3. /\ SumFunction(f) = Cardinality(A) + f[x]
      /\ SumFunction(g) = Cardinality(B) + g[x]
  BY SumIsUnits, UnitsStep
<1> HIDE DEF A, B
<1> QED
  BY <1>1, <1>2, <1>3

\* What each of S has is had by an entry of T of its own.
LEMMA SumInto ==
  ASSUME NEW S, NEW T, IsFiniteSet(S), IsFiniteSet(T),
         NEW f \in [S -> Nat], NEW g \in [T -> Nat], NEW h \in [S -> T],
         \A x \in S : f[x] <= g[h[x]],
         \A x, y \in S : x # y /\ h[x] = h[y] => f[x] = 0 \/ f[y] = 0
  PROVE  SumFunction(f) <= SumFunction(g)
<1> DEFINE A == Units(f, S)
           B == Units(g, T)
           m == [u \in A |-> <<h[u[1]], u[2]>>]
<1>1. \A u \in A : /\ u[1] \in S /\ u[2] \in 1 .. f[u[1]] /\ u = <<u[1], u[2]>>
  BY DEF Units
<1>2. \A u \in A : <<h[u[1]], u[2]>> \in B
  <2> TAKE u \in A
  <2> DEFINE x == u[1]
             i == u[2]
  <2>1. x \in S /\ i \in 1 .. f[x]
    BY <1>1
  <2> HIDE DEF x, i, A
  <2>2. h[x] \in T /\ i \in 1 .. g[h[x]]
    BY <2>1
  <2>3. <<h[x], i>> \in {h[x]} \X (1 .. g[h[x]])
    BY <2>2
  <2>4. <<h[x], i>> \in B
    BY <2>2, <2>3 DEF Units
  <2> QED
    BY <2>4 DEF x, i
<1>3. \A u, v \in A : m[u] = m[v] => u = v
  <2> SUFFICES ASSUME NEW u \in A, NEW v \in A, m[u] = m[v] PROVE u = v
    OBVIOUS
  <2>1. h[u[1]] = h[v[1]] /\ u[2] = v[2]
    OBVIOUS
  <2>2. f[u[1]] # 0 /\ f[v[1]] # 0
    BY <1>1
  <2>3. u[1] = v[1]
    BY <1>1, <2>1, <2>2
  <2> QED
    BY <1>1, <2>1, <2>3
<1>4. m \in Injection(A, B)
  <2>1. m \in [A -> B]
    BY <1>2
  <2>2. DOMAIN m = A
    OBVIOUS
  <2> HIDE DEF m
  <2> QED
    BY <1>3, <2>1, <2>2 DEF Injection, IsInjective
<1>5. IsFiniteSet(B)
  BY UnitsFinite
<1>6. SumFunction(f) = Cardinality(A) /\ SumFunction(g) = Cardinality(B)
  BY SumIsUnits
<1> HIDE DEF A, B, m
<1> QED
  BY <1>4, <1>5, <1>6, FS_Injection

----------------------------------------------------------------------------
(* Sequences that list a set                                               *)

\* A sequence that lists the members of a set, once each.
Lists(s, E) == /\ s \in Seq(E) /\ ToSet(s) = E
               /\ \A i, j \in 1 .. Len(s) : s[i] = s[j] => i = j

LEMMA AppendLists ==
  ASSUME NEW E, NEW s, Lists(s, E), NEW e, e \notin E
  PROVE  Lists(Append(s, e), E \cup {e})
<1> DEFINE t == Append(s, e)
<1>1. s \in Seq(E) /\ Len(s) \in Nat /\ DOMAIN s = 1 .. Len(s)
      /\ \A i \in 1 .. Len(s) : s[i] \in E
  BY DEF Lists
<1>2. /\ t \in Seq(E \cup {e}) /\ Len(t) = Len(s) + 1
      /\ \A i \in 1 .. Len(s) : t[i] = s[i] /\ t[Len(s) + 1] = e
      /\ DOMAIN t = 1 .. Len(s) + 1 /\ t[Len(s) + 1] = e
  <2>1. s \in Seq(E \cup {e})
    BY <1>1
  <2> QED
    BY <1>1, <2>1
<1> HIDE DEF t
<1>3. ToSet(t) = E \cup {e}
  BY <1>1, <1>2 DEF Lists, ToSet
<1>4. \A i, j \in 1 .. Len(t) : t[i] = t[j] => i = j
  BY <1>1, <1>2 DEF Lists
<1>5. Lists(t, E \cup {e})
  BY <1>2, <1>3, <1>4 DEF Lists
<1> QED
  BY <1>5 DEF t

LEMMA RemoveLists ==
  ASSUME NEW E, NEW s, Lists(s, E), NEW e
  PROVE  Lists(RemoveFirst(s, e), E \ {e})
<1>1. s \in Seq(E) /\ Len(s) \in Nat /\ DOMAIN s = 1 .. Len(s)
      /\ (\A i \in 1 .. Len(s) : s[i] \in E) /\ ToSet(s) = E
      /\ (\A i, j \in 1 .. Len(s) : s[i] = s[j] => i = j)
  BY DEF Lists
<1>2. CASE e \notin E
  <2>1. ~ \E i \in 1 .. Len(s) : s[i] = e
    BY <1>1, <1>2
  <2>2. RemoveFirst(s, e) = s /\ E \ {e} = E
    BY <1>2, <2>1 DEF RemoveFirst
  <2> QED
    BY <2>2
<1>3. CASE e \in E
  <2>1. PICK k \in 1 .. Len(s) : s[k] = e
    BY <1>1, <1>3 DEF ToSet
  <2>2. {i \in 1 .. Len(s) : s[i] = e} = {k}
    BY <1>1, <2>1
  <2>3. Min({k}) = k
    BY <2>1 DEF Min
  <2>4. RemoveFirst(s, e) = RemoveAt(s, k)
    BY <2>1, <2>2, <2>3 DEF RemoveFirst, SelectInSeq
  <2> DEFINE t == SubSeq(s, 1, k - 1) \o SubSeq(s, k + 1, Len(s))
  <2>5. /\ t \in Seq(E) /\ Len(t) = Len(s) - 1 /\ DOMAIN t = 1 .. Len(s) - 1
        /\ \A i \in 1 .. Len(s) - 1 : t[i] = IF i < k THEN s[i] ELSE s[i + 1]
    <3> DEFINE a == SubSeq(s, 1, k - 1)
               b == SubSeq(s, k + 1, Len(s))
    <3>1. /\ a \in Seq(E) /\ Len(a) = k - 1
          /\ \A i \in 1 .. k - 1 : a[i] = s[i]
      BY <1>1, <2>1
    <3>2. /\ b \in Seq(E) /\ Len(b) = Len(s) - k
          /\ \A i \in 1 .. Len(s) - k : b[i] = s[k + i]
      <4>1. k + 1 \in 1 .. Len(s) + 1 /\ Len(s) \in k .. Len(s)
        BY <1>1, <2>1
      <4>2. b \in Seq(E) /\ Len(b) = IF k + 1 <= Len(s) THEN Len(s) - (k + 1) + 1 ELSE 0
        BY <1>1, <4>1, SubSeqProperties
      <4>3. Len(b) = Len(s) - k
        <5> HIDE DEF b
        <5>1. k \in Int /\ Len(s) \in Int /\ k <= Len(s)
          BY <1>1, <2>1
        <5>2. CASE k + 1 <= Len(s)
          <6>1. Len(b) = Len(s) - (k + 1) + 1
            BY <4>2, <5>2
          <6> QED
            BY <5>1, <6>1
        <5>3. CASE ~(k + 1 <= Len(s))
          <6>1. Len(b) = 0
            BY <4>2, <5>3
          <6> QED
            BY <5>1, <5>3, <6>1
        <5> QED
          BY <5>2, <5>3
      <4>4. ASSUME NEW i \in 1 .. Len(s) - k PROVE b[i] = s[k + i]
        <5>1. b[i] = s[(k + 1) + i - 1]
          BY <1>1, <4>1
        <5> QED
          BY <5>1, <1>1, <2>1
      <4> QED
        BY <4>2, <4>3, <4>4
    <3> HIDE DEF a, b
    <3>3. /\ a \o b \in Seq(E) /\ Len(a \o b) = Len(s) - 1
          /\ \A i \in 1 .. Len(s) - 1 : 
               (a \o b)[i] = IF i < k THEN s[i] ELSE s[i + 1]
      <4>1. a \o b \in Seq(E) /\ Len(a \o b) = Len(s) - 1
        <5>1. a \o b \in Seq(E) /\ Len(a \o b) = Len(a) + Len(b)
          BY <3>1, <3>2, ConcatProperties
        <5> QED
          BY <5>1, <1>1, <2>1, <3>1, <3>2
      <4>2. ASSUME NEW i \in 1 .. Len(s) - 1
            PROVE  (a \o b)[i] = IF i < k THEN s[i] ELSE s[i + 1]
        <5>1. (a \o b)[i] = IF i <= Len(a) THEN a[i] ELSE b[i - Len(a)]
          BY <1>1, <2>1, <3>1, <3>2
        <5>2. CASE i < k
          BY <5>1, <5>2, <1>1, <2>1, <3>1, <3>2
        <5>3. CASE i >= k
          <6>1. i - (k - 1) \in 1 .. Len(s) - k /\ k + (i - (k - 1)) = i + 1
            BY <5>3, <1>1, <2>1
          <6>2. b[i - (k - 1)] = s[i + 1]
            BY <3>2, <6>1
          <6> QED
            BY <5>1, <5>3, <6>2, <1>1, <2>1, <3>1, <3>2
        <5> QED
          <6>1. i \in Int /\ k \in Int
            OBVIOUS
          <6>2. i < k \/ i >= k
            BY <6>1
          <6> QED
            BY <5>2, <5>3, <6>2
      <4> QED
        BY <4>1, <4>2
    <3>4. t = a \o b
      BY DEF a, b
    <3>5. DOMAIN t = 1 .. Len(s) - 1
      BY <3>3, <3>4
    <3> HIDE DEF t
    <3> QED
      BY <3>3, <3>4, <3>5
  <2> HIDE DEF t
  <2>6. \A i \in 1 .. Len(t) : t[i] \in E \ {e}
    BY <1>1, <2>1, <2>5
  <2>7. t \in Seq(E \ {e})
    BY <2>5, <2>6, <1>1, <2>1
  <2>8. ToSet(t) = E \ {e}
    <3>1. \A x \in E \ {e} : \E i \in DOMAIN t : t[i] = x
      <4> TAKE x \in E \ {e}
      <4>1. PICK i \in 1 .. Len(s) : s[i] = x
        BY <1>1 DEF ToSet
      <4>2. i # k
        BY <2>1, <4>1
      <4>3. CASE i < k
        BY <4>1, <4>3, <2>1, <2>5, <1>1
      <4>4. CASE i > k
        <5>1. i - 1 \in 1 .. Len(s) - 1 /\ i - 1 >= k /\ (i - 1) + 1 = i
          BY <4>4, <2>1, <1>1
        <5> QED
          <6>1. i - 1 \in DOMAIN t /\ t[i - 1] = s[i]
            BY <5>1, <2>5, <2>1
          <6> QED
            BY <4>1, <6>1
      <4> QED
        BY <4>2, <4>3, <4>4, <2>1
    <3> QED
      BY <3>1, <2>5, <2>6 DEF ToSet
  <2>9. \A i, j \in 1 .. Len(t) : t[i] = t[j] => i = j
    <3> SUFFICES ASSUME NEW i \in 1 .. Len(t), NEW j \in 1 .. Len(t), t[i] = t[j]
                 PROVE  i = j
      OBVIOUS
    <3> DEFINE o(x) == IF x < k THEN x ELSE x + 1
    <3>1. /\ t[i] = s[o(i)] /\ t[j] = s[o(j)]
          /\ o(i) \in 1 .. Len(s) /\ o(j) \in 1 .. Len(s)
      BY <2>5, <2>1, <1>1
    <3>2. o(i) = o(j)
      <4> HIDE DEF o
      <4> QED
        BY <3>1, <1>1
    <3> QED
      BY <3>2, <2>1, <2>5, <1>1
  <2>10. Lists(t, E \ {e})
    BY <2>7, <2>8, <2>9 DEF Lists
  <2> QED
    BY <2>4, <2>10 DEF RemoveAt, t
<1> QED
  BY <1>2, <1>3

LEMMA ListsLength ==
  ASSUME NEW E, NEW s, Lists(s, E)
  PROVE  Len(s) = Cardinality(E)
<1>1. s \in Bijection(1 .. Len(s), E)
  BY DEF Lists, ToSet, Bijection, Injection, Surjection, IsInjective
<1>2. Len(s) \in Nat
  BY DEF Lists
<1>3. ExistsBijection(1 .. Len(s), E)
  BY <1>1, Zenon DEF ExistsBijection
<1> QED
  BY <1>2, <1>3, FS_CountingElements

LEMMA SetToSeqLists ==
  ASSUME NEW E, IsFiniteSet(E)
  PROVE  Lists(SetToSeq(E), E)
<1> DEFINE n == Cardinality(E)
           P(f) == f \in [1 .. n -> E] /\ IsInjective(f)
<1>1. n \in Nat /\ ExistsBijection(1 .. n, E)
  BY FS_CardinalityType
<1> HIDE DEF n
<1>2. PICK b : b \in Bijection(1 .. n, E)
  BY <1>1 DEF ExistsBijection
<1>3. P(b)
  BY <1>2 DEF Bijection, Injection
<1>4. P(SetToSeq(E))
  <2>1. SetToSeq(E) = CHOOSE f : P(f)
    BY DEF SetToSeq, n
  <2> HIDE DEF P
  <2> QED
    BY <1>3, <2>1
<1> DEFINE s == SetToSeq(E)
<1>5. s \in [1 .. n -> E] /\ IsInjective(s)
  BY <1>4
<1> HIDE DEF s
<1>6. s \in Seq(E) /\ Len(s) = n /\ DOMAIN s = 1 .. n
  BY <1>1, <1>5
<1>7. IsFiniteSet(1 .. n) /\ Cardinality(1 .. n) = n
  BY <1>1, FS_Interval
<1>8. ToSet(s) = E
  <2>1. s \in Injection(1 .. n, E)
    BY <1>5 DEF Injection
  <2>2. s \in Surjection(1 .. n, E)
    BY <1>7, <2>1, FS_Injection DEF n
  <2> QED
    BY <1>6, <2>2 DEF Surjection, ToSet
<1>9. Lists(s, E)
  BY <1>5, <1>6, <1>8 DEF Lists, IsInjective
<1> QED
  BY <1>9 DEF s

----------------------------------------------------------------------------
(* The books: the markers, the tokens, the order and the free space        *)

Dirs    == {e \in Entries : art[e] # None}
SizeOf  == [e \in Entries |-> Size(e)]
ClaimOf == [e \in Entries |-> Claim(e)]
OwedOf  == [p \in Users |-> Owed(p)]
Owes    == SumFunction(OwedOf)

\* The lease markers are what the code writes.
MarkersOK == IsFiniteSet(leases) /\ \A l \in leases : l \in LeaseRecord

\* What can be reused was made by a run that was given the space it asked for.
TokensOK ==
  \A e \in Entries, s \in Sims :
    art[e] # None /\ art[e].token = Identity[s] => Required[s] <= Capacity

\* A process that has not begun has written nothing; one that is given space
\* asked for no more than there is; the lease of an output is for what its user
\* asked for; what is to be created is not there.
Early == {"activate", "pin", "check", "reject"} \cup InLock
Given == {"evict", "unlink", "grant", "publish"}
AskOK(p) ==
  /\ proc[p].wrote \in Nat
  /\ proc[p].pc \in Early => proc[p].wrote = 0
  /\ proc[p].pc \in Given => Wants(p) <= Capacity
  /\ p \in Users => \A l \in Own(p) :
       l.required = IF l.entry = Output[p] THEN Required[p] ELSE Derived[p]

AbsentOK(p) ==
  proc[p].pc \in {"plan", "evict", "unlink", "grant"} /\ proc[p].op = "activate" =>
    art[Output[p]] = None

\* The inductive invariant of the type.
BooksInv ==
  /\ MarkersOK /\ TokensOK /\ Lists(order, Dirs)
  /\ \A p \in Pids : AskOK(p) /\ AbsentOK(p)
  /\ events \in 0 .. MaxEvents /\ Free >= 0

\* What a maker has yet to write, and the directory that it fills.
MakeOK(p) ==
  /\ proc[p].pc = "make" =>
       proc[p].wrote <= Required[p] /\ Size(Output[p]) <= proc[p].wrote
  /\ proc[p].pc = "publish" => Size(Output[p]) = 0

\* An eviction aims at the room for the makers and for the process itself; after
\* it there is that room.
RoomOK(p) ==
  /\ proc[p].pc \in {"evict", "unlink"} =>
       proc[p].goal \in Int /\ proc[p].goal >= Wants(p) + Owes
  /\ proc[p].pc \in {"grant", "publish"} /\ proc[p].op = "activate" =>
       Owes + Required[p] <= Free

\* The inductive invariant of the reservations.
SpaceInv == Owes <= Free /\ \A p \in Pids : MakeOK(p) /\ RoomOK(p)

NoDerivedData == \A w \in Tools : Derived[w] = 0

----------------------------------------------------------------------------
LEMMA Numbers ==
  /\ IsFiniteSet(Users) /\ IsFiniteSet(Entries) /\ IsFiniteSet(Pids)
  /\ \A p \in Users : Required[p] \in Nat \ {0}
  /\ \A p \in Tools : Derived[p] \in Nat
  /\ Capacity \in Nat /\ MinFree \in Nat /\ MaxEvents \in Nat
  /\ \A r, s \in Sims : Identity[r] = Identity[s] => Required[r] = Required[s]
<1>1. IsFiniteSet(Users)
  <2>1. Users \in SUBSET Pids
    BY Names
  <2> QED
    BY <2>1, FS_Subset, WorkspaceAssumption
<1> QED
  BY <1>1, WorkspaceAssumption DEF Users

LEMMA WantsNat ==
  ASSUME NEW p \in Pids, PlaceOK(p)
  PROVE  Wants(p) \in Nat
  BY Names, Numbers DEF Wants, PlaceOK

LEMMA SizeNat ==
  ASSUME Shape
  PROVE  SizeOf \in [Entries -> Nat] /\ \A e \in Entries : SizeOf[e] = Size(e)
<1>1. \A e \in Entries : Size(e) \in Nat
  BY DEF Shape, Size, Artifacts
<1> QED
  BY <1>1 DEF SizeOf

LEMMA FreeInt ==
  ASSUME Shape
  PROVE  /\ Free = Capacity - SumFunction(SizeOf)
         /\ SumFunction(SizeOf) \in Nat /\ Free \in Int
<1>1. SumFunction(SizeOf) \in Nat
  BY SizeNat, SumNat, Numbers
<1>2. Free = Capacity - SumFunction(SizeOf)
  BY DEF Free, SizeOf
<1> QED
  BY <1>1, <1>2, Numbers

LEMMA FreeGrows ==
  ASSUME Shape, Shape', \A e \in Entries : Size(e)' <= Size(e)
  PROVE  Free' >= Free
<1>1. Free = Capacity - SumFunction(SizeOf) /\ SumFunction(SizeOf) \in Nat
      /\ SizeOf \in [Entries -> Nat] /\ \A e \in Entries : SizeOf[e] = Size(e)
  BY FreeInt, SizeNat
<1>2. Free' = Capacity - SumFunction(SizeOf') /\ SumFunction(SizeOf') \in Nat
      /\ SizeOf' \in [Entries -> Nat] /\ \A e \in Entries : SizeOf'[e] = Size(e)'
  <2>1. (Shape => Free = Capacity - SumFunction(SizeOf) /\ SumFunction(SizeOf) \in Nat
      /\ SizeOf \in [Entries -> Nat] /\ \A e \in Entries : SizeOf[e] = Size(e))'
    BY FreeInt, SizeNat, PTL
  <2> QED
    BY <2>1
<1>3. SumFunction(SizeOf') <= SumFunction(SizeOf)
  <2> DEFINE f == SizeOf'
             g == SizeOf
  <2>1. f \in [Entries -> Nat] /\ g \in [Entries -> Nat] /\ \A e \in Entries : f[e] <= g[e]
    BY <1>1, <1>2
  <2> HIDE DEF f, g
  <2>2. SumFunction(f) <= SumFunction(g)
    BY <2>1, SumMonotone, Numbers
  <2> QED
    BY <2>2 DEF f, g
<1> QED
  BY <1>1, <1>2, <1>3, Numbers

LEMMA SizePrime ==
  ASSUME Shape'
  PROVE  /\ Free' = Capacity - SumFunction(SizeOf')
         /\ SumFunction(SizeOf') \in Nat /\ Free' \in Int
         /\ SizeOf' \in [Entries -> Nat] /\ \A e \in Entries : SizeOf'[e] = Size(e)'
<1>1. (Shape => /\ Free = Capacity - SumFunction(SizeOf)
                /\ SumFunction(SizeOf) \in Nat /\ Free \in Int
                /\ SizeOf \in [Entries -> Nat]
                /\ \A e \in Entries : SizeOf[e] = Size(e))'
  BY FreeInt, SizeNat, PTL
<1> QED
  BY <1>1

LEMMA FreeDrops ==
  ASSUME Shape, Shape', NEW e \in Entries, Size(e)' = Size(e) + 1,
         \A x \in Entries \ {e} : Size(x)' = Size(x)
  PROVE  Free' = Free - 1
<1> DEFINE f == SizeOf
           g == SizeOf'
<1>1. /\ Free = Capacity - SumFunction(f) /\ SumFunction(f) \in Nat
      /\ f \in [Entries -> Nat] /\ \A x \in Entries : f[x] = Size(x)
  BY FreeInt, SizeNat
<1>2. /\ Free' = Capacity - SumFunction(g) /\ SumFunction(g) \in Nat
      /\ g \in [Entries -> Nat] /\ \A x \in Entries : g[x] = Size(x)'
  BY SizePrime
<1> HIDE DEF f, g
<1>3. SumFunction(g) + f[e] = SumFunction(f) + g[e]
  BY <1>1, <1>2, SumPoint, Numbers
<1>4. g[e] = f[e] + 1 /\ f[e] \in Nat
  BY <1>1, <1>2
<1> QED
  BY <1>1, <1>2, <1>3, <1>4, Numbers

OwingOK == \A p \in Pids : AskOK(p) /\ MakeOK(p)

LEMMA OwedNat ==
  ASSUME NoDerivedData, OwingOK
  PROVE  /\ OwedOf \in [Users -> Nat] /\ Owes \in Nat
         /\ Owes = SumFunction(OwedOf)
         /\ \A p \in Users :
              /\ OwedOf[p] = IF proc[p].pc = "make" THEN Required[p] - proc[p].wrote
                             ELSE 0
              /\ OwedOf[p] = Owed(p) /\ OwedOf[p] \in Nat
<1>1. \A p \in Users : Asked(p) = Required[p]
  BY Numbers DEF Asked, Pinned, NoDerivedData
<1>2. \A p \in Users : Owed(p) = IF proc[p].pc = "make" THEN Required[p] - proc[p].wrote
                                 ELSE 0
  BY <1>1 DEF Owed
<1>3. \A p \in Users : proc[p].wrote \in Nat
                       /\ (proc[p].pc = "make" => proc[p].wrote <= Required[p])
  BY Names DEF OwingOK, AskOK, MakeOK
<1>4. \A p \in Users : Owed(p) \in Nat
  BY <1>2, <1>3, Numbers
<1>5. OwedOf \in [Users -> Nat] /\ \A p \in Users : OwedOf[p] = Owed(p)
  BY <1>4 DEF OwedOf
<1>6. Owes \in Nat
  BY <1>5, SumNat, Numbers DEF Owes
<1> QED
  BY <1>2, <1>4, <1>5, <1>6 DEF Owes

LEMMA OwedPrime ==
  ASSUME NoDerivedData, OwingOK'
  PROVE  /\ OwedOf' \in [Users -> Nat] /\ Owes' \in Nat
         /\ Owes' = SumFunction(OwedOf')
         /\ \A p \in Users :
              /\ OwedOf'[p] = IF proc'[p].pc = "make"
                              THEN Required[p] - proc'[p].wrote ELSE 0
              /\ OwedOf'[p] = Owed(p)' /\ OwedOf'[p] \in Nat
<1>1. (NoDerivedData /\ OwingOK =>
         /\ OwedOf \in [Users -> Nat] /\ Owes \in Nat
         /\ Owes = SumFunction(OwedOf)
         /\ \A p \in Users :
              /\ OwedOf[p] = IF proc[p].pc = "make" THEN Required[p] - proc[p].wrote
                             ELSE 0
              /\ OwedOf[p] = Owed(p) /\ OwedOf[p] \in Nat)'
  BY OwedNat, PTL
<1>2. NoDerivedData'
  BY DEF NoDerivedData
<1> QED
  BY <1>1, <1>2

\* Nobody begins to make or writes.
LEMMA OwesFall ==
  ASSUME NoDerivedData, OwingOK, OwingOK',
         \A x \in Users : proc'[x] = proc[x] \/ proc'[x].pc # "make"
  PROVE  Owes' <= Owes
<1> DEFINE f == OwedOf'
           g == OwedOf
<1>1. /\ f \in [Users -> Nat] /\ Owes' = SumFunction(f)
      /\ \A p \in Users : f[p] = IF proc'[p].pc = "make"
                                 THEN Required[p] - proc'[p].wrote ELSE 0
  BY OwedPrime
<1>2. /\ g \in [Users -> Nat] /\ Owes = SumFunction(g)
      /\ \A p \in Users : g[p] = IF proc[p].pc = "make"
                                 THEN Required[p] - proc[p].wrote ELSE 0
  BY OwedNat DEF Owes
<1> HIDE DEF f, g
<1>3. \A p \in Users : f[p] <= g[p]
  <2> TAKE p \in Users
  <2>1. CASE proc'[p] = proc[p]
    <3>1. f[p] = g[p] /\ g[p] \in Nat
      BY <1>1, <1>2, <2>1
    <3> QED
      BY <3>1
  <2>2. CASE proc'[p].pc # "make"
    <3>1. f[p] = 0 /\ g[p] \in Nat
      BY <1>1, <1>2, <2>2
    <3> QED
      BY <3>1
  <2> QED
    BY <2>1, <2>2
<1> QED
  BY <1>1, <1>2, <1>3, SumMonotone, Numbers

\* One maker's debt changes.
LEMMA OwesPoint ==
  ASSUME NoDerivedData, OwingOK, OwingOK', NEW p \in Users, Others(p)
  PROVE  /\ Owes' + Owed(p) = Owes + Owed(p)'
         /\ Owes \in Nat /\ Owes' \in Nat /\ Owed(p) \in Nat /\ Owed(p)' \in Nat
<1> DEFINE f == OwedOf
           g == OwedOf'
<1>1. /\ g \in [Users -> Nat] /\ Owes' = SumFunction(g) /\ Owes' \in Nat
      /\ \A x \in Users : g[x] = IF proc'[x].pc = "make"
                                 THEN Required[x] - proc'[x].wrote ELSE 0
      /\ g[p] = Owed(p)'
  BY OwedPrime
<1>2. /\ f \in [Users -> Nat] /\ Owes = SumFunction(f) /\ Owes \in Nat
      /\ \A x \in Users : f[x] = IF proc[x].pc = "make"
                                 THEN Required[x] - proc[x].wrote ELSE 0
      /\ f[p] = Owed(p)
  BY OwedNat DEF Owes
<1> HIDE DEF f, g
<1>3. \A x \in Users \ {p} : f[x] = g[x]
  BY <1>1, <1>2, Names DEF Others
<1>4. SumFunction(g) + f[p] = SumFunction(f) + g[p]
  BY <1>1, <1>2, <1>3, SumPoint, Numbers
<1> QED
  BY <1>1, <1>2, <1>4

\* The largest claim on an entry.
LEMMA Largest ==
  ASSUME NEW S, S \subseteq 0 .. Capacity, S # {}
  PROVE  Max(S) \in S /\ \A x \in S : Max(S) >= x
<1> DEFINE D == {Capacity - x : x \in S}
<1>1. D \subseteq Nat /\ D # {}
  <2>1. \A x \in S : x \in Int /\ 0 <= x /\ x <= Capacity
    OBVIOUS
  <2>2. \A x \in S : Capacity - x \in Nat
    BY <2>1, Numbers
  <2> QED
    BY <2>2
<1>2. PICK d \in D : \A c \in D : d <= c
  BY <1>1, Minimum
<1>3. PICK m \in S : d = Capacity - m
  BY <1>2
<1>4. \A x \in S : m >= x
  <2> TAKE x \in S
  <2>1. Capacity - m <= Capacity - x
    BY <1>2, <1>3
  <2>2. m \in Int /\ x \in Int
    OBVIOUS
  <2> QED
    BY <2>1, <2>2, Numbers
<1>5. \E y \in S : \A x \in S : y >= x
  BY <1>4
<1> QED
  BY <1>5 DEF Max

LEMMA ClaimCovers ==
  ASSUME Shape, MarkersOK, NEW e \in Entries
  PROVE  /\ Claim(e) \in Nat
         /\ \A l \in Live : l.entry = e => Claim(e) >= l.required - Size(e)
<1> DEFINE S == {0} \cup {l.required : l \in {k \in Live : k.entry = e}}
           most == Max(S)
           T == {0, most - Size(e)}
<1>1. S \subseteq 0 .. Capacity /\ S # {}
  BY Numbers DEF MarkersOK, Live, LeaseRecord
<1>2. \A l \in Live : l.entry = e => l.required \in S
  OBVIOUS
<1>3. Claim(e) = Max(T)
  BY DEF Claim
<1>4. Size(e) \in Nat
  BY SizeNat
<1> HIDE DEF S
<1>5. most \in S /\ \A x \in S : most >= x
  BY <1>1, Largest
<1> HIDE DEF most
<1>6. most \in 0 .. Capacity
  BY <1>1, <1>5
<1>7. \E y \in T : \A x \in T : y >= x
  <2>1. CASE most >= Size(e)
    <3>1. \A x \in T : most - Size(e) >= x
      BY <2>1, <1>4, <1>6
    <3> QED
      BY <3>1
  <2>2. CASE ~(most >= Size(e))
    <3>1. \A x \in T : 0 >= x
      BY <2>2, <1>4, <1>6
    <3> QED
      BY <3>1
  <2> QED
    BY <2>1, <2>2
<1>8. Max(T) \in T /\ \A x \in T : Max(T) >= x
  <2> HIDE DEF T
  <2> QED
    BY <1>7 DEF Max
<1>9. Claim(e) >= 0 /\ Claim(e) >= most - Size(e) /\ Claim(e) \in Int
  BY <1>3, <1>4, <1>6, <1>8
<1>10. ASSUME NEW l \in Live, l.entry = e
       PROVE  Claim(e) >= l.required - Size(e)
  <2>1. l.required \in S
    BY <1>2, <1>10
  <2>2. most >= l.required /\ l.required \in 0 .. Capacity
    BY <1>1, <1>5, <2>1
  <2> QED
    BY <1>4, <1>6, <1>9, <2>2
<1> QED
  BY <1>9, <1>10

LEMMA ReservationNat ==
  ASSUME Shape, MarkersOK
  PROVE  ActiveReservation \in Nat /\ ActiveReservation = SumFunction(ClaimOf)
         /\ ClaimOf \in [Entries -> Nat] /\ \A e \in Entries : ClaimOf[e] = Claim(e)
<1>1. \A e \in Entries : Claim(e) \in Nat
  BY ClaimCovers
<1> DEFINE g == ClaimOf
<1>2. g \in [Entries -> Nat] /\ \A e \in Entries : g[e] = Claim(e)
  BY <1>1 DEF ClaimOf
<1>3. ActiveReservation = SumFunction(g)
  BY DEF ActiveReservation, ClaimOf
<1> HIDE DEF g
<1>4. SumFunction(g) \in Nat
  BY <1>2, SumNat, Numbers
<1> QED
  BY <1>2, <1>3, <1>4 DEF g

\* What the makers owe is reserved.
LEMMA ReservationCovers ==
  ASSUME NoDerivedData, WInv, MarkersOK, OwingOK
  PROVE  Owes <= ActiveReservation /\ ActiveReservation \in Nat
<1> DEFINE f == OwedOf
           g == ClaimOf
           h == [p \in Users |-> Output[p]]
<1>1. /\ f \in [Users -> Nat] /\ Owes = SumFunction(f)
      /\ \A p \in Users : f[p] = IF proc[p].pc = "make"
                                 THEN Required[p] - proc[p].wrote ELSE 0
  BY OwedNat DEF Owes
<1>2. /\ g \in [Entries -> Nat] /\ \A e \in Entries : g[e] = Claim(e)
      /\ ActiveReservation = SumFunction(g)
  BY ReservationNat DEF WInv
<1>3. h \in [Users -> Entries] /\ \A p \in Users : h[p] = Output[p]
  BY Names
<1> HIDE DEF f, g, h
<1>4. ASSUME NEW p \in Users PROVE f[p] <= g[h[p]]
  <2>1. h[p] = Output[p] /\ h[p] \in Entries /\ g[h[p]] \in Nat
        /\ g[h[p]] = Claim(Output[p])
    BY <1>2, <1>3
  <2>2. CASE proc[p].pc # "make"
    BY <1>1, <2>1, <2>2
  <2>3. CASE proc[p].pc = "make"
    <3>1. p \in Pids /\ HasOutput(p)
      BY <2>3, Names DEF WInv, HoldOK
    <3>2. PICK l \in Own(p) : l.entry = Output[p]
      BY <3>1 DEF HasOutput, HasLease
    <3>3. l \in Live
      BY <3>1, OwnIsLive
    <3>4. l.required = Required[p] /\ Required[p] \in Nat
      BY <3>1, <3>2, Numbers DEF OwingOK, AskOK
    <3>5. Claim(Output[p]) >= Required[p] - Size(Output[p])
      BY <2>1, <3>2, <3>3, <3>4, ClaimCovers DEF WInv
    <3>6. /\ Size(Output[p]) <= proc[p].wrote /\ proc[p].wrote \in Nat
          /\ Size(Output[p]) \in Nat
      BY <2>1, <2>3, <3>1, SizeNat DEF OwingOK, MakeOK, AskOK, WInv
    <3>7. f[p] = Required[p] - proc[p].wrote
      BY <1>1, <2>3
    <3> QED
      BY <2>1, <3>4, <3>5, <3>6, <3>7
  <2> QED
    BY <2>2, <2>3
<1>5. ASSUME NEW x \in Users, NEW y \in Users, x # y, h[x] = h[y]
      PROVE  f[x] = 0 \/ f[y] = 0
  <2>1. ~(proc[x].pc = "make" /\ proc[y].pc = "make")
    BY <1>3, <1>5, Names DEF WInv, HoldOK
  <2> QED
    BY <1>1, <2>1
<1>6. SumFunction(f) <= SumFunction(g)
  BY <1>1, <1>2, <1>3, <1>4, <1>5, SumInto, Numbers
<1>7. SumFunction(g) \in Nat
  BY <1>2, SumNat, Numbers
<1> QED
  BY <1>1, <1>2, <1>6, <1>7

----------------------------------------------------------------------------
(* What a step does to the directories                                     *)

\* What a step may do to the directories: a token stays or goes, a size falls,
\* none comes or goes.
TokensStay == \A e \in Entries :
  art'[e] # None => \/ art'[e].token = None
                    \/ art[e] # None /\ art'[e].token = art[e].token
SizesFall  == \A e \in Entries : Size(e)' <= Size(e)
SameDirs   == Dirs' = Dirs
Quiet      == TokensStay /\ SizesFall /\ SameDirs

LEMMA SameArt ==
  ASSUME Shape, UNCHANGED art
  PROVE  Quiet
<1>1. \A e \in Entries : Size(e)' = Size(e) /\ Size(e) \in Nat
  <2>1. \A e \in Entries : SizeOf[e] = Size(e) /\ SizeOf \in [Entries -> Nat]
    BY SizeNat
  <2> QED
    BY <2>1 DEF Size
<1>2. SizesFall
  BY <1>1 DEF SizesFall
<1> QED
  BY <1>2 DEF Quiet, TokensStay, SameDirs, Dirs

LEMMA TearQuiet ==
  ASSUME Shape, NEW e \in Entries, art[e] # None, Tear(e)
  PROVE  Quiet
<1>1. art \in [Entries -> {None} \cup Artifacts] /\ art[e] \in Artifacts
  BY DEF Shape
<1>2. PICK m \in {FALSE, art[e].managed}, t \in {None, art[e].token},
           n \in {0, art[e].size} :
        art' = [art EXCEPT ![e] =
                  [managed |-> m, token |-> t, whole |-> FALSE, size |-> n]]
  BY DEF Tear
<1>3. /\ \A x \in Entries \ {e} : art'[x] = art[x]
      /\ art'[e].token = t /\ art'[e].size = n
  BY <1>1, <1>2
<1>4. art'[e] # None
  BY <1>1, TearFacts
<1>5. TokensStay
  BY <1>2, <1>3 DEF TokensStay
<1>6. SizesFall
  <2> SUFFICES ASSUME NEW x \in Entries PROVE Size(x)' <= Size(x)
    BY DEF SizesFall
  <2>1. Size(x) \in Nat
    BY SizeNat
  <2>2. CASE x = e
    <3>1. Size(x)' = n /\ Size(x) = art[e].size
      BY <1>3, <1>4, <2>2 DEF Size
    <3> QED
      BY <1>2, <2>1, <3>1
  <2>3. CASE x # e
    BY <1>3, <2>1, <2>3 DEF Size
  <2> QED
    BY <2>2, <2>3
<1>7. SameDirs
  BY <1>3, <1>4 DEF SameDirs, Dirs
<1> QED
  BY <1>5, <1>6, <1>7 DEF Quiet

LEMMA UnlinkedArt ==
  ASSUME Shape, NEW e \in Entries, Unlinked(e)
  PROVE  TokensStay /\ SizesFall /\ Dirs' = Dirs \ {e}
<1>1. art' = [art EXCEPT ![e] = None] /\ art \in [Entries -> {None} \cup Artifacts]
  BY DEF Unlinked, Shape
<1>2. art'[e] = None /\ \A x \in Entries \ {e} : art'[x] = art[x]
  BY <1>1
<1>3. SizesFall
  <2> SUFFICES ASSUME NEW x \in Entries PROVE Size(x)' <= Size(x)
    BY DEF SizesFall
  <2>1. Size(x) \in Nat
    BY SizeNat
  <2> QED
    BY <1>2, <2>1 DEF Size
<1> QED
  BY <1>2, <1>3 DEF TokensStay, Dirs

\* A part of one directory is set that is neither its token nor its size.
LEMMA PartSet ==
  ASSUME Shape, NEW e \in Entries, art[e] # None, NEW v, v \in Artifacts,
         art' = [art EXCEPT ![e] = v], v.token = art[e].token, v.size = art[e].size
  PROVE  Quiet
<1>1. v # None
  BY Names
<1>2. art'[e] = v /\ \A x \in Entries \ {e} : art'[x] = art[x]
  BY DEF Shape
<1>3. SizesFall
  <2> SUFFICES ASSUME NEW x \in Entries PROVE Size(x)' <= Size(x)
    BY DEF SizesFall
  <2>1. Size(x) \in Nat
    BY SizeNat
  <2>2. Size(x)' = Size(x)
    BY <1>1, <1>2 DEF Size
  <2> QED
    BY <2>1, <2>2
<1> QED
  BY <1>1, <1>2, <1>3 DEF Quiet, TokensStay, SameDirs, Dirs

LEMMA PublishArt ==
  ASSUME WInv, NEW p \in Pids, Publish(p)
  PROVE  Quiet
<1>1. proc[p].pc = "publish" /\ art' = [art EXCEPT ![Output[p]].managed = TRUE]
  BY DEF Publish
<1>2. p \in Users /\ Output[p] \in Entries
  BY <1>1, Names DEF WInv, PlaceOK, InLock
<1>3. art[Output[p]] # None
  BY <1>1 DEF WInv, LockedOK
<1> DEFINE v == [art[Output[p]] EXCEPT !.managed = TRUE]
<1>4. art[Output[p]] \in Artifacts
  BY <1>2, <1>3 DEF WInv, Shape
<1>5. v \in Artifacts /\ v.token = art[Output[p]].token /\ v.size = art[Output[p]].size
  BY <1>4 DEF Artifacts
<1>6. art' = [art EXCEPT ![Output[p]] = v]
  BY <1>1
<1> HIDE DEF v
<1> QED
  BY <1>2, <1>3, <1>5, <1>6, PartSet DEF WInv

LEMMA FinishArt ==
  ASSUME WInv, NEW p \in Pids, Finish(p)
  PROVE  Quiet
<1>1. /\ proc[p].pc = "make" /\ art[Output[p]] # None
      /\ art' = [art EXCEPT ![Output[p]].whole = TRUE]
  BY DEF Finish
<1>2. p \in Users /\ Output[p] \in Entries
  BY <1>1, Names DEF WInv, PlaceOK, InLock, Ended
<1> DEFINE v == [art[Output[p]] EXCEPT !.whole = TRUE]
<1>4. art[Output[p]] \in Artifacts
  BY <1>1, <1>2 DEF WInv, Shape
<1>5. v \in Artifacts /\ v.token = art[Output[p]].token /\ v.size = art[Output[p]].size
  BY <1>4 DEF Artifacts
<1>6. art' = [art EXCEPT ![Output[p]] = v]
  BY <1>1
<1> HIDE DEF v
<1> QED
  BY <1>1, <1>2, <1>5, <1>6, PartSet DEF WInv

\* A directory is created, where none is, or marked.
LEMMA GrantArt ==
  ASSUME WInv, NEW p \in Pids, AbsentOK(p), Grant(p), proc[p].op = "activate"
  PROVE  /\ TokensStay /\ SizesFall /\ Dirs' = Dirs \cup {Output[p]}
         /\ Output[p] \in Entries \ Dirs /\ order' = Append(order, Output[p])
<1> DEFINE v == [managed |-> FALSE, token |-> None, whole |-> FALSE, size |-> 0]
<1>1. /\ proc[p].pc = "grant" /\ art' = [art EXCEPT ![Output[p]] = v]
      /\ order' = Append(order, Output[p])
  BY DEF Grant
<1>2. p \in Users /\ Output[p] \in Entries
  BY <1>1, Names DEF WInv, PlaceOK, InLock
<1>3. art[Output[p]] = None
  BY <1>1 DEF AbsentOK
<1>4. v # None
  <2>1. v \in Artifacts
    BY DEF Artifacts
  <2> QED
    BY <2>1, Names
<1>5. art'[Output[p]] = v /\ \A x \in Entries \ {Output[p]} : art'[x] = art[x]
  BY <1>1, <1>2 DEF WInv, Shape
<1>6. v.token = None /\ v.size = 0
  OBVIOUS
<1> HIDE DEF v
<1>7. SizesFall
  <2> SUFFICES ASSUME NEW x \in Entries PROVE Size(x)' <= Size(x)
    BY DEF SizesFall
  <2>1. Size(x) \in Nat
    BY SizeNat DEF WInv
  <2> QED
    BY <1>4, <1>5, <1>6, <2>1 DEF Size
<1> QED
  BY <1>1, <1>2, <1>3, <1>4, <1>5, <1>6, <1>7 DEF TokensStay, Dirs

LEMMA MarkArt ==
  ASSUME WInv, NEW p \in Pids, Mark(p)
  PROVE  /\ SizesFall /\ SameDirs /\ p \in Sims
         /\ \A e \in Entries :
              art'[e] # None => \/ art[e] # None /\ art'[e].token = art[e].token
                                \/ e = Output[p] /\ art'[e].token = Identity[p]
<1>1. /\ proc[p].pc = "mark"
      /\ UNCHANGED art \/ art' = [art EXCEPT ![Output[p]].token = Identity[p]]
  BY DEF Mark
<1>2. p \in Sims /\ Output[p] \in Entries
  BY <1>1, Names DEF WInv, PlaceOK, InLock, Ended
<1>3. CASE UNCHANGED art
  BY <1>2, <1>3, SameArt DEF WInv, Quiet, SameDirs
<1>4. CASE art' = [art EXCEPT ![Output[p]].token = Identity[p]]
  <2>1. art[Output[p]] # None
    BY <1>1, <1>2, Names DEF WInv, HoldOK, HasOutput, HasLease, OwnOK
  <2> DEFINE v == [art[Output[p]] EXCEPT !.token = Identity[p]]
  <2>2. art[Output[p]] \in Artifacts
    BY <1>2, <2>1 DEF WInv, Shape
  <2>3. v \in Artifacts /\ v.token = Identity[p] /\ v.size = art[Output[p]].size
    BY <1>2, <2>2 DEF Artifacts
  <2>4. art' = [art EXCEPT ![Output[p]] = v]
    BY <1>4
  <2> HIDE DEF v
  <2>5. v # None
    BY <2>3, Names
  <2>6. art'[Output[p]] = v /\ \A x \in Entries \ {Output[p]} : art'[x] = art[x]
    BY <1>2, <2>4 DEF WInv, Shape
  <2>7. SizesFall
    <3> SUFFICES ASSUME NEW x \in Entries PROVE Size(x)' <= Size(x)
      BY DEF SizesFall
    <3>1. Size(x) \in Nat
      BY SizeNat DEF WInv
    <3>2. Size(x)' = Size(x)
      BY <2>1, <2>3, <2>5, <2>6 DEF Size
    <3> QED
      BY <3>1, <3>2
  <2> QED
    BY <1>2, <2>1, <2>3, <2>5, <2>6, <2>7 DEF SameDirs, Dirs
<1> QED
  BY <1>1, <1>3, <1>4

WrittenTo(p, e) ==
  /\ e = Output[p] \/ (~(proc[p].wrote < Required[p]) /\ p \in Tools)
  /\ SizeOf'[e] = SizeOf[e] + 1
  /\ \A x \in Entries \ {e} : SizeOf'[x] = SizeOf[x]

\* A file appears: a directory grows by one where there is room.
LEMMA WriteArt ==
  ASSUME WInv, NEW p \in Pids, Write(p)
  PROVE  \/ UNCHANGED art /\ proc' = [proc EXCEPT ![p].pc = "failing"]
         \/ /\ TokensStay /\ SameDirs /\ Free # 0
            /\ proc' = [proc EXCEPT ![p].wrote = @ + 1]
            /\ \E e \in Entries : WrittenTo(p, e)
<1>1. proc[p].pc = "make" /\ proc[p].wrote < Asked(p)
  BY DEF Write
<1>2. p \in Users /\ Output[p] \in Entries
  BY <1>1, Names DEF WInv, PlaceOK, InLock, Ended
<1>3. CASE Free = 0 \/ art[Output[p]] = None
  BY <1>3 DEF Write
<1>4. CASE ~(Free = 0 \/ art[Output[p]] = None)
  <2>0. PICK e : e = IF proc[p].wrote < Required[p] THEN Output[p] ELSE Input[p]
    OBVIOUS
  <2>1. /\ art' = [art EXCEPT ![e].size = @ + 1]
        /\ proc' = [proc EXCEPT ![p].wrote = @ + 1]
    BY <1>4, <2>0 DEF Write
  <2>2. e \in Entries /\ art[e] # None
        /\ (e = Output[p] \/ (~(proc[p].wrote < Required[p]) /\ p \in Tools))
    <3>1. CASE proc[p].wrote < Required[p]
      BY <1>2, <1>4, <2>0, <3>1
    <3>2. CASE ~(proc[p].wrote < Required[p])
      <4>1. Pinned(p)
        <5> SUFFICES ASSUME ~Pinned(p) PROVE FALSE
          OBVIOUS
        <5>1. Asked(p) = Required[p] + 0 /\ Required[p] \in Nat
          BY <1>2, Numbers DEF Asked
        <5>2. Asked(p) = Required[p]
          BY <5>1
        <5> QED
          BY <1>1, <3>2, <5>2
      <4>2. p \in Tools /\ \E l \in Own(p) : l.entry = Input[p]
        BY <4>1 DEF Pinned
      <4>3. art[Input[p]] # None /\ Input[p] \in Entries
        BY <4>2, Names DEF WInv, OwnOK
      <4> QED
        BY <2>0, <3>2, <4>2, <4>3
    <3> QED
      BY <3>1, <3>2
  <2> DEFINE v == [art[e] EXCEPT !.size = @ + 1]
  <2>3. art[e] \in Artifacts
    BY <2>2 DEF WInv, Shape
  <2>4. v.token = art[e].token /\ v.size = art[e].size + 1 /\ v \in Artifacts
    BY <2>3 DEF Artifacts
  <2>5. art' = [art EXCEPT ![e] = v]
    BY <2>1
  <2> HIDE DEF v
  <2>6. art'[e] = v /\ v # None /\ \A x \in Entries \ {e} : art'[x] = art[x]
    BY <2>2, <2>4, <2>5, Names DEF WInv, Shape
  <2>7. Size(e)' = Size(e) + 1 /\ \A x \in Entries \ {e} : Size(x)' = Size(x)
    <3>1. Size(e)' = v.size /\ Size(e) = art[e].size
      BY <2>2, <2>6 DEF Size
    <3>2. \A x \in Entries \ {e} : Size(x)' = Size(x)
      BY <2>6 DEF Size
    <3> QED
      BY <2>4, <3>1, <3>2
  <2>8. TokensStay /\ SameDirs
    BY <2>2, <2>4, <2>6 DEF TokensStay, SameDirs, Dirs
  <2>9. Free # 0 /\ proc' = [proc EXCEPT ![p].wrote = @ + 1]
    BY <1>4, <2>1
  <2>12. /\ SizeOf'[e] = SizeOf[e] + 1
         /\ \A x \in Entries \ {e} : SizeOf'[x] = SizeOf[x]
    BY <2>2, <2>7 DEF SizeOf
  <2>10. WrittenTo(p, e)
    <3>1. e = Output[p] \/ (~(proc[p].wrote < Required[p]) /\ p \in Tools)
      BY <2>2
    <3> QED
      BY <2>12, <3>1, Zenon DEF WrittenTo
  <2>11. \E x \in Entries : WrittenTo(p, x)
    BY <2>2, <2>10, Zenon
  <2> QED
    BY <2>8, <2>9, <2>11
<1> QED
  BY <1>3, <1>4

LEMMA TokensKept ==
  ASSUME TokensOK, TokensStay
  PROVE  TokensOK'
<1> SUFFICES ASSUME NEW e \in Entries, NEW s \in Sims, art'[e] # None,
                    art'[e].token = Identity[s]
             PROVE  Required[s] <= Capacity
  BY DEF TokensOK
<1>1. art[e] # None /\ art'[e].token = art[e].token
  BY Names DEF TokensStay
<1> QED
  BY <1>1 DEF TokensOK

LEMMA TouchedLists ==
  ASSUME Lists(order, Dirs), NEW e \in Entries
  PROVE  Lists(Touched(e), Dirs)
<1>1. CASE art[e] = None
  BY <1>1 DEF Touched
<1>2. CASE art[e] # None
  <2> DEFINE D == Dirs
             s == RemoveFirst(order, e)
  <2>1. e \in D /\ Lists(order, D)
    BY <1>2 DEF Dirs
  <2> HIDE DEF D
  <2>2. Lists(s, D \ {e})
    BY <2>1, RemoveLists
  <2>3. e \notin D \ {e} /\ (D \ {e}) \cup {e} = D
    BY <2>1
  <2> HIDE DEF s
  <2>4. Lists(Append(s, e), (D \ {e}) \cup {e})
    BY <2>2, <2>3, AppendLists
  <2>5. Touched(e) = Append(s, e)
    BY <1>2 DEF Touched, s
  <2> QED
    BY <2>3, <2>4, <2>5 DEF D
<1> QED
  BY <1>1, <1>2

\* What becomes of the directories in a step of p, whatever the step.
FilesOK(p) ==
  /\ TokensOK' /\ Lists(order, Dirs)'
  /\ Write(p) \/ SizesFall
  /\ \/ Dirs' \subseteq Dirs
     \/ Dirs' = Dirs \cup {Output[p]} /\ Grant(p) /\ proc[p].op = "activate"

LEMMA QuietFiles ==
  ASSUME TokensOK, Lists(order, Dirs), Quiet, order' = order, NEW p
  PROVE  FilesOK(p)
<1>1. Dirs' = Dirs /\ SizesFall /\ TokensOK'
  BY TokensKept DEF Quiet, SameDirs
<1>2. Lists(order, Dirs)'
  BY <1>1
<1> QED
  BY <1>1, <1>2 DEF FilesOK

LEMMA TouchedFiles ==
  ASSUME TokensOK, Lists(order, Dirs), Quiet, NEW e \in Entries,
         order' = Touched(e), NEW p
  PROVE  FilesOK(p)
<1>1. Dirs' = Dirs /\ SizesFall /\ TokensOK'
  BY TokensKept DEF Quiet, SameDirs
<1>2. Lists(order, Dirs)'
  BY <1>1, TouchedLists
<1> QED
  BY <1>1, <1>2 DEF FilesOK

LEMMA UnlinkedFiles ==
  ASSUME Shape, TokensOK, Lists(order, Dirs), NEW e \in Entries, Unlinked(e), NEW p
  PROVE  FilesOK(p)
<1>1. Dirs' = Dirs \ {e} /\ SizesFall /\ TokensOK'
  BY TokensKept, UnlinkedArt
<1>2. order' = RemoveFirst(order, e)
  BY DEF Unlinked
<1> DEFINE D == Dirs
<1>3. Lists(RemoveFirst(order, e), D \ {e})
  <2>1. Lists(order, D)
    OBVIOUS
  <2> HIDE DEF D
  <2> QED
    BY <2>1, RemoveLists
<1>4. Lists(order, Dirs)'
  BY <1>1, <1>2, <1>3
<1> QED
  BY <1>1, <1>4 DEF FilesOK

LEMMA FilesStep ==
  ASSUME WInv, BooksInv, NEW p \in Pids, Step(p) \/ Start(p) \/ Crash(p)
  PROVE  FilesOK(p)
<1>0. Shape /\ TokensOK /\ Lists(order, Dirs) /\ AbsentOK(p)
      /\ LockedOK(p) /\ PlaceOK(p)
  BY DEF WInv, BooksInv
<1>1. CASE UNCHANGED <<art, order>>
  BY <1>0, <1>1, SameArt, QuietFiles
<1>2. CASE Reset(p)
  <2>1. Tear(Output[p]) /\ order' = order /\ proc[p].pc = "reset"
    BY <1>2 DEF Reset
  <2>2. Output[p] \in Entries /\ art[Output[p]] # None
    BY <1>0, <2>1, Names DEF LockedOK, PlaceOK, InLock
  <2> QED
    BY <1>0, <2>1, <2>2, TearQuiet, QuietFiles
<1>3. CASE ResetDone(p)
  <2>1. Unlinked(Output[p]) /\ proc[p].pc = "torn"
    BY <1>3 DEF ResetDone
  <2>2. Output[p] \in Entries
    BY <1>0, <2>1, Names DEF PlaceOK, InLock
  <2> QED
    BY <1>0, <2>1, <2>2, UnlinkedFiles
<1>4. CASE Evict(p)
  <2>1. CASE UNCHANGED <<art, order>>
    BY <1>1, <2>1
  <2>2. CASE \E e \in Entries : Oldest(e, proc[p].todo) /\ Tear(e) /\ order' = order
    <3>1. PICK e \in Entries : Oldest(e, proc[p].todo) /\ Tear(e) /\ order' = order
      BY <2>2
    <3>2. art[e] # None
      BY <1>0, <1>4, <3>1 DEF LockedOK, Evict, Oldest
    <3> QED
      BY <1>0, <3>1, <3>2, TearQuiet, QuietFiles
  <2> QED
    BY <1>4, <2>1, <2>2 DEF Evict
<1>5. CASE EvictDone(p)
  <2>1. PICK e \in Entries : Unlinked(e)
    BY <1>5 DEF EvictDone
  <2> QED
    BY <1>0, <2>1, UnlinkedFiles
<1>6. CASE Grant(p)
  <2>1. CASE proc[p].op = "pin"
    <3>1. UNCHANGED <<art, order>>
      BY <1>6, <2>1 DEF Grant
    <3> QED
      BY <1>1, <3>1
  <2>2. CASE proc[p].op = "activate"
    <3>1. /\ TokensStay /\ SizesFall /\ Dirs' = Dirs \cup {Output[p]}
          /\ Output[p] \in Entries \ Dirs /\ order' = Append(order, Output[p])
      BY <1>0, <1>6, <2>2, GrantArt
    <3> DEFINE D == Dirs
               e == Output[p]
    <3>2. Lists(Append(order, e), D \cup {e})
      <4>1. Lists(order, D) /\ e \notin D
        BY <1>0, <3>1
      <4> HIDE DEF D, e
      <4> QED
        BY <4>1, AppendLists
    <3>3. Lists(order, Dirs)' /\ TokensOK'
      BY <1>0, <3>1, <3>2, TokensKept
    <3> QED
      BY <1>6, <2>2, <3>1, <3>3, Zenon DEF FilesOK
  <2> QED
    BY <1>0, <2>1, <2>2 DEF PlaceOK
<1>7. CASE Publish(p)
  <2>1. order' = order
    BY <1>7 DEF Publish
  <2> QED
    BY <1>0, <1>7, <2>1, PublishArt, QuietFiles
<1>8. CASE Finish(p)
  <2>1. order' = order
    BY <1>8 DEF Finish
  <2> QED
    BY <1>0, <1>8, <2>1, FinishArt, QuietFiles
<1>9. CASE Reject(p)
  <2>1. UNCHANGED art /\ order' = Touched(Output[p]) /\ proc[p].pc = "reject"
    BY <1>9 DEF Reject
  <2>2. Output[p] \in Entries
    BY <1>0, <2>1, Names DEF PlaceOK, InLock, Ended
  <2> QED
    BY <1>0, <2>1, <2>2, SameArt, TouchedFiles
<1>10. CASE Release(p)
  <2>1. PICK l \in Own(p) : order' = Touched(l.entry)
    BY <1>10 DEF Release
  <2>2. UNCHANGED art /\ l.entry \in Entries
    BY <1>10, <2>1 DEF WInv, OwnOK, Release
  <2> QED
    BY <1>0, <2>1, <2>2, SameArt, TouchedFiles
<1>11. CASE Mark(p)
  <2>1. /\ SizesFall /\ SameDirs /\ p \in Sims
        /\ \A e \in Entries :
             art'[e] # None => \/ art[e] # None /\ art'[e].token = art[e].token
                               \/ e = Output[p] /\ art'[e].token = Identity[p]
    BY <1>11, MarkArt
  <2>2. Required[p] <= Capacity
    <3>1. proc[p].pc = "mark"
      BY <1>11 DEF Mark
    <3>2. PICK l \in Own(p) : l.entry = Output[p]
      BY <3>1 DEF WInv, HoldOK, HasOutput, HasLease
    <3>3. l.required = Required[p] /\ l \in leases
      BY <2>1, <3>2, Names DEF BooksInv, AskOK, WInv, OwnOK
    <3> QED
      BY <3>3, Numbers DEF BooksInv, MarkersOK, LeaseRecord
  <2>3. TokensOK'
    <3> SUFFICES ASSUME NEW e \in Entries, NEW s \in Sims, art'[e] # None,
                        art'[e].token = Identity[s]
                 PROVE  Required[s] <= Capacity
      BY DEF TokensOK
    <3>1. CASE art[e] # None /\ art'[e].token = art[e].token
      BY <1>0, <3>1 DEF TokensOK
    <3>2. CASE e = Output[p] /\ art'[e].token = Identity[p]
      <4>1. Required[s] = Required[p]
        BY <2>1, <3>2, Numbers
      <4> QED
        BY <2>2, <4>1
    <3> QED
      BY <2>1, <3>1, <3>2
  <2>4. order' = order \/ order' = Touched(Output[p])
    BY <1>11 DEF Mark
  <2>5. Lists(order', Dirs)
    BY <1>0, <2>1, <2>4, Names, TouchedLists
  <2>6. Dirs' = Dirs
    BY <2>1 DEF SameDirs
  <2>7. Lists(order, Dirs)'
    BY <2>5, <2>6
  <2> QED
    BY <2>1, <2>3, <2>6, <2>7 DEF FilesOK
<1>12. CASE Write(p)
  <2>1. CASE UNCHANGED <<art, order>>
    BY <1>1, <2>1
  <2>2. CASE TokensStay /\ SameDirs /\ order' = order
    <3>1. Dirs' = Dirs /\ TokensOK'
      BY <1>0, <2>2, TokensKept DEF SameDirs
    <3>2. Lists(order, Dirs)'
      BY <1>0, <2>2, <3>1
    <3> QED
      BY <1>12, <3>1, <3>2 DEF FilesOK
  <2>3. order' = order
    BY <1>12 DEF Write
  <2> QED
    BY <1>12, <2>1, <2>2, <2>3, WriteArt
<1>13. ASSUME ~UNCHANGED <<art, order>>
       PROVE  \/ Reset(p) \/ ResetDone(p) \/ Evict(p) \/ EvictDone(p) \/ Grant(p)
              \/ Publish(p) \/ Finish(p) \/ Reject(p) \/ Release(p) \/ Mark(p)
              \/ Write(p)
  BY <1>13 DEF Step, Start, Crash, Activate, Pin, Plan, Error, Check, Ready,
     Handoff, Timeout, ChildExit, Disc
<1> QED
  BY <1>1, <1>2, <1>3, <1>4, <1>5, <1>6, <1>7, <1>8, <1>9, <1>10, <1>11, <1>12,
     <1>13

----------------------------------------------------------------------------
(* What a step does to the markers                                         *)

\* There is always a number for one more lease.
LEMMA FreeNumber ==
  ASSUME NEW S, IsFiniteSet(S), NEW p
  PROVE  \E n \in 0 .. Cardinality(S) : \A l \in S : l.pid = p => l.n # n
<1> DEFINE k == Cardinality(S)
           N == 0 .. k
           T == {l \in S : l.n \in N /\ l.pid = p}
           f == [l \in T |-> l.n]
<1> SUFFICES ASSUME \A n \in N : \E l \in S : l.pid = p /\ l.n = n
             PROVE  FALSE
  OBVIOUS
<1>1. f \in Surjection(T, N)
  <2>1. f \in [T -> N]
    OBVIOUS
  <2>2. \A n \in N : \E l \in T : f[l] = n
    OBVIOUS
  <2> QED
    BY <2>1, <2>2 DEF Surjection
<1>2. T \in SUBSET S
  OBVIOUS
<1>3. k \in Nat
  BY FS_CardinalityType
<1> HIDE DEF k, T, f
<1>4. IsFiniteSet(T) /\ Cardinality(T) <= k
  BY <1>2, FS_Subset DEF k
<1>5. Cardinality(N) = k + 1
  BY <1>3, FS_Interval
<1> HIDE DEF N
<1>6. Cardinality(N) <= Cardinality(T)
  BY <1>1, <1>4, FS_Surjection
<1>7. Cardinality(T) \in Nat
  BY <1>4, FS_CardinalityType
<1> QED
  BY <1>3, <1>4, <1>5, <1>6, <1>7

LEMMA NewLeaseIsMarker ==
  ASSUME NEW p \in Pids, PlaceOK(p), NEW S, IsFiniteSet(S), Wants(p) <= Capacity
  PROVE  /\ NewLease(p, S) \in LeaseRecord
         /\ NewLease(p, S).required = Wants(p)
         /\ NewLease(p, S).entry = Target(p)
<1> DEFINE P(n) == n \in 0 .. Cardinality(S)
                   /\ \A l \in S : l.pid = p => l.n # n
           m == CHOOSE n \in 0 .. Cardinality(S) : \A l \in S : l.pid = p => l.n # n
<1>1. m \in 0 .. Cardinality(S)
  BY FreeNumber
<1>2. Cardinality(S) \in Nat
  BY FS_CardinalityType
<1>3. m \in Nat
  BY <1>1, <1>2
<1>4. NewLease(p, S) = [pid |-> p, entry |-> Target(p), required |-> Wants(p),
                        n |-> m]
  BY DEF NewLease
<1> HIDE DEF m
<1>5. Target(p) \in Entries /\ Wants(p) \in 0 .. Capacity
  BY TargetIsEntry, WantsNat, Numbers
<1> QED
  BY <1>3, <1>4, <1>5 DEF LeaseRecord

LEMMA FewerMarkers ==
  ASSUME MarkersOK, leases' \subseteq leases
  PROVE  MarkersOK'
<1>1. IsFiniteSet(leases')
  <2> DEFINE S == leases
             T == leases'
  <2>1. IsFiniteSet(S) /\ T \in SUBSET S
    BY DEF MarkersOK
  <2> HIDE DEF S, T
  <2>2. IsFiniteSet(T)
    BY <2>1, FS_Subset
  <2> QED
    BY <2>2 DEF T
<1> QED
  BY <1>1 DEF MarkersOK, LeaseRecord

LEMMA OneMoreMarker ==
  ASSUME MarkersOK, NEW p \in Pids, PlaceOK(p), NEW S, S \subseteq leases,
         Wants(p) <= Capacity, leases' = S \cup {NewLease(p, S)}
  PROVE  MarkersOK'
<1>1. IsFiniteSet(S)
  <2> DEFINE T == leases
  <2>1. IsFiniteSet(T) /\ S \in SUBSET T
    BY DEF MarkersOK
  <2> HIDE DEF T
  <2> QED
    BY <2>1, FS_Subset
<1>2. NewLease(p, S) \in LeaseRecord
  BY <1>1, NewLeaseIsMarker
<1> DEFINE l == NewLease(p, S)
<1> HIDE DEF l
<1>3. IsFiniteSet(S \cup {l})
  BY <1>1, FS_AddElement
<1>4. leases' = S \cup {l} /\ l \in LeaseRecord
  BY <1>2 DEF l
<1>5. IsFiniteSet(leases')
  BY <1>3, <1>4
<1>6. \A k \in leases' : k \in LeaseRecord
  BY <1>4 DEF MarkersOK
<1> QED
  BY <1>5, <1>6 DEF MarkersOK, LeaseRecord

\* The pid of a dead process means nothing any more.
LEMMA OrphanMarkers ==
  ASSUME MarkersOK, NEW M, M \subseteq leases,
         leases' = (leases \ M) \cup {[l EXCEPT !.pid = None] : l \in M}
  PROVE  MarkersOK'
<1> DEFINE S == leases
           old == {[l EXCEPT !.pid = None] : l \in M}
           f == [l \in M |-> [l EXCEPT !.pid = None]]
<1>1. IsFiniteSet(S) /\ M \in SUBSET S /\ S \ M \in SUBSET S
  BY DEF MarkersOK
<1>2. \A l \in S : l \in LeaseRecord
  BY DEF MarkersOK
<1>3. f \in Surjection(M, old)
  BY DEF Surjection
<1>4. \A l \in M : [l EXCEPT !.pid = None] \in LeaseRecord
  BY <1>1, <1>2 DEF LeaseRecord
<1>5. \A k \in old : k \in LeaseRecord
  BY <1>4
<1>6. leases' = (S \ M) \cup old
  OBVIOUS
<1> HIDE DEF S, old, f
<1>7. IsFiniteSet(M) /\ IsFiniteSet(S \ M)
  BY <1>1, FS_Subset
<1>8. IsFiniteSet(old)
  BY <1>3, <1>7, FS_Surjection
<1>9. IsFiniteSet((S \ M) \cup old)
  BY <1>7, <1>8, FS_Union
<1>10. \A k \in leases' : k \in LeaseRecord
  BY <1>2, <1>5, <1>6
<1> QED
  BY <1>6, <1>9, <1>10 DEF MarkersOK, LeaseRecord

\* An entry found again was made by a run that had what this one asks for.
LEMMA HitFits ==
  ASSUME WInv, TokensOK, NEW p \in Pids, proc[p].pc = "activate", Reuse(p) # None,
         art[Output[p]] # None, art[Output[p]].token = Reuse(p)
  PROVE  p \in Sims /\ Wants(p) = Required[p] /\ Required[p] <= Capacity
<1>1. p \in Sims /\ Reuse(p) = Identity[p]
  BY DEF Reuse
<1>2. proc[p].op = "activate"
  BY DEF WInv, PlaceOK
<1>3. Required[p] <= Capacity
  BY <1>1, Names DEF TokensOK
<1> QED
  BY <1>1, <1>2, <1>3, Names DEF Wants

LEMMA MarkersStep ==
  ASSUME WInv, BooksInv, NEW p \in Pids, Step(p) \/ Start(p) \/ Crash(p)
  PROVE  MarkersOK'
<1>0. MarkersOK /\ TokensOK /\ AskOK(p) /\ PlaceOK(p) /\ Live \subseteq leases
  BY DEF WInv, BooksInv, Live
<1>1. CASE leases' \subseteq leases
  BY <1>0, <1>1, FewerMarkers
<1>2. CASE Activate(p)
  <2>1. CASE leases' = Live
    BY <1>0, <1>1, <2>1
  <2>2. CASE /\ Reuse(p) # None /\ art[Output[p]] # None
             /\ art[Output[p]].token = Reuse(p) /\ art[Output[p]].managed
             /\ leases' = Live \cup {NewLease(p, Live)}
    <3>1. proc[p].pc = "activate"
      BY <1>2 DEF Activate
    <3>2. Wants(p) <= Capacity
      BY <1>0, <2>2, <3>1, HitFits
    <3> QED
      BY <1>0, <2>2, <3>2, OneMoreMarker
  <2> QED
    BY <1>2, <2>1, <2>2 DEF Activate, Sweep
<1>3. CASE Grant(p)
  <2>1. CASE proc[p].op = "pin"
    <3>1. leases' = leases \cup {NewLease(p, leases)} /\ proc[p].pc = "grant"
      BY <1>3, <2>1 DEF Grant
    <3>2. Wants(p) <= Capacity
      BY <1>0, <3>1 DEF AskOK, Given
    <3> QED
      BY <1>0, <3>1, <3>2, OneMoreMarker
  <2>2. CASE proc[p].op # "pin"
    <3>1. leases' = leases
      BY <1>3, <2>2 DEF Grant
    <3> QED
      BY <1>1, <3>1
  <2> QED
    BY <2>1, <2>2
<1>4. CASE Publish(p)
  <2>1. leases' = leases \cup {NewLease(p, leases)} /\ proc[p].pc = "publish"
    BY <1>4 DEF Publish
  <2>2. Wants(p) <= Capacity
    BY <1>0, <2>1 DEF AskOK, Given
  <2> QED
    BY <1>0, <2>1, <2>2, OneMoreMarker
<1>5. CASE Start(p)
  <2>1. CASE leases' = leases
    BY <1>1, <2>1
  <2> DEFINE M == {l \in leases : l.pid = p}
  <2>2. CASE leases' = (leases \ M) \cup {[l EXCEPT !.pid = None] : l \in M}
    <3>1. M \subseteq leases
      OBVIOUS
    <3> HIDE DEF M
    <3> QED
      BY <1>0, <2>2, <3>1, OrphanMarkers
  <2> QED
    BY <1>5, <2>1, <2>2 DEF Start
<1>6. CASE Plan(p) \/ Reject(p) \/ Release(p)
  <2>1. leases' \subseteq leases
    BY <1>0, <1>6 DEF Plan, Sweep, Reject, Release
  <2> QED
    BY <1>1, <2>1
<1>7. ASSUME leases' # leases
      PROVE  \/ Activate(p) \/ Grant(p) \/ Publish(p) \/ Start(p) \/ Plan(p)
             \/ Reject(p) \/ Release(p)
  BY <1>7 DEF Step, Crash, Reset, ResetDone, Pin, Evict, EvictDone, Write, Finish,
     Error, Check, Mark, Ready, Handoff, Timeout, ChildExit, Disc
<1>8. CASE leases' = leases
  BY <1>1, <1>8
<1> QED
  BY <1>2, <1>3, <1>4, <1>5, <1>6, <1>7, <1>8

----------------------------------------------------------------------------
(* What a step does to what its process asked for                          *)

LEMMA AskSame ==
  ASSUME NEW x \in Pids, AskOK(x), proc'[x] = proc[x]
  PROVE  AskOK(x)'
  BY DEF AskOK, Wants, Own

LEMMA AskExited ==
  ASSUME NEW x \in Pids, NEW how \in Ended,
         proc'[x] = Exited(x, how) \/ proc'[x] = Started(x)
  PROVE  AskOK(x)' /\ proc'[x].pc \in Ended \cup {"activate", "pin"}
<1>1. /\ proc'[x].pc \in Ended \cup {"activate", "pin"}
      /\ proc'[x].wrote = 0 /\ proc'[x].own = {}
  BY DEF Exited, Started
<1> QED
  BY <1>1 DEF AskOK, Own, Ended, Given

\* The process goes on with no new lease.
LEMMA AskKept ==
  ASSUME NEW p \in Pids, AskOK(p), Own(p)' \subseteq Own(p),
         proc'[p].wrote = proc[p].wrote,
         proc'[p].pc \in Early => proc[p].pc \in Early,
         proc'[p].pc \in Given => Wants(p)' <= Capacity
  PROVE  AskOK(p)'
  BY DEF AskOK

\* A lease more.
LEMMA AskLeased ==
  ASSUME NEW p \in Pids, AskOK(p), NEW l, Own(p)' \subseteq Own(p) \cup {l},
         p \in Users => l.required = IF l.entry = Output[p] THEN Required[p]
                                     ELSE Derived[p],
         proc'[p].wrote = proc[p].wrote,
         proc'[p].pc \in Early => proc[p].pc \in Early,
         proc'[p].pc \notin Given
  PROVE  AskOK(p)'
  BY DEF AskOK

\* Only p moved, to a place outside an eviction, and its own record says no more.
LEMMA AskMoved ==
  ASSUME WInv, NEW p \in Pids, AskOK(p), NEW at, proc' = Moved(p, at),
         at \in Early => proc[p].pc \in Early, at \notin Given
  PROVE  Others(p) /\ AskOK(p)'
<1>1. CASE at \in Ended
  <2>1. proc'[p] = Exited(p, at) /\ Others(p)
    BY <1>1 DEF Moved, WInv, Shape, Others
  <2> QED
    BY <1>1, <2>1, AskExited
<1>2. CASE at \notin Ended
  <2>1. proc' = [proc EXCEPT ![p].pc = at]
    BY <1>2 DEF Moved
  <2>2. /\ Others(p) /\ Own(p)' = Own(p) /\ proc'[p].wrote = proc[p].wrote
        /\ proc'[p].pc = at
    BY <2>1 DEF WInv, Shape, Others, Own
  <2> QED
    BY <2>2, AskKept
<1> QED
  BY <1>1, <1>2

LEMMA AskStep1 ==
  ASSUME WInv, BooksInv, NEW p \in Pids,
         \/ Reset(p) \/ ResetDone(p) \/ Finish(p) \/ Error(p)
         \/ Check(p) \/ Reject(p) \/ Mark(p) \/ Ready(p) \/ Handoff(p)
         \/ Timeout(p) \/ Release(p) \/ ChildExit(p) \/ Disc(p) \/ Crash(p)
         \/ Write(p)
  PROVE  \A x \in Pids : AskOK(x)'
<1>0. AskOK(p) /\ PlaceOK(p) /\ \A x \in Pids : AskOK(x)
  BY DEF WInv, BooksInv
<1>1. ASSUME Others(p), AskOK(p)'
      PROVE  \A x \in Pids : AskOK(x)'
  <2> TAKE x \in Pids
  <2>1. CASE x = p
    BY <1>1, <2>1
  <2>2. CASE x # p
    BY <1>0, <1>1, <2>2, AskSame DEF Others
  <2> QED
    BY <2>1, <2>2
<1>2. CASE /\ Others(p) /\ Own(p)' \subseteq Own(p)
           /\ proc'[p].wrote = proc[p].wrote
           /\ proc'[p].pc \in Early => proc[p].pc \in Early
           /\ proc'[p].pc \notin Given
  BY <1>0, <1>1, <1>2, AskKept
<1>3. CASE Reset(p)
  <2>1. /\ Others(p) /\ Own(p)' \subseteq Own(p) /\ proc'[p].wrote = proc[p].wrote
        /\ proc'[p].pc = "torn" /\ proc[p].pc = "reset"
    BY <1>3 DEF Reset, WInv, Shape, Others, Own
  <2> QED
    BY <1>2, <2>1 DEF Early, Given, InLock
<1>4. CASE ResetDone(p)
  <2>1. /\ Others(p) /\ Own(p)' \subseteq Own(p) /\ proc'[p].wrote = proc[p].wrote
        /\ proc'[p].pc = "plan" /\ proc[p].pc = "torn"
    BY <1>4 DEF ResetDone, WInv, Shape, Others, Own
  <2> QED
    BY <1>2, <2>1 DEF Early, Given, InLock
<1>5. CASE Finish(p) \/ Error(p) \/ Disc(p) \/ Handoff(p)
  <2>1. PICK at : /\ proc' = [proc EXCEPT ![p].pc = at]
                  /\ at \in {"mark", "release", "failing", "failout"}
    BY <1>5 DEF Finish, Error, Disc, Handoff
  <2>2. /\ Others(p) /\ Own(p)' \subseteq Own(p) /\ proc'[p].wrote = proc[p].wrote
        /\ proc'[p].pc = at
    BY <2>1 DEF WInv, Shape, Others, Own
  <2> QED
    BY <1>2, <2>1, <2>2 DEF Early, Given, InLock
<1>6. CASE Check(p)
  <2>1. /\ Others(p) /\ Own(p)' \subseteq Own(p) /\ proc'[p].wrote = proc[p].wrote
        /\ proc'[p].pc \in {"hit", "reject"} /\ proc[p].pc = "check"
    BY <1>6 DEF Check, WInv, Shape, Others, Own
  <2> QED
    BY <1>2, <2>1 DEF Early, Given, InLock
<1>7. CASE Reject(p)
  <2>1. /\ Others(p) /\ Own(p)' \subseteq Own(p) /\ proc'[p].wrote = proc[p].wrote
        /\ proc'[p].pc = "activate" /\ proc[p].pc = "reject"
    BY <1>7 DEF Reject, WInv, Shape, Others, Own
  <2> QED
    BY <1>2, <2>1 DEF Early, Given, InLock
<1>8. CASE Mark(p)
  <2>1. CASE proc' = [proc EXCEPT ![p].pc = "handoff"]
    <3>1. /\ Others(p) /\ Own(p)' \subseteq Own(p) /\ proc'[p].wrote = proc[p].wrote
          /\ proc'[p].pc = "handoff"
      BY <2>1 DEF WInv, Shape, Others, Own
    <3> QED
      BY <1>2, <3>1 DEF Early, Given, InLock
  <2>2. CASE proc' = Moved(p, "failed")
    BY <1>0, <1>1, <2>2, AskMoved DEF Early, Given, InLock
  <2> QED
    BY <1>8, <2>1, <2>2 DEF Mark
<1>9. CASE Ready(p)
  BY <1>0, <1>9, AskSame DEF Ready
<1>10. CASE Timeout(p) \/ ChildExit(p) \/ Crash(p)
  <2>1. PICK at : proc' = Moved(p, at) /\ at \in {"failed", "disc", "failout"}
    BY <1>10 DEF Timeout, ChildExit, Crash
  <2>2. Others(p) /\ AskOK(p)'
    BY <1>0, <2>1, AskMoved DEF Early, Given, InLock
  <2> QED
    BY <1>1, <2>2
<1>11. CASE Release(p)
  <2>1. PICK l \in Own(p), end \in Ended :
          proc' = IF Own(p) \ {l} = {} THEN Moved(p, end)
                  ELSE [proc EXCEPT ![p].own = Own(p) \ {l}]
    BY <1>11 DEF Release, Ended
  <2>2. CASE proc' = Moved(p, end)
    BY <1>0, <1>1, <2>2, AskMoved DEF Early, Given, InLock, Ended
  <2>3. CASE proc' = [proc EXCEPT ![p].own = Own(p) \ {l}]
    <3>1. /\ Others(p) /\ Own(p)' \subseteq Own(p) /\ proc'[p].wrote = proc[p].wrote
          /\ proc'[p].pc = proc[p].pc /\ proc[p].pc \in {"release", "failout", "failing"}
      BY <1>11, <2>3 DEF WInv, Shape, Others, Own, Release
    <3> QED
      BY <1>2, <3>1 DEF Early, Given, InLock
  <2> QED
    BY <2>1, <2>2, <2>3
<1>12. CASE Write(p)
  <2>1. CASE proc' = [proc EXCEPT ![p].pc = "failing"]
    <3>1. /\ Others(p) /\ Own(p)' \subseteq Own(p) /\ proc'[p].wrote = proc[p].wrote
          /\ proc'[p].pc = "failing"
      BY <2>1 DEF WInv, Shape, Others, Own
    <3> QED
      BY <1>2, <3>1 DEF Early, Given, InLock
  <2>2. CASE proc' = [proc EXCEPT ![p].wrote = @ + 1]
    <3>1. /\ Others(p) /\ Own(p)' = Own(p) /\ proc'[p].wrote = proc[p].wrote + 1
          /\ proc'[p].pc = "make"
      BY <1>12, <2>2 DEF WInv, Shape, Others, Own, Write
    <3>2. AskOK(p)'
      BY <1>0, <3>1 DEF AskOK, Early, Given, InLock
    <3> QED
      BY <1>1, <3>1, <3>2
  <2> QED
    BY <1>12, <2>1, <2>2, WriteArt
<1> QED
  BY <1>3, <1>4, <1>5, <1>6, <1>7, <1>8, <1>9, <1>10, <1>11, <1>12

LEMMA AskOthers ==
  ASSUME BooksInv, NEW p \in Pids, Others(p), AskOK(p)'
  PROVE  \A x \in Pids : AskOK(x)'
<1> TAKE x \in Pids
<1>1. AskOK(x)
  BY DEF BooksInv
<1>2. CASE x = p
  BY <1>2
<1>3. CASE x # p
  BY <1>1, <1>3, AskSame DEF Others
<1> QED
  BY <1>2, <1>3

\* The lease of an output, or of an input that is pinned, says what was asked.
LEMMA LeaseAsks ==
  ASSUME NEW p \in Users, PlaceOK(p)
  PROVE  Wants(p) = IF Target(p) = Output[p] THEN Required[p] ELSE Derived[p]
<1>1. p \notin Parents
  BY Names
<1>2. CASE proc[p].op = "pin"
  <2>1. p \in Tools
    BY <1>2, Names DEF PlaceOK
  <2>2. Target(p) = Input[p] /\ Wants(p) = Derived[p] /\ Input[p] # Output[p]
    BY <1>1, <1>2, <2>1, Names DEF Target, Wants
  <2> QED
    BY <2>2
<1>3. CASE proc[p].op # "pin"
  BY <1>1, <1>3 DEF Target, Wants
<1> QED
  BY <1>2, <1>3

LEMMA MarkersFinite ==
  ASSUME MarkersOK
  PROVE  IsFiniteSet(leases) /\ IsFiniteSet(Live)
<1> DEFINE S == leases
           L == Live
<1>1. IsFiniteSet(S) /\ L \in SUBSET S
  BY DEF MarkersOK, Live
<1> HIDE DEF S, L
<1>2. IsFiniteSet(S) /\ IsFiniteSet(L)
  BY <1>1, FS_Subset
<1> QED
  BY <1>2 DEF S, L

LEMMA NewLeaseAsks ==
  ASSUME NEW p \in Pids, PlaceOK(p), NEW S, IsFiniteSet(S), Wants(p) <= Capacity
  PROVE  p \in Users => LET l == NewLease(p, S)
                        IN  l.required = IF l.entry = Output[p] THEN Required[p]
                                         ELSE Derived[p]
  BY NewLeaseIsMarker, LeaseAsks

LEMMA ActivateAsks ==
  ASSUME WInv, BooksInv, NEW p \in Pids, Activate(p)
  PROVE  \A x \in Pids : AskOK(x)'
<1>0. /\ AskOK(p) /\ PlaceOK(p) /\ MarkersOK /\ TokensOK
      /\ proc[p].pc = "activate" /\ IsFiniteSet(Live)
  BY MarkersFinite DEF WInv, BooksInv, Activate
<1>1. CASE proc' = Moved(p, Refused(p))
  <2>1. Refused(p) \in {"failed", "failout"}
    BY DEF Refused
  <2> QED
    BY <1>0, <1>1, <2>1, AskMoved, AskOthers DEF Early, Given, InLock
<1>2. CASE \E pc \in {"plan", "reset"} : proc' = [proc EXCEPT ![p].pc = pc]
  <2>1. PICK pc \in {"plan", "reset"} : proc' = [proc EXCEPT ![p].pc = pc]
    BY <1>2
  <2>2. /\ Others(p) /\ Own(p)' = Own(p) /\ proc'[p].wrote = proc[p].wrote
        /\ proc'[p].pc = pc
    BY <2>1 DEF WInv, Shape, Others, Own
  <2>3. AskOK(p)'
    BY <1>0, <2>1, <2>2, AskKept DEF Early, Given
  <2> QED
    BY <2>2, <2>3, AskOthers
<1>3. CASE /\ Reuse(p) # None /\ art[Output[p]] # None
           /\ art[Output[p]].token = Reuse(p)
           /\ proc' = [proc EXCEPT ![p].pc = "check",
                                   ![p].own = @ \cup {NewLease(p, Live)}]
  <2>1. Wants(p) <= Capacity /\ p \in Users
    BY <1>0, <1>3, HitFits, Names
  <2> DEFINE l == NewLease(p, Live)
  <2>2. l.required = IF l.entry = Output[p] THEN Required[p] ELSE Derived[p]
    BY <1>0, <2>1, NewLeaseAsks
  <2> HIDE DEF l
  <2>3. proc' = [proc EXCEPT ![p].pc = "check", ![p].own = @ \cup {l}]
    BY <1>3 DEF l
  <2>4. /\ Others(p) /\ Own(p)' = Own(p) \cup {l}
        /\ proc'[p].wrote = proc[p].wrote /\ proc'[p].pc = "check"
    <3>1. Others(p) /\ proc'[p] = [proc[p] EXCEPT !.pc = "check", !.own = @ \cup {l}]
      BY <2>3 DEF WInv, Shape, Others
    <3>2. proc'[p].own = proc[p].own \cup {l}
      BY <3>1 DEF WInv, Shape
    <3>3. proc'[p].wrote = proc[p].wrote /\ proc'[p].pc = "check"
      BY <3>1 DEF WInv, Shape
    <3> QED
      BY <3>1, <3>2, <3>3 DEF Own
  <2>5. AskOK(p)'
    BY <1>0, <2>2, <2>4, AskLeased DEF Early, Given, InLock
  <2> QED
    BY <2>4, <2>5, AskOthers
<1> QED
  BY <1>1, <1>2, <1>3 DEF Activate

LEMMA PinAsks ==
  ASSUME WInv, BooksInv, NEW p \in Pids, Pin(p)
  PROVE  \A x \in Pids : AskOK(x)'
<1>0. AskOK(p) /\ PlaceOK(p) /\ proc[p].pc = "pin"
  BY DEF WInv, BooksInv, Pin
<1>1. CASE proc' = [proc EXCEPT ![p].pc = "plan"]
  <2>1. /\ Others(p) /\ Own(p)' = Own(p) /\ proc'[p].wrote = proc[p].wrote
        /\ proc'[p].pc = "plan"
    BY <1>1 DEF WInv, Shape, Others, Own
  <2>2. AskOK(p)'
    BY <1>0, <2>1, AskKept DEF Early, Given
  <2> QED
    BY <2>1, <2>2, AskOthers
<1>2. CASE proc' = [proc EXCEPT ![p].pc = "activate", ![p].op = "activate"]
  <2>1. /\ Others(p) /\ Own(p)' = Own(p) /\ proc'[p].wrote = proc[p].wrote
        /\ proc'[p].pc = "activate"
    BY <1>2 DEF WInv, Shape, Others, Own
  <2>2. AskOK(p)'
    BY <1>0, <2>1, AskKept DEF Early, Given, InLock
  <2> QED
    BY <2>1, <2>2, AskOthers
<1>3. CASE proc' = [proc EXCEPT ![p] = Exited(p, "failed"),
                           ![Child[p]] = Exited(Child[p], "failed")]
  <2> TAKE x \in Pids
  <2>1. \/ proc'[x] = proc[x] \/ proc'[x] = Exited(x, "failed")
    BY <1>3 DEF WInv, Shape
  <2>2. AskOK(x) /\ "failed" \in Ended
    BY DEF BooksInv, Ended
  <2> QED
    BY <2>1, <2>2, AskSame, AskExited
<1> QED
  BY <1>1, <1>2, <1>3 DEF Pin

LEMMA PlanAsks ==
  ASSUME WInv, BooksInv, NEW p \in Pids, Plan(p)
  PROVE  \A x \in Pids : AskOK(x)'
<1>0. AskOK(p) /\ PlaceOK(p) /\ proc[p].pc = "plan"
  BY DEF WInv, BooksInv, Plan
<1>1. CASE proc' = Moved(p, Refused(p))
  <2>1. Refused(p) \in {"failed", "failout"}
    BY DEF Refused
  <2> QED
    BY <1>0, <1>1, <2>1, AskMoved, AskOthers DEF Early, Given, InLock
<1> DEFINE goal == Wants(p) + ActiveReservation + MinFree
           todo == {e \in Entries \ Active :
                      art[e] # None /\ (proc[p].op = "pin" => e # Target(p))}
<1>2. CASE /\ ~(goal > Capacity)
           /\ \/ proc' = [proc EXCEPT ![p].pc = "grant"]
              \/ proc' = [proc EXCEPT ![p].pc = "evict", ![p].goal = goal,
                                      ![p].todo = todo]
  <2>1. Wants(p) <= Capacity
    <3>1. ActiveReservation \in Nat
      BY ReservationNat DEF WInv, BooksInv
    <3>2. Wants(p) \in Nat
      BY <1>0, WantsNat
    <3> QED
      BY <1>2, <3>1, <3>2, Numbers
  <2> HIDE DEF goal, todo
  <2>2. /\ Others(p) /\ Own(p)' = Own(p) /\ proc'[p].wrote = proc[p].wrote
        /\ proc'[p].pc \in {"grant", "evict"} /\ proc'[p].op = proc[p].op
    BY <1>2 DEF WInv, Shape, Others, Own
  <2>3. Wants(p)' = Wants(p)
    BY <2>2 DEF Wants
  <2>4. AskOK(p)'
    BY <1>0, <2>1, <2>2, <2>3, AskKept DEF Early, Given, InLock
  <2> QED
    BY <2>2, <2>4, AskOthers
<1> QED
  BY <1>1, <1>2 DEF Plan

LEMMA EvictAsks ==
  ASSUME WInv, BooksInv, NEW p \in Pids, Evict(p) \/ EvictDone(p)
  PROVE  \A x \in Pids : AskOK(x)'
<1>0. AskOK(p) /\ PlaceOK(p) /\ proc[p].pc \in {"evict", "unlink"}
  BY DEF WInv, BooksInv, Evict, EvictDone
<1>1. CASE proc' = [Moved(p, Refused(p)) EXCEPT ![p].goal = 0]
  <2>1. CASE Own(p) = {}
    <3>1. proc' = [[proc EXCEPT ![p] = Exited(p, "failed")] EXCEPT ![p].goal = 0]
      BY <1>1, <2>1 DEF Moved, Refused, Ended
    <3>2. Others(p) /\ proc'[p] = [Exited(p, "failed") EXCEPT !.goal = 0]
      BY <3>1 DEF WInv, Shape, Others
    <3>3. /\ proc'[p].pc = "failed" /\ proc'[p].own = {} /\ proc'[p].wrote = 0
      BY <3>2 DEF Exited, Started
    <3>4. AskOK(p)'
      BY <3>3 DEF AskOK, Own, Given
    <3> QED
      BY <3>2, <3>4, AskOthers
  <2>2. CASE Own(p) # {}
    <3>1. proc' = [[proc EXCEPT ![p].pc = "failout"] EXCEPT ![p].goal = 0]
      BY <1>1, <2>2 DEF Moved, Refused, Ended
    <3>2. /\ Others(p)
          /\ proc'[p] = [proc[p] EXCEPT !.pc = "failout", !.goal = 0]
      BY <3>1 DEF WInv, Shape, Others
    <3>3. /\ proc'[p].pc = "failout" /\ Own(p)' = Own(p)
          /\ proc'[p].wrote = proc[p].wrote
      BY <3>2 DEF WInv, Shape, Own
    <3>4. AskOK(p)'
      BY <1>0, <3>3, AskKept DEF Early, Given, InLock
    <3> QED
      BY <3>2, <3>4, AskOthers
  <2> QED
    BY <2>1, <2>2
<1>2. CASE /\ Others(p) /\ Own(p)' = Own(p) /\ proc'[p].wrote = proc[p].wrote
           /\ proc'[p].pc \in {"unlink", "grant", "evict"} /\ proc'[p].op = proc[p].op
  <2>1. Wants(p)' = Wants(p) /\ Wants(p) <= Capacity
    BY <1>0, <1>2 DEF Wants, AskOK, Given
  <2>2. AskOK(p)'
    BY <1>0, <1>2, <2>1, AskKept DEF Early, Given, InLock
  <2> QED
    BY <1>2, <2>2, AskOthers
<1>3. CASE proc' = [proc EXCEPT ![p].pc = "unlink"]
  BY <1>2, <1>3 DEF WInv, Shape, Others, Own
<1>4. CASE proc' = [proc EXCEPT ![p].pc = "grant", ![p].goal = 0, ![p].todo = {}]
  BY <1>2, <1>4 DEF WInv, Shape, Others, Own
<1>5. CASE \E e : proc' = [proc EXCEPT ![p].pc = "evict", ![p].todo = @ \ {e}]
  BY <1>2, <1>5 DEF WInv, Shape, Others, Own
<1> QED
  BY <1>1, <1>3, <1>4, <1>5 DEF Evict, EvictDone

LEMMA GrantAsks ==
  ASSUME WInv, BooksInv, NEW p \in Pids, Grant(p) \/ Publish(p)
  PROVE  \A x \in Pids : AskOK(x)'
<1>0. /\ AskOK(p) /\ PlaceOK(p) /\ proc[p].pc \in {"grant", "publish"}
      /\ IsFiniteSet(leases)
  BY MarkersFinite DEF WInv, BooksInv, Grant, Publish
<1>1. Wants(p) <= Capacity
  <2>1. CASE proc[p].pc = "grant"
    BY <1>0, <2>1 DEF AskOK, Given
  <2>2. CASE proc[p].pc = "publish"
    BY <1>0, <2>2 DEF AskOK, Given
  <2> QED
    BY <1>0, <2>1, <2>2
<1> DEFINE l == NewLease(p, leases)
<1>2. p \in Users => l.required = IF l.entry = Output[p] THEN Required[p]
                                  ELSE Derived[p]
  BY <1>0, <1>1, NewLeaseAsks
<1>3. CASE Publish(p)
  <2>1. proc' = [proc EXCEPT ![p].pc = "make", ![p].own = @ \cup {l}]
    BY <1>3 DEF Publish
  <2> HIDE DEF l
  <2>2. /\ Others(p) /\ Own(p)' = Own(p) \cup {l}
        /\ proc'[p].wrote = proc[p].wrote /\ proc'[p].pc = "make"
    <3>1. Others(p) /\ proc'[p] = [proc[p] EXCEPT !.pc = "make", !.own = @ \cup {l}]
      BY <2>1 DEF WInv, Shape, Others
    <3>2. proc'[p].own = proc[p].own \cup {l}
      BY <3>1 DEF WInv, Shape
    <3>3. proc'[p].wrote = proc[p].wrote /\ proc'[p].pc = "make"
      BY <3>1 DEF WInv, Shape
    <3> QED
      BY <3>1, <3>2, <3>3 DEF Own
  <2>3. AskOK(p)'
    BY <1>0, <1>2, <2>2, AskLeased DEF Early, Given, InLock
  <2> QED
    BY <2>2, <2>3, AskOthers
<1>4. CASE Grant(p) /\ proc[p].op = "pin"
  <2>1. PICK pc \in {"activate", "child"} :
          proc' = [proc EXCEPT ![p].own = @ \cup {l}, ![p].pc = pc,
                               ![p].op = "activate"]
    BY <1>4 DEF Grant
  <2> HIDE DEF l
  <2>2. /\ Others(p) /\ Own(p)' = Own(p) \cup {l}
        /\ proc'[p].wrote = proc[p].wrote /\ proc'[p].pc = pc
    BY <2>1 DEF WInv, Shape, Others, Own
  <2>3. AskOK(p)'
    BY <1>0, <1>2, <2>1, <2>2, AskLeased DEF Early, Given, InLock
  <2> QED
    BY <2>2, <2>3, AskOthers
<1>5. CASE Grant(p) /\ proc[p].op # "pin"
  <2>1. proc' = [proc EXCEPT ![p].pc = "publish"] /\ proc[p].pc = "grant"
    BY <1>5 DEF Grant
  <2>2. /\ Others(p) /\ Own(p)' = Own(p) /\ proc'[p].wrote = proc[p].wrote
        /\ proc'[p].pc = "publish" /\ proc'[p].op = proc[p].op
    BY <2>1 DEF WInv, Shape, Others, Own
  <2>3. Wants(p)' = Wants(p)
    BY <2>2 DEF Wants
  <2>4. AskOK(p)'
    BY <1>0, <1>1, <2>1, <2>2, <2>3, AskKept DEF Early, Given, InLock
  <2> QED
    BY <2>2, <2>4, AskOthers
<1> QED
  BY <1>3, <1>4, <1>5 DEF Grant

LEMMA StartAsks ==
  ASSUME WInv, BooksInv, NEW p \in Pids, Start(p)
  PROVE  \A x \in Pids : AskOK(x)'
<1> TAKE x \in Pids
<1>1. proc'[x] = proc[x] \/ proc'[x] = Started(x)
  BY DEF Start
<1>2. AskOK(x) /\ "failed" \in Ended
  BY DEF BooksInv, Ended
<1> QED
  BY <1>1, <1>2, AskSame, AskExited

LEMMA AskStep ==
  ASSUME WInv, BooksInv, NEW p \in Pids, Step(p) \/ Start(p) \/ Crash(p)
  PROVE  \A x \in Pids : AskOK(x)'
  BY AskStep1, ActivateAsks, PinAsks, PlanAsks, EvictAsks, GrantAsks, StartAsks DEF Step

----------------------------------------------------------------------------
(* Where a step takes a process                                            *)

\* The ways into and through the making of a directory.
Absents == {"plan", "evict", "unlink", "grant"}
Inside  == Absents \cup {"publish", "make"}
Room(p) == Wants(p) + ActiveReservation + MinFree

Enters(p) ==
  /\ proc'[p].pc = "plan"
  /\ \/ ResetDone(p)
     \/ Activate(p) /\ art[Output[p]] = None
     \/ Pin(p) /\ proc'[p].op = "pin"

Plans(p) ==
  /\ Plan(p) /\ proc'[p].op = proc[p].op /\ proc[p].pc = "plan"
  /\ \/ proc'[p].pc = "grant" /\ Free >= Room(p)
     \/ proc'[p].pc = "evict" /\ proc'[p].goal = Room(p)

Evicts(p) ==
  /\ Evict(p) \/ EvictDone(p)
  /\ proc'[p].op = proc[p].op /\ proc[p].pc \in {"evict", "unlink"}
  /\ \/ proc'[p].pc \in {"evict", "unlink"} /\ proc'[p].goal = proc[p].goal
     \/ proc'[p].pc = "grant" /\ Free' >= proc[p].goal

Creates(p) ==
  /\ Grant(p) /\ proc[p].pc = "grant" /\ proc[p].op = "activate"
  /\ proc'[p].pc = "publish" /\ proc'[p].op = "activate"

Makes(p) ==
  \/ /\ Publish(p) /\ proc[p].pc = "publish"
     /\ proc'[p].pc = "make" /\ proc'[p].wrote = proc[p].wrote
  \/ /\ Write(p) /\ proc[p].pc = "make"
     /\ proc'[p].pc = "make" /\ proc'[p].wrote = proc[p].wrote + 1
     /\ proc' = [proc EXCEPT ![p].wrote = @ + 1]

Goes(p) == Enters(p) \/ Plans(p) \/ Evicts(p) \/ Creates(p) \/ Makes(p)

\* A process is where it was, elsewhere than inside, or made one of these steps.
Placed(p, x) == \/ proc'[x] = proc[x]
                \/ proc'[x].pc \notin Inside
                \/ x = p /\ Goes(p)

LEMMA PlacedOne ==
  ASSUME NEW p \in Pids, Others(p), proc'[p].pc \notin Inside \/ Goes(p)
  PROVE  \A x \in Pids : Placed(p, x)
<1> TAKE x \in Pids
<1>1. CASE x = p
  BY <1>1 DEF Placed
<1>2. CASE x # p
  BY <1>2 DEF Placed, Others
<1> QED
  BY <1>1, <1>2

LEMMA PlacedMoved ==
  ASSUME Shape, NEW p \in Pids, NEW at, at \notin Inside, proc' = Moved(p, at)
  PROVE  \A x \in Pids : Placed(p, x)
<1>1. CASE at \in Ended
  <2>1. proc'[p] = Exited(p, at) /\ Others(p)
    BY <1>1 DEF Moved, Shape, Others
  <2>2. proc'[p].pc = at
    BY <2>1 DEF Exited, Started
  <2> QED
    BY <2>1, <2>2, PlacedOne
<1>2. CASE at \notin Ended
  <2>1. proc' = [proc EXCEPT ![p].pc = at]
    BY <1>2 DEF Moved
  <2>2. Others(p) /\ proc'[p].pc = at
    BY <2>1 DEF Shape, Others
  <2> QED
    BY <2>2, PlacedOne
<1> QED
  BY <1>1, <1>2

LEMMA PlacedUsers ==
  ASSUME WInv, NEW p \in Pids,
         \/ Reset(p) \/ Finish(p) \/ Error(p) \/ Check(p) \/ Reject(p)
         \/ Mark(p) \/ Ready(p) \/ Handoff(p) \/ Timeout(p) \/ Release(p)
         \/ ChildExit(p) \/ Disc(p) \/ Crash(p) \/ Start(p)
  PROVE  \A x \in Pids : Placed(p, x)
<1>0. Shape
  BY DEF WInv
<1>1. CASE Reset(p) \/ Finish(p) \/ Error(p) \/ Check(p) \/ Handoff(p) \/ Disc(p)
  <2>1. PICK at : /\ proc' = [proc EXCEPT ![p].pc = at]
                  /\ at \in {"torn", "mark", "release", "failing", "failout", "hit",
                             "reject"}
    BY <1>1 DEF Reset, Finish, Error, Disc, Handoff, Check
  <2>2. Others(p) /\ proc'[p].pc = at
    BY <1>0, <2>1 DEF Shape, Others
  <2> QED
    BY <2>1, <2>2, PlacedOne DEF Inside, Absents
<1>2. CASE Reject(p)
  <2>1. Others(p) /\ proc'[p].pc = "activate"
    BY <1>0, <1>2 DEF Shape, Others, Reject
  <2> QED
    BY <2>1, PlacedOne DEF Inside, Absents
<1>3. CASE Mark(p)
  <2>1. CASE proc' = [proc EXCEPT ![p].pc = "handoff"]
    <3>1. Others(p) /\ proc'[p].pc = "handoff"
      BY <1>0, <2>1 DEF Shape, Others
    <3> QED
      BY <3>1, PlacedOne DEF Inside, Absents
  <2>2. CASE proc' = Moved(p, "failed")
    BY <1>0, <2>2, PlacedMoved DEF Inside, Absents
  <2> QED
    BY <1>3, <2>1, <2>2 DEF Mark
<1>4. CASE Ready(p)
  BY <1>4 DEF Ready, Placed
<1>5. CASE Timeout(p) \/ ChildExit(p) \/ Crash(p)
  <2>1. PICK at : proc' = Moved(p, at) /\ at \in {"failed", "disc", "failout"}
    BY <1>5 DEF Timeout, ChildExit, Crash
  <2> QED
    BY <1>0, <2>1, PlacedMoved DEF Inside, Absents
<1>6. CASE Release(p)
  <2>1. PICK l \in Own(p), end \in Ended :
          proc' = IF Own(p) \ {l} = {} THEN Moved(p, end)
                  ELSE [proc EXCEPT ![p].own = Own(p) \ {l}]
    BY <1>6 DEF Release, Ended
  <2>2. CASE proc' = Moved(p, end)
    BY <1>0, <2>2, PlacedMoved DEF Inside, Absents, Ended
  <2>3. CASE proc' = [proc EXCEPT ![p].own = Own(p) \ {l}]
    <3>1. /\ Others(p) /\ proc'[p].pc = proc[p].pc
          /\ proc[p].pc \in {"release", "failout", "failing"}
      BY <1>0, <1>6, <2>3 DEF Shape, Others, Release
    <3> QED
      BY <3>1, PlacedOne DEF Inside, Absents
  <2> QED
    BY <2>1, <2>2, <2>3
<1>7. CASE Start(p)
  <2> TAKE x \in Pids
  <2>1. proc'[x] = proc[x] \/ proc'[x] = Started(x)
    BY <1>7 DEF Start
  <2>2. CASE proc'[x] = Started(x)
    <3>1. proc'[x].pc \in {"activate", "pin"}
      BY <2>2 DEF Started
    <3> QED
      BY <3>1 DEF Placed, Inside, Absents
  <2> QED
    BY <2>1, <2>2 DEF Placed
<1> QED
  BY <1>1, <1>2, <1>3, <1>4, <1>5, <1>6, <1>7

LEMMA PlacedInLock ==
  ASSUME WInv, NEW p \in Pids,
         \/ Activate(p) \/ ResetDone(p) \/ Pin(p) \/ Plan(p) \/ Evict(p)
         \/ EvictDone(p) \/ Grant(p) \/ Publish(p) \/ Write(p)
  PROVE  \A x \in Pids : Placed(p, x)
<1>0. Shape /\ PlaceOK(p) /\ Refused(p) \in {"failed", "failout"}
  BY DEF WInv, Refused
<1>1. CASE proc' = Moved(p, Refused(p))
  BY <1>0, <1>1, PlacedMoved DEF Inside, Absents
<1>2. CASE Activate(p)
  <2>1. CASE \E l : proc' = [proc EXCEPT ![p].pc = "check", ![p].own = @ \cup {l}]
    <3>1. PICK l : proc' = [proc EXCEPT ![p].pc = "check", ![p].own = @ \cup {l}]
      BY <2>1
    <3>2. Others(p) /\ proc'[p].pc = "check"
      BY <1>0, <3>1 DEF Shape, Others
    <3> QED
      BY <3>2, PlacedOne DEF Inside, Absents
  <2>2. CASE proc' = [proc EXCEPT ![p].pc = IF art[Output[p]] = None THEN "plan"
                                            ELSE "reset"]
    <3>1. /\ Others(p)
          /\ proc'[p].pc = IF art[Output[p]] = None THEN "plan" ELSE "reset"
      BY <1>0, <2>2 DEF Shape, Others
    <3>2. CASE art[Output[p]] = None
      BY <1>2, <3>1, <3>2, PlacedOne DEF Goes, Enters
    <3>3. CASE art[Output[p]] # None
      BY <3>1, <3>3, PlacedOne DEF Inside, Absents
    <3> QED
      BY <3>2, <3>3
  <2> QED
    BY <1>1, <1>2, <2>1, <2>2 DEF Activate
<1>3. CASE ResetDone(p)
  <2>1. Others(p) /\ proc'[p].pc = "plan"
    BY <1>0, <1>3 DEF Shape, Others, ResetDone
  <2> QED
    BY <1>3, <2>1, PlacedOne DEF Goes, Enters
<1>4. CASE Pin(p)
  <2>1. CASE proc' = [proc EXCEPT ![p].pc = "plan"]
    <3>1. Others(p) /\ proc'[p].pc = "plan" /\ proc'[p].op = "pin"
      BY <1>0, <1>4, <2>1 DEF Shape, Others, Pin, PlaceOK
    <3> QED
      BY <1>4, <3>1, PlacedOne DEF Goes, Enters
  <2>2. CASE proc' = [proc EXCEPT ![p].pc = "activate", ![p].op = "activate"]
    <3>1. Others(p) /\ proc'[p].pc = "activate"
      BY <1>0, <2>2 DEF Shape, Others
    <3> QED
      BY <3>1, PlacedOne DEF Inside, Absents
  <2>3. CASE proc' = [proc EXCEPT ![p] = Exited(p, "failed"),
                             ![Child[p]] = Exited(Child[p], "failed")]
    <3> TAKE x \in Pids
    <3>1. proc'[x] = proc[x] \/ proc'[x] = Exited(x, "failed")
      BY <1>0, <2>3 DEF Shape
    <3>2. CASE proc'[x] = Exited(x, "failed")
      <4>1. proc'[x].pc = "failed"
        BY <3>2 DEF Exited, Started
      <4> QED
        BY <4>1 DEF Placed, Inside, Absents
    <3> QED
      BY <3>1, <3>2 DEF Placed
  <2> QED
    BY <1>4, <2>1, <2>2, <2>3 DEF Pin
<1>5. CASE Plan(p)
  <2>1. proc[p].pc = "plan"
    BY <1>5 DEF Plan
  <2>2. CASE Free >= Room(p) /\ proc' = [proc EXCEPT ![p].pc = "grant"]
    <3>1. Others(p) /\ proc'[p].pc = "grant" /\ proc'[p].op = proc[p].op
      BY <1>0, <2>2 DEF Shape, Others
    <3> QED
      BY <1>5, <2>1, <2>2, <3>1, PlacedOne DEF Goes, Plans
  <2>3. CASE \E t : proc' = [proc EXCEPT ![p].pc = "evict", ![p].goal = Room(p),
                                         ![p].todo = t]
    <3>1. PICK t, g : /\ proc' = [proc EXCEPT ![p].pc = "evict", ![p].goal = g,
                                               ![p].todo = t]
                      /\ g = Room(p)
      BY <2>3
    <3>2. /\ Others(p) /\ proc'[p].pc = "evict" /\ proc'[p].op = proc[p].op
          /\ proc'[p].goal = g
      BY <1>0, <3>1 DEF Shape, Others
    <3> QED
      BY <1>5, <2>1, <3>1, <3>2, PlacedOne DEF Goes, Plans
  <2> QED
    BY <1>1, <1>5, <2>2, <2>3 DEF Plan, Room
<1>6. CASE Evict(p)
  <2>1. CASE /\ proc[p].todo = {}
             /\ proc' = [Moved(p, Refused(p)) EXCEPT ![p].goal = 0]
    <3>1. Others(p) /\ Refuses(p)
      BY <1>0, <2>1, RefusedGoalStep
    <3>2. proc'[p].pc \in {"failed", "failout"}
      BY <3>1 DEF Refuses
    <3> QED
      BY <3>1, <3>2, PlacedOne DEF Inside, Absents
  <2>2. CASE proc' = [proc EXCEPT ![p].pc = "unlink"]
    <3>1. /\ Others(p) /\ proc'[p].pc = "unlink" /\ proc'[p].op = proc[p].op
          /\ proc'[p].goal = proc[p].goal
      BY <1>0, <2>2 DEF Shape, Others
    <3>2. proc[p].pc = "evict"
      BY <1>6 DEF Evict
    <3> QED
      BY <1>6, <3>1, <3>2, PlacedOne DEF Goes, Evicts
  <2> QED
    BY <1>6, <2>1, <2>2 DEF Evict
<1>7. CASE EvictDone(p)
  <2>1. proc[p].pc = "unlink"
    BY <1>7 DEF EvictDone
  <2>2. CASE /\ Free' >= proc[p].goal
             /\ proc' = [proc EXCEPT ![p].pc = "grant", ![p].goal = 0, ![p].todo = {}]
    <3>1. Others(p) /\ proc'[p].pc = "grant" /\ proc'[p].op = proc[p].op
      BY <1>0, <2>2 DEF Shape, Others
    <3> QED
      BY <1>7, <2>1, <2>2, <3>1, PlacedOne DEF Goes, Evicts
  <2>3. CASE \E e : proc' = [proc EXCEPT ![p].pc = "evict", ![p].todo = @ \ {e}]
    <3>1. PICK e : proc' = [proc EXCEPT ![p].pc = "evict", ![p].todo = @ \ {e}]
      BY <2>3
    <3>2. /\ Others(p) /\ proc'[p].pc = "evict" /\ proc'[p].op = proc[p].op
          /\ proc'[p].goal = proc[p].goal
      BY <1>0, <3>1 DEF Shape, Others
    <3> QED
      BY <1>7, <2>1, <3>2, PlacedOne DEF Goes, Evicts
  <2> QED
    BY <1>7, <2>2, <2>3 DEF EvictDone
<1>8. CASE Grant(p)
  <2>1. proc[p].pc = "grant"
    BY <1>8 DEF Grant
  <2>2. CASE proc[p].op = "pin"
    <3>1. PICK l, pc : /\ proc' = [proc EXCEPT ![p].own = @ \cup {l}, ![p].pc = pc,
                                               ![p].op = "activate"]
                       /\ pc \in {"activate", "child"}
      BY <1>8, <2>2 DEF Grant
    <3>2. Others(p) /\ proc'[p].pc = pc
      BY <1>0, <3>1 DEF Shape, Others
    <3> QED
      BY <3>1, <3>2, PlacedOne DEF Inside, Absents
  <2>3. CASE proc[p].op = "activate"
    <3>1. proc' = [proc EXCEPT ![p].pc = "publish"]
      BY <1>8, <2>3 DEF Grant
    <3>2. Others(p) /\ proc'[p].pc = "publish" /\ proc'[p].op = "activate"
      BY <1>0, <2>3, <3>1 DEF Shape, Others
    <3> QED
      BY <1>8, <2>1, <2>3, <3>2, PlacedOne DEF Goes, Creates
  <2> QED
    BY <1>0, <2>2, <2>3 DEF PlaceOK
<1>9. CASE Publish(p)
  <2>1. PICK l : proc' = [proc EXCEPT ![p].pc = "make", ![p].own = @ \cup {l}]
    BY <1>9 DEF Publish
  <2>2. Others(p) /\ proc'[p] = [proc[p] EXCEPT !.pc = "make", !.own = @ \cup {l}]
    BY <1>0, <2>1 DEF Shape, Others
  <2>3. proc'[p].pc = "make" /\ proc'[p].wrote = proc[p].wrote
    BY <1>0, <2>2 DEF Shape
  <2>4. proc[p].pc = "publish"
    BY <1>9 DEF Publish
  <2> QED
    BY <1>9, <2>2, <2>3, <2>4, PlacedOne DEF Goes, Makes
<1>10. CASE Write(p)
  <2>1. CASE proc' = [proc EXCEPT ![p].pc = "failing"]
    <3>1. Others(p) /\ proc'[p].pc = "failing"
      BY <1>0, <2>1 DEF Shape, Others
    <3> QED
      BY <3>1, PlacedOne DEF Inside, Absents
  <2>2. CASE proc' = [proc EXCEPT ![p].wrote = @ + 1]
    <3>1. proc[p].pc = "make"
      BY <1>10 DEF Write
    <3>2. Others(p) /\ proc'[p].pc = "make" /\ proc'[p].wrote = proc[p].wrote + 1
      BY <1>0, <2>2, <3>1 DEF Shape, Others
    <3> QED
      BY <1>10, <2>2, <3>1, <3>2, PlacedOne DEF Goes, Makes
  <2> QED
    BY <1>10, <2>1, <2>2, WriteArt
<1> QED
  BY <1>2, <1>3, <1>4, <1>5, <1>6, <1>7, <1>8, <1>9, <1>10

LEMMA PlacedStep ==
  ASSUME WInv, NEW p \in Pids, Step(p) \/ Start(p) \/ Crash(p)
  PROVE  \A x \in Pids : Placed(p, x)
  BY PlacedUsers, PlacedInLock DEF Step

----------------------------------------------------------------------------
(* The books are kept                                                      *)

LEMMA AbsentStep ==
  ASSUME WInv, BooksInv, NEW p \in Pids, FilesOK(p), \A x \in Pids : Placed(p, x)
  PROVE  \A x \in Pids : AbsentOK(x)'
<1> SUFFICES ASSUME NEW x \in Pids, proc'[x].pc \in Absents,
                    proc'[x].op = "activate"
             PROVE  art'[Output[x]] = None
  BY DEF AbsentOK, Absents
<1>0. AbsentOK(x) /\ AbsentOK(p) /\ PlaceOK(x) /\ PlaceOK(p) /\ LockedOK(x) /\ LockedOK(p)
  BY DEF WInv, BooksInv
<1>1. ASSUME NEW y \in Pids, AbsentOK(y), PlaceOK(y), proc[y].pc \in Absents,
             proc[y].op = "activate", Dirs' \subseteq Dirs
      PROVE  art'[Output[y]] = None
  <2>1. art[Output[y]] = None
    BY <1>1 DEF AbsentOK, Absents
  <2>2. Output[y] \in Entries
    BY <1>1, Names DEF PlaceOK, Absents, InLock
  <2> QED
    BY <1>1, <2>1, <2>2 DEF Dirs
<1>2. CASE proc'[x] = proc[x]
  <2>1. proc[x].pc \in Absents /\ proc[x].op = "activate"
    BY <1>2
  <2>2. CASE Dirs' \subseteq Dirs
    BY <1>0, <1>1, <2>1, <2>2
  <2>3. CASE Grant(p) /\ proc[p].op = "activate"
    <3>1. proc[p].pc = "grant" /\ proc' = [proc EXCEPT ![p].pc = "publish"]
      BY <2>3 DEF Grant
    <3>2. lock = p /\ lock = x
      BY <1>0, <2>1, <3>1 DEF LockedOK, Absents, InLock
    <3>3. proc'[x].pc = "publish"
      BY <3>1, <3>2 DEF WInv, Shape
    <3> QED
      BY <3>3 DEF Absents
  <2> QED
    BY <2>2, <2>3 DEF FilesOK
<1>3. CASE x = p /\ Enters(p)
  <2>1. CASE ResetDone(p)
    <3>1. proc[p].pc = "torn" /\ art' = [art EXCEPT ![Output[p]] = None]
      BY <2>1 DEF ResetDone, Unlinked
    <3>2. Output[p] \in Entries
      BY <1>0, <3>1, Names DEF PlaceOK, InLock
    <3> QED
      BY <1>3, <3>1, <3>2 DEF WInv, Shape
  <2>2. CASE Activate(p) /\ art[Output[p]] = None
    BY <1>3, <2>2 DEF Activate
  <2>3. proc'[p].op # "pin"
    BY <1>3
  <2> QED
    BY <1>3, <2>1, <2>2, <2>3 DEF Enters
<1>4. CASE x = p /\ (Plans(p) \/ Evicts(p))
  <2>1. proc[p].pc \in {"plan", "evict", "unlink"} /\ proc[p].op = "activate"
    BY <1>4 DEF Plans, Evicts
  <2>2. ~Grant(p)
    BY <2>1 DEF Grant
  <2>3. Dirs' \subseteq Dirs
    BY <2>2 DEF FilesOK
  <2> QED
    BY <1>0, <1>1, <1>4, <2>1, <2>3 DEF Absents
<1>5. CASE x = p /\ (Creates(p) \/ Makes(p))
  BY <1>5 DEF Creates, Makes, Absents
<1> QED
  BY <1>2, <1>3, <1>4, <1>5 DEF Placed, Goes, Inside

\* What a write takes, there was.
LEMMA FreeStep ==
  ASSUME WInv, WInv', BooksInv, NEW p \in Pids, FilesOK(p)
  PROVE  Free' >= 0
<1>1. Shape /\ Shape' /\ Free >= 0 /\ Free \in Int
  BY FreeInt DEF WInv, BooksInv
<1>2. Free' \in Int
  BY <1>1, SizePrime
<1>3. CASE SizesFall
  BY <1>1, <1>2, <1>3, FreeGrows DEF SizesFall
<1>4. CASE Write(p)
  <2>1. CASE UNCHANGED art
    BY <1>1, <1>2, <1>3, <2>1, SameArt DEF Quiet
  <2>2. CASE Free # 0 /\ \E e \in Entries : WrittenTo(p, e)
    <3>1. PICK e \in Entries : WrittenTo(p, e)
      BY <2>2
    <3>2. Size(e)' = Size(e) + 1 /\ \A x \in Entries \ {e} : Size(x)' = Size(x)
      BY <1>1, <3>1, SizePrime, SizeNat DEF WrittenTo
    <3>3. Free' = Free - 1
      BY <1>1, <3>2, FreeDrops
    <3> QED
      BY <1>1, <2>2, <3>3
  <2> QED
    BY <1>4, <2>1, <2>2, WriteArt
<1> QED
  BY <1>3, <1>4 DEF FilesOK

LEMMA BooksStep ==
  ASSUME WInv, WInv', BooksInv, NEW p \in Pids, Step(p) \/ Start(p) \/ Crash(p)
  PROVE  BooksInv'
<1>1. FilesOK(p) /\ MarkersOK' /\ \A x \in Pids : Placed(p, x) /\ AskOK(x)'
  BY FilesStep, MarkersStep, AskStep, PlacedStep
<1>2. \A x \in Pids : AbsentOK(x)'
  BY <1>1, AbsentStep
<1>3. Free' >= 0
  BY <1>1, FreeStep
<1>4. events' \in 0 .. MaxEvents
  <2>1. events \in 0 .. MaxEvents /\ MaxEvents \in Nat
    BY Numbers DEF BooksInv
  <2>2. events' = events \/ (events < MaxEvents /\ events' = events + 1)
    BY DEF Step, Start, Crash, Activate, Reset, ResetDone, Pin, Plan, Evict,
       EvictDone, Grant, Publish, Write, Finish, Error, Check, Reject, Mark, Ready,
       Handoff, Timeout, Release, ChildExit, Disc
  <2> QED
    BY <2>1, <2>2
<1> QED
  BY <1>1, <1>2, <1>3, <1>4 DEF BooksInv, FilesOK

\* What is there at the start takes a unit each.
LEMMA OldSizes ==
  ASSUME Shape, NEW old \in SUBSET Entries,
         \A e \in Entries : Size(e) = IF e \in old THEN 1 ELSE 0
  PROVE  SumFunction(SizeOf) <= Cardinality(old)
<1> DEFINE f == SizeOf
           g == [x \in old |-> <<x, 1>>]
<1>1. f \in [Entries -> Nat] /\ \A e \in Entries : f[e] = IF e \in old THEN 1 ELSE 0
  BY SizeNat
<1> HIDE DEF f
<1> DEFINE T == Units(f, Entries)
<1>2. SumFunction(f) = Cardinality(T)
  BY <1>1, SumIsUnits, Numbers
<1>3. g \in Surjection(old, T)
  <2>1. T = old \X {1}
    <3>1. \A e \in Entries : \A i \in 1 .. f[e] : e \in old /\ i = 1
      BY <1>1
    <3>2. \A e \in old : f[e] = 1
      BY <1>1
    <3> QED
      BY <3>1, <3>2 DEF Units
  <2> HIDE DEF T
  <2>2. g \in [old -> T] /\ \A t \in T : \E x \in old : g[x] = t
    BY <2>1
  <2> QED
    BY <2>2 DEF Surjection
<1>4. IsFiniteSet(old)
  BY FS_Subset, Numbers
<1> HIDE DEF T, g
<1>5. Cardinality(T) <= Cardinality(old)
  BY <1>3, <1>4, FS_Surjection
<1> QED
  BY <1>2, <1>5 DEF f

LEMMA BooksInit ==
  ASSUME Init
  PROVE  BooksInv
<1>0. WInv
  BY WInvInit
<1>1. PICK old \in SUBSET (Entries \ Range(Output)) :
        /\ Cardinality(old) <= Capacity
        /\ art = [e \in Entries |->
                    IF e \notin old THEN None
                    ELSE [managed |-> TRUE, token |-> None, whole |-> TRUE,
                          size |-> 1]]
        /\ order = SetToSeq(old)
  BY DEF Init
<1>2. \A e \in Entries : art[e] # None <=> e \in old
  <2> DEFINE r == [managed |-> TRUE, token |-> None, whole |-> TRUE, size |-> 1]
  <2>1. r \in Artifacts
    BY DEF Artifacts
  <2>2. \A e \in Entries : art[e] = IF e \notin old THEN None ELSE r
    BY <1>1
  <2> HIDE DEF r
  <2> QED
    BY <2>1, <2>2, Names
<1>3. IsFiniteSet(old) /\ old \in SUBSET Entries
  BY <1>1, FS_Subset, Numbers
<1>4. Dirs = old
  BY <1>2, <1>3 DEF Dirs
<1>5. Lists(order, Dirs)
  BY <1>1, <1>3, <1>4, SetToSeqLists
<1>6. TokensOK
  BY <1>1, <1>2, Names DEF TokensOK
<1>7. MarkersOK
  BY FS_EmptySet DEF Init, MarkersOK
<1>8. ASSUME NEW p \in Pids PROVE AskOK(p) /\ AbsentOK(p)
  <2>1. proc[p].pc = "done" /\ proc[p].wrote = 0 /\ proc[p].own = {}
    BY DEF Init, Exited, Started
  <2> QED
    BY <2>1 DEF AskOK, AbsentOK, Early, Given, InLock, Own
<1>9. Free >= 0
  <2>1. \A e \in Entries : Size(e) = IF e \in old THEN 1 ELSE 0
    BY <1>1, <1>2 DEF Size
  <2>2. SumFunction(SizeOf) <= Cardinality(old)
    BY <1>0, <1>3, <2>1, OldSizes DEF WInv
  <2>3. Cardinality(old) \in Nat
    BY <1>3, FS_CardinalityType
  <2> QED
    BY <1>0, <1>1, <2>2, <2>3, FreeInt, Numbers DEF WInv
<1>10. events \in 0 .. MaxEvents
  BY Numbers DEF Init
<1> QED
  BY <1>5, <1>6, <1>7, <1>8, <1>9, <1>10 DEF BooksInv

LEMMA BooksSame ==
  ASSUME BooksInv, UNCHANGED vars
  PROVE  BooksInv'
<1>1. MarkersOK' /\ TokensOK' /\ Lists(order, Dirs)' /\ events' \in 0 .. MaxEvents
      /\ Free' >= 0
  BY DEF BooksInv, vars, MarkersOK, LeaseRecord, TokensOK, Dirs, Free, Size
<1>2. \A p \in Pids : AskOK(p)' /\ AbsentOK(p)'
  BY DEF BooksInv, vars, AskOK, AbsentOK, Own, Wants
<1> QED
  BY <1>1, <1>2 DEF BooksInv

LEMMA BooksAlways == Spec => []BooksInv
<1>1. Init => BooksInv
  BY BooksInit
<1>2. WInv /\ WInv' /\ BooksInv /\ [Next]_vars => BooksInv'
  <2> SUFFICES ASSUME WInv, WInv', BooksInv, [Next]_vars PROVE BooksInv'
    OBVIOUS
  <2>1. CASE UNCHANGED vars
    BY <2>1, BooksSame
  <2>2. CASE Next
    BY <2>2, BooksStep DEF Next
  <2> QED
    BY <2>1, <2>2
<1> QED
  BY <1>1, <1>2, WInvAlways, PTL DEF Spec

\* The markers, the directories, their order, the lock and the free space are what
\* the code can produce: above all, the filesystem never overflows.
THEOREM TypeCorrect == Spec => []TypeOK
<1>1. WInv /\ BooksInv => TypeOK
  <2> SUFFICES ASSUME WInv, BooksInv PROVE TypeOK
    OBVIOUS
  <2>1. \A e \in Entries : art[e] # None => art[e] \in Artifacts
    BY DEF WInv, Shape
  <2>2. \A l \in leases : l \in LeaseRecord
    BY DEF BooksInv, MarkersOK
  <2>3. ToSet(order) = Dirs /\ Len(order) = Cardinality(Dirs)
    BY ListsLength DEF BooksInv, Lists
  <2>4. \A p \in Pids : (lock = p) = (proc[p].pc \in InLock)
    BY DEF WInv, LockedOK
  <2>5. /\ events \in 0 .. MaxEvents /\ Free >= 0
        /\ ready \in [Sims -> BOOLEAN] /\ ack \in [Sims -> BOOLEAN]
    BY DEF WInv, Shape, BooksInv
  <2> QED
    BY <2>1, <2>2, <2>3, <2>4, <2>5 DEF TypeOK, Dirs
<1> QED
  BY <1>1, WInvAlways, BooksAlways, PTL

----------------------------------------------------------------------------
(* What is owed to the makers stays free                                   *)

\* Without derived data, a process writes its own output only.
LEMMA WritesOwn ==
  ASSUME NoDerivedData, WInv, NEW p \in Pids, Write(p)
  PROVE  /\ p \in Users /\ HasOutput(p) /\ proc[p].pc = "make"
         /\ \/ UNCHANGED art /\ proc' = [proc EXCEPT ![p].pc = "failing"]
            \/ /\ WrittenTo(p, Output[p]) /\ proc[p].wrote < Required[p]
               /\ proc' = [proc EXCEPT ![p].wrote = @ + 1]
<1>1. p \in Users /\ HasOutput(p) /\ proc[p].pc = "make"
  BY Names DEF Write, WInv, PlaceOK, HoldOK, InLock, Ended
<1>2. proc[p].wrote < Required[p]
  <2>1. Asked(p) = Required[p]
    <3>1. Asked(p) = Required[p] + 0 /\ Required[p] \in Nat
      BY <1>1, Numbers DEF Asked, Pinned, NoDerivedData
    <3> QED
      BY <3>1
  <2> QED
    BY <2>1 DEF Write
<1>3. CASE /\ proc' = [proc EXCEPT ![p].wrote = @ + 1]
           /\ \E e \in Entries : WrittenTo(p, e)
  <2>1. PICK e \in Entries : WrittenTo(p, e)
    BY <1>3
  <2>2. e = Output[p]
    BY <1>2, <2>1 DEF WrittenTo
  <2>3. WrittenTo(p, Output[p])
    BY <2>1, <2>2 DEF WrittenTo
  <2> QED
    BY <1>1, <1>2, <1>3, <2>3
<1> QED
  BY <1>1, <1>3, WriteArt

LEMMA MakeStep ==
  ASSUME NoDerivedData, WInv, WInv', BooksInv, SpaceInv, NEW p \in Pids, FilesOK(p),
         \A x \in Pids : Placed(p, x)
  PROVE  \A x \in Pids : MakeOK(x)'
<1> SUFFICES ASSUME NEW x \in Pids, proc'[x].pc \in {"make", "publish"}
             PROVE  MakeOK(x)'
  BY DEF MakeOK
<1>0. /\ Shape /\ Shape' /\ MakeOK(x) /\ MakeOK(p) /\ AskOK(p)
      /\ PlaceOK(x) /\ PlaceOK(x)' /\ PlaceOK(p) /\ LockedOK(x) /\ HoldOK(x)
  BY DEF WInv, SpaceInv, BooksInv
<1>1. x \in Users /\ Output[x] \in Entries
  BY <1>0, Names DEF PlaceOK, InLock, Ended
<1>2. /\ Size(Output[x]) \in Nat /\ Size(Output[x])' \in Nat
      /\ SizeOf[Output[x]] = Size(Output[x])
      /\ SizeOf'[Output[x]] = Size(Output[x])'
  BY <1>0, <1>1, SizeNat, SizePrime
<1>3. CASE proc'[x] = proc[x]
  <2>1. CASE SizesFall
    <3>1. Size(Output[x])' <= Size(Output[x])
      BY <1>1, <2>1 DEF SizesFall
    <3>2. CASE proc[x].pc = "make"
      <4>1. AskOK(x) /\ Required[x] \in Nat
        BY <1>1, Numbers DEF BooksInv
      <4>2. proc[x].wrote <= Required[x] /\ Size(Output[x]) <= proc[x].wrote
            /\ proc[x].wrote \in Nat
        BY <1>0, <3>2, <4>1 DEF MakeOK, AskOK
      <4> QED
        BY <1>2, <1>3, <3>1, <3>2, <4>2 DEF MakeOK
    <3>3. CASE proc[x].pc = "publish"
      <4>1. Size(Output[x]) = 0
        BY <1>0, <3>3 DEF MakeOK
      <4>2. Size(Output[x])' = 0
        BY <1>2, <3>1, <4>1
      <4> QED
        BY <1>3, <3>3, <4>2 DEF MakeOK
    <3> QED
      BY <1>3, <3>2, <3>3
  <2>2. CASE Write(p)
    <3>1. CASE UNCHANGED art
      BY <1>0, <2>1, <3>1, SameArt DEF Quiet
    <3>2. CASE /\ WrittenTo(p, Output[p])
               /\ proc' = [proc EXCEPT ![p].wrote = @ + 1]
      <4>1. p \in Users /\ HasOutput(p) /\ proc[p].pc = "make"
        BY <2>2, WritesOwn
      <4>2. x # p
        <5>1. proc'[p].wrote = proc[p].wrote + 1 /\ proc[p].wrote \in Nat
          BY <1>0, <3>2 DEF Shape, AskOK
        <5> QED
          BY <1>3, <5>1
      <4>3. Output[x] # Output[p]
        <5>1. CASE proc[x].pc = "make"
          BY <1>0, <1>1, <4>1, <4>2, <5>1 DEF HoldOK
        <5>2. CASE proc[x].pc = "publish"
          BY <1>0, <4>1, <5>2 DEF LockedOK, Making, PlaceOK, InLock, HasOutput
        <5> QED
          BY <1>3, <5>1, <5>2
      <4>4. Size(Output[x])' = Size(Output[x])
        BY <1>1, <1>2, <3>2, <4>3 DEF WrittenTo
      <4> QED
        BY <1>0, <1>3, <4>4 DEF MakeOK
    <3> QED
      BY <2>2, <3>1, <3>2, WritesOwn
  <2> QED
    BY <2>1, <2>2 DEF FilesOK
<1>4. CASE x = p /\ Creates(p)
  <2>1. art' = [art EXCEPT ![Output[p]] =
                  [managed |-> FALSE, token |-> None, whole |-> FALSE, size |-> 0]]
    BY <1>4 DEF Creates, Grant
  <2>2. Size(Output[p])' = 0
    BY <1>0, <1>1, <1>4, <2>1 DEF Size, Shape
  <2> QED
    BY <1>4, <2>2 DEF MakeOK, Creates
<1>5. CASE x = p /\ Publish(p) /\ Makes(p)
  <2>1. proc[p].pc = "publish" /\ proc'[p].pc = "make" /\ proc'[p].wrote = 0
    <3>1. proc[p].pc = "publish"
      BY <1>5 DEF Publish
    <3>2. proc[p].wrote = 0
      BY <1>0, <3>1 DEF AskOK, Early, InLock
    <3> QED
      BY <1>5, <3>1, <3>2 DEF Makes
  <2>2. SizesFall
    BY <1>5, PublishArt DEF Quiet
  <2>3. Size(Output[p])' <= 0
    <3>1. Size(Output[p])' <= Size(Output[p]) /\ Size(Output[p]) = 0
      BY <1>0, <1>1, <1>5, <2>1, <2>2 DEF SizesFall, MakeOK
    <3> QED
      BY <3>1
  <2>4. Required[p] \in Nat
    BY <1>1, <1>5, Numbers
  <2> QED
    BY <1>5, <2>1, <2>3, <2>4 DEF MakeOK
<1>6. CASE x = p /\ Write(p) /\ Makes(p)
  <2>1. WrittenTo(p, Output[p]) /\ proc[p].wrote < Required[p] /\ proc[p].pc = "make"
    <3>1. ~(proc' = [proc EXCEPT ![p].pc = "failing"])
      <4>1. proc'[p].pc = "make"
        BY <1>6 DEF Makes
      <4> QED
        BY <1>0, <4>1 DEF Shape
    <3> QED
      BY <1>6, <3>1, WritesOwn
  <2>2. proc'[p].pc = "make" /\ proc'[p].wrote = proc[p].wrote + 1
    BY <1>6, <2>1 DEF Makes
  <2>3. Size(Output[p])' = Size(Output[p]) + 1
    BY <1>2, <1>6, <2>1 DEF WrittenTo
  <2>4. Size(Output[p]) <= proc[p].wrote /\ proc[p].wrote \in Nat
    BY <1>0, <2>1 DEF MakeOK, AskOK
  <2>5. Required[p] \in Nat /\ Size(Output[p]) \in Nat
    BY <1>1, <1>2, <1>6, Numbers
  <2>6. proc'[p].wrote <= Required[p] /\ Size(Output[p])' <= proc'[p].wrote
    BY <2>1, <2>2, <2>3, <2>4, <2>5
  <2> QED
    BY <1>6, <2>2, <2>6 DEF MakeOK
<1>7. CASE x = p /\ (Enters(p) \/ Plans(p) \/ Evicts(p))
  BY <1>7 DEF Enters, Plans, Evicts
<1> QED
  BY <1>3, <1>4, <1>5, <1>6, <1>7 DEF Placed, Goes, Inside, Makes

\* What a step of p does to what is owed and to what is free.
Balanced(p) ==
  \/ Owes' <= Owes /\ Free' >= Free
  \/ Owes' = Owes - 1 /\ Free' = Free - 1
  \/ Publish(p) /\ p \in Users /\ Owes' = Owes + Required[p] /\ Free' >= Free

\* What fits beside what is owed still fits.
Eased == Owes' <= Owes /\ \A r \in Nat : Owes + r <= Free => Owes' + r <= Free'

LEMMA NotPublished ==
  ASSUME NEW p \in Pids, Balanced(p), ~Publish(p),
         Owes' \in Nat, Owes \in Nat, Free \in Int, Free' \in Int
  PROVE  Eased
<1>1. \/ Owes' <= Owes /\ Free' >= Free
      \/ Owes' = Owes - 1 /\ Free' = Free - 1
  BY Zenon DEF Balanced
<1>2. CASE Owes' <= Owes /\ Free' >= Free
  <2>1. PICK a, b, f, g : a = Owes' /\ b = Owes /\ f = Free /\ g = Free'
    OBVIOUS
  <2>2. a \in Nat /\ b \in Nat /\ f \in Int /\ g \in Int
    BY <2>1
  <2>3. a <= b /\ g >= f
    BY <1>2, <2>1
  <2>4. a <= b /\ \A r \in Nat : b + r <= f => a + r <= g
    BY <2>2, <2>3
  <2> QED
    BY <2>1, <2>4 DEF Eased
<1>3. CASE Owes' = Owes - 1 /\ Free' = Free - 1
  BY <1>3 DEF Eased
<1> QED
  BY <1>1, <1>2, <1>3

LEMMA BalanceStep ==
  ASSUME NoDerivedData, WInv, WInv', BooksInv, BooksInv', SpaceInv, NEW p \in Pids,
         FilesOK(p), \A x \in Pids : Placed(p, x), \A x \in Pids : MakeOK(x)'
  PROVE  Balanced(p) /\ Owes' \in Nat /\ Owes \in Nat /\ Free \in Int /\ Free' \in Int
<1>0. Shape /\ Shape' /\ OwingOK /\ OwingOK' /\ PlaceOK(p) /\ AskOK(p)
  BY DEF WInv, BooksInv, SpaceInv, OwingOK
<1>1. Owes' \in Nat /\ Owes \in Nat /\ Free \in Int /\ Free' \in Int
  BY <1>0, OwedNat, OwedPrime, FreeInt, SizePrime
<1>2. SizesFall => Free' >= Free
  BY <1>0, FreeGrows DEF SizesFall
<1>3. CASE ~Makes(p)
  <2>1. \A x \in Users : proc'[x] = proc[x] \/ proc'[x].pc # "make"
    <3> TAKE x \in Users
    <3>1. Placed(p, x)
      BY Names
    <3>2. Goes(p) => proc'[p].pc # "make"
      BY <1>3 DEF Goes, Enters, Plans, Evicts, Creates
    <3> QED
      BY <3>1, <3>2 DEF Placed, Inside
  <2>2. Owes' <= Owes
    BY <1>0, <2>1, OwesFall
  <2>3. SizesFall
    <3>1. CASE Write(p)
      <4>1. CASE UNCHANGED art
        BY <1>0, <4>1, SameArt DEF Quiet
      <4>2. CASE proc' = [proc EXCEPT ![p].wrote = @ + 1]
        <5>1. proc[p].pc = "make"
          BY <3>1 DEF Write
        <5>2. proc'[p].pc = "make" /\ proc'[p].wrote = proc[p].wrote + 1
          BY <1>0, <4>2, <5>1 DEF Shape
        <5> QED
          BY <1>3, <3>1, <4>2, <5>1, <5>2 DEF Makes
      <4> QED
        BY <3>1, <4>1, <4>2, WritesOwn
    <3> QED
      BY <3>1 DEF FilesOK
  <2> QED
    BY <1>1, <1>2, <2>2, <2>3 DEF Balanced
<1>4. CASE Makes(p) /\ Publish(p)
  <2>1. /\ p \in Users /\ proc[p].pc = "publish" /\ proc'[p].pc = "make"
        /\ proc'[p].wrote = 0
    <3>1. proc[p].pc = "publish"
      BY <1>4 DEF Publish
    <3>2. proc[p].wrote = 0 /\ p \in Users
      BY <1>0, <3>1, Names DEF AskOK, PlaceOK, Early, InLock
    <3> QED
      BY <1>4, <3>1, <3>2 DEF Makes
  <2>2. Others(p)
    <3>1. PICK l : proc' = [proc EXCEPT ![p].pc = "make", ![p].own = @ \cup {l}]
      BY <1>4 DEF Publish
    <3> QED
      BY <1>0, <3>1 DEF Shape, Others
  <2>3. Owes' + Owed(p) = Owes + Owed(p)'
    BY <1>0, <2>1, <2>2, OwesPoint
  <2>4. Owed(p) = 0 /\ Owed(p)' = Required[p]
    <3>1. Owed(p) = 0
      BY <2>1 DEF Owed
    <3>2. Owed(p)' = Required[p] - 0
      BY <1>0, <2>1, OwedPrime
    <3> QED
      BY <2>1, <3>1, <3>2, Numbers
  <2>5. SizesFall
    BY <1>4, PublishArt DEF Quiet
  <2>6. Owes' = Owes + Required[p]
    BY <1>1, <2>1, <2>3, <2>4, Numbers
  <2> QED
    BY <1>1, <1>2, <1>4, <2>1, <2>5, <2>6 DEF Balanced
<1>5. CASE Makes(p) /\ Write(p)
  <2>1. proc'[p].pc = "make"
    BY <1>5 DEF Makes
  <2>2. /\ p \in Users /\ proc[p].pc = "make" /\ WrittenTo(p, Output[p])
        /\ proc' = [proc EXCEPT ![p].wrote = @ + 1]
    <3>1. ~(proc' = [proc EXCEPT ![p].pc = "failing"])
      BY <1>0, <2>1 DEF Shape
    <3> QED
      BY <1>5, <3>1, WritesOwn
  <2>3. Others(p) /\ proc'[p].wrote = proc[p].wrote + 1
    BY <1>0, <2>2 DEF Shape, Others
  <2>4. Owes' + Owed(p) = Owes + Owed(p)' /\ Owed(p) \in Nat /\ Owed(p)' \in Nat
    BY <1>0, <2>2, <2>3, OwesPoint
  <2>5. Owed(p)' = Owed(p) - 1
    <3>1. OwedOf[p] = Required[p] - proc[p].wrote /\ OwedOf[p] = Owed(p)
      BY <1>0, <2>2, OwedNat
    <3>2. Owed(p)' = Required[p] - proc'[p].wrote
      BY <1>0, <2>1, <2>2, OwedPrime
    <3>3. Required[p] \in Nat /\ proc[p].wrote \in Nat
      BY <1>0, <2>2, Numbers DEF AskOK
    <3> QED
      BY <2>3, <3>1, <3>2, <3>3
  <2>6. Free' = Free - 1
    <3> DEFINE e == Output[p]
    <3>1. e \in Entries /\ WrittenTo(p, e)
      BY <2>2, Names
    <3> HIDE DEF e
    <3>2. Size(e)' = Size(e) + 1 /\ \A x \in Entries \ {e} : Size(x)' = Size(x)
      BY <1>0, <3>1, SizePrime, SizeNat DEF WrittenTo
    <3> QED
      BY <1>0, <3>1, <3>2, FreeDrops
  <2> QED
    BY <1>1, <2>4, <2>5, <2>6 DEF Balanced
<1> QED
  BY <1>3, <1>4, <1>5 DEF Makes

LEMMA RoomStep ==
  ASSUME NoDerivedData, WInv, WInv', BooksInv, SpaceInv, NEW p \in Pids,
         \A x \in Pids : Placed(p, x),
         Balanced(p), Owes' \in Nat, Owes \in Nat, Free \in Int, Free' \in Int
  PROVE  \A x \in Pids : RoomOK(x)'
<1> SUFFICES ASSUME NEW x \in Pids,
                    \/ proc'[x].pc \in {"evict", "unlink"}
                    \/ proc'[x].pc \in {"grant", "publish"} /\ proc'[x].op = "activate"
             PROVE  RoomOK(x)'
  BY DEF RoomOK
<1>0. /\ Shape /\ RoomOK(x) /\ RoomOK(p) /\ OwingOK /\ PlaceOK(x) /\ PlaceOK(p)
      /\ PlaceOK(x)' /\ LockedOK(x) /\ LockedOK(p) /\ MarkersOK
  BY DEF WInv, SpaceInv, BooksInv, OwingOK
<1>1. Wants(x) \in Nat /\ Wants(p) \in Nat
  BY <1>0, WantsNat
<1>2. proc'[x].op = "activate" => Wants(x)' = Required[x] /\ Required[x] \in Nat
  <2> SUFFICES ASSUME proc'[x].op = "activate"
               PROVE  Wants(x)' = Required[x] /\ Required[x] \in Nat
    OBVIOUS
  <2>1. x \in Users
    BY <1>0, Names DEF PlaceOK, InLock
  <2> QED
    BY <2>1, Names, Numbers DEF Wants
<1>3. CASE proc'[x] = proc[x]
  <2>1. Wants(x)' = Wants(x)
    BY <1>3 DEF Wants
  <2>2. ~Publish(p)
    <3> SUFFICES ASSUME Publish(p) PROVE FALSE
      OBVIOUS
    <3>1. proc[p].pc = "publish"
      BY DEF Publish
    <3>2. lock = p /\ lock = x
      BY <1>0, <1>3, <3>1 DEF LockedOK, InLock
    <3>3. PICK l : proc' = [proc EXCEPT ![p].pc = "make", ![p].own = @ \cup {l}]
      BY DEF Publish
    <3>4. proc'[p] = [proc[p] EXCEPT !.pc = "make", !.own = @ \cup {l}]
      BY <1>0, <3>3 DEF Shape
    <3>5. proc'[p].pc = "make"
      BY <1>0, <3>4 DEF Shape
    <3> QED
      BY <1>3, <3>1, <3>2, <3>5
  <2>3. Eased
    BY <2>2, NotPublished
  <2>4. CASE proc[x].pc \in {"evict", "unlink"}
    BY <1>0, <1>1, <1>3, <2>1, <2>3, <2>4 DEF RoomOK, Eased
  <2>5. CASE proc[x].pc \in {"grant", "publish"} /\ proc[x].op = "activate"
    BY <1>0, <1>2, <1>3, <2>3, <2>5 DEF RoomOK, Eased
  <2> QED
    BY <1>3, <2>4, <2>5
<1>4. CASE x = p /\ Plans(p)
  <2>1. ~Publish(p)
    BY <1>4 DEF Plans, Publish
  <2>2. Eased
    BY <2>1, NotPublished
  <2>3. Owes <= ActiveReservation /\ ActiveReservation \in Nat
    BY <1>0, ReservationCovers
  <2>4. Room(p) >= Wants(p) + Owes /\ Room(p) \in Int
    BY <1>1, <2>3, Numbers DEF Room
  <2>5. Wants(p)' = Wants(p)
    BY <1>4 DEF Wants, Plans
  <2>6. CASE proc'[p].pc = "grant" /\ Free >= Room(p)
    <3>1. Owes + Wants(p) <= Free
      BY <1>1, <2>4, <2>6
    <3>2. Owes' + Wants(p) <= Free'
      BY <1>1, <2>2, <3>1 DEF Eased
    <3>3. proc'[p].op = "activate" => Owes' + Required[p] <= Free'
      BY <1>2, <1>4, <2>5, <3>2
    <3> QED
      BY <1>4, <2>6, <3>3 DEF RoomOK
  <2>7. CASE proc'[p].pc = "evict" /\ proc'[p].goal = Room(p)
    BY <1>1, <1>4, <2>2, <2>4, <2>5, <2>7 DEF RoomOK, Eased
  <2> QED
    BY <1>4, <2>6, <2>7 DEF Plans
<1>5. CASE x = p /\ Evicts(p)
  <2>1. ~Publish(p)
    BY <1>5 DEF Evicts, Publish
  <2>2. Eased
    BY <2>1, NotPublished
  <2>3. Wants(p)' = Wants(p)
    BY <1>5 DEF Wants, Evicts
  <2>4. proc[p].goal \in Int /\ proc[p].goal >= Wants(p) + Owes
    BY <1>0, <1>5 DEF Evicts, RoomOK
  <2>5. CASE proc'[p].pc \in {"evict", "unlink"} /\ proc'[p].goal = proc[p].goal
    BY <1>1, <1>5, <2>2, <2>3, <2>4, <2>5 DEF RoomOK, Eased
  <2>6. CASE proc'[p].pc = "grant" /\ Free' >= proc[p].goal
    <3>1. Owes' + Wants(p) <= Free'
      BY <1>1, <2>2, <2>4, <2>6 DEF Eased
    <3>2. proc'[p].op = "activate" => Owes' + Required[p] <= Free'
      BY <1>2, <1>5, <2>3, <3>1
    <3> QED
      BY <1>5, <2>6, <3>2 DEF RoomOK
  <2> QED
    BY <1>5, <2>5, <2>6 DEF Evicts
<1>6. CASE x = p /\ Creates(p)
  <2>1. ~Publish(p)
    BY <1>6 DEF Creates, Publish
  <2>2. Eased
    BY <2>1, NotPublished
  <2>3. Owes + Required[p] <= Free
    BY <1>0, <1>6 DEF Creates, RoomOK
  <2> QED
    BY <1>2, <1>6, <2>2, <2>3 DEF RoomOK, Creates, Eased
<1>7. CASE x = p /\ (Enters(p) \/ Makes(p))
  BY <1>7 DEF Enters, Makes
<1> QED
  BY <1>3, <1>4, <1>5, <1>6, <1>7 DEF Placed, Goes, Inside, Absents

LEMMA SpaceStep ==
  ASSUME NoDerivedData, WInv, WInv', BooksInv, BooksInv', SpaceInv, NEW p \in Pids,
         Step(p) \/ Start(p) \/ Crash(p)
  PROVE  SpaceInv'
<1>1. FilesOK(p) /\ \A x \in Pids : Placed(p, x)
  BY FilesStep, PlacedStep
<1>2. \A x \in Pids : MakeOK(x)'
  BY <1>1, MakeStep
<1>3. Balanced(p) /\ Owes' \in Nat /\ Owes \in Nat /\ Free \in Int /\ Free' \in Int
  BY <1>1, <1>2, BalanceStep
<1>4. \A x \in Pids : RoomOK(x)'
  BY <1>1, <1>3, RoomStep
<1>5. Owes' <= Free'
  <2>1. Owes <= Free
    BY DEF SpaceInv
  <2>2. CASE Publish(p) /\ p \in Users /\ Owes' = Owes + Required[p] /\ Free' >= Free
    <3>1. proc[p].pc = "publish" /\ proc[p].op = "activate"
      BY <2>2 DEF Publish, WInv, PlaceOK
    <3>2. Owes + Required[p] <= Free
      BY <3>1 DEF SpaceInv, RoomOK
    <3> QED
      BY <1>3, <2>2, <3>2, Numbers
  <2> QED
    BY <1>3, <2>1, <2>2 DEF Balanced
<1> QED
  BY <1>2, <1>4, <1>5 DEF SpaceInv

LEMMA SpaceInit ==
  ASSUME Init
  PROVE  SpaceInv
<1>1. \A p \in Pids : proc[p].pc = "done" /\ proc[p].wrote = 0
  BY DEF Init, Exited, Started
<1>2. \A p \in Pids : MakeOK(p) /\ RoomOK(p)
  BY <1>1 DEF MakeOK, RoomOK
<1>3. Owes = 0
  <2> DEFINE f == OwedOf
  <2>1. f \in [Users -> Nat] /\ \A p \in Users : f[p] = 0
    BY <1>1, Names DEF OwedOf, Owed
  <2>2. Owes = SumFunction(f)
    BY DEF Owes
  <2> HIDE DEF f
  <2>3. Owes = Cardinality(Units(f, Users))
    BY <2>1, <2>2, SumIsUnits, Numbers
  <2>4. Units(f, Users) = {}
    BY <2>1 DEF Units
  <2> QED
    BY <2>3, <2>4, FS_EmptySet
<1>4. Free >= 0
  BY BooksInit DEF BooksInv
<1> QED
  BY <1>2, <1>3, <1>4 DEF SpaceInv

LEMMA SpaceSame ==
  ASSUME SpaceInv, UNCHANGED vars
  PROVE  SpaceInv'
<1>1. Owes' = Owes /\ Free' = Free
  BY DEF vars, Owes, OwedOf, Owed, Asked, Pinned, Own, Free, Size
<1>2. \A p \in Pids : MakeOK(p)'
  BY DEF SpaceInv, vars, MakeOK, Size
<1>3. \A p \in Pids : RoomOK(p)'
  BY <1>1 DEF SpaceInv, vars, RoomOK, Wants
<1> QED
  BY <1>1, <1>2, <1>3 DEF SpaceInv

\* "preserving concurrent reservations": what the live makers have yet to write of
\* what they asked for is free, as long as no tool adds derived files to an entry it
\* pins: with derived files it does not hold (DerivedSpace).
THEOREM PromisesKept == NoDerivedData => (Spec => []PromisedSpace)
<1> SUFFICES ASSUME NoDerivedData PROVE Spec => []PromisedSpace
  OBVIOUS
<1>1. Init => SpaceInv
  BY SpaceInit
<1>2. WInv /\ WInv' /\ BooksInv /\ BooksInv' /\ SpaceInv /\ [Next]_vars => SpaceInv'
  <2> SUFFICES ASSUME WInv, WInv', BooksInv, BooksInv', SpaceInv, [Next]_vars
               PROVE  SpaceInv'
    OBVIOUS
  <2>1. CASE UNCHANGED vars
    BY <2>1, SpaceSame
  <2>2. CASE Next
    BY <2>2, SpaceStep DEF Next
  <2> QED
    BY <2>1, <2>2
<1>3. SpaceInv => PromisedSpace
  BY DEF SpaceInv, PromisedSpace, Owes, OwedOf, Users
<1> QED
  BY <1>1, <1>2, <1>3, WInvAlways, BooksAlways, PTL DEF Spec
=============================================================================
