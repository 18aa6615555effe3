------------------------------- MODULE MCJobs ------------------------------
(***************************************************************************)
(* Two profiles on two job threads and four processor slots, so two slots  *)
(* each; meanwhile somebody renders the analysis of the second profile     *)
(* with three workers, and somebody else builds the disc of the first.     *)
(***************************************************************************)
EXTENDS Jobs

CONSTANTS x, y

MCStage    == [p \in {x, y} |-> IF p = x THEN "analysis" ELSE "disc"]
MCWidth    == [p \in {x, y} |-> IF p = x THEN 2 ELSE 1]
MCStem     == [p \in 1 .. JobCount \cup {x, y} |->
                 IF p = x THEN 2 ELSE IF p = y THEN 1 ELSE p]
MCCapacity == [r \in {"cpu", "gpu", "emu"} |-> IF r = "cpu" THEN 4 ELSE 1]
=============================================================================
