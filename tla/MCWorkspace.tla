---------------------------- MODULE MCWorkspace ----------------------------
(***************************************************************************)
(* Two encoder runs share an entry: s1 under a parent, s2 on its own.  A   *)
(* tool reads it and writes a second entry.  A third is left over.         *)
(***************************************************************************)
EXTENDS Workspace

CONSTANTS s1, s2, w, q, e1, e2, e3, t1, t2

MCChild    == q :> s1
MCOutput   == (s1 :> e1) @@ (s2 :> e1) @@ (w :> e2)
MCInput    == w :> e1
MCIdentity == (s1 :> t1) @@ (s2 :> t2)
MCRequired == (s1 :> 2) @@ (s2 :> 3) @@ (w :> 2)
NoDerived  == w :> 0
AnyDerived == w :> 2
=============================================================================
