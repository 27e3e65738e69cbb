------------------------ MODULE MCDepartmentDelete --------------------------
(* Instances of DepartmentDelete: two organisations o1 and o2, department  *)
(* a in o1, and c in a.                                                    *)
EXTENDS DepartmentDelete, TLC

CONSTANTS o1, o2, a, c, u1, u2, q1, q2

MCAbove == o1 :> {o1} @@ o2 :> {o2} @@ a :> {o1, a} @@ c :> {o1, a, c}

\* Without c.
MCAboveRaces == o1 :> {o1} @@ o2 :> {o2} @@ a :> {o1, a}

\* Without the organisations: c in a.
MCAboveEvents == a :> {a} @@ c :> {a, c}

\* The second user manages department a.
MCManages == u1 :> {} @@ u2 :> {a}

Symmetry == Permutations({q1, q2})
=============================================================================
