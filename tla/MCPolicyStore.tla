--------------------------- MODULE MCPolicyStore ----------------------------
(* A small instance of PolicyStore for TLC.                                *)
EXTENDS PolicyStore, TLC

CONSTANTS w1, w2, a1, a2, i1, i2, i3, o1, none, log, c1

R(c, b) == [cond |-> c, op |-> o1, obl |-> b]
P(a, e, allow, deny) == [acc |-> a, end |-> e, allow |-> allow, deny |-> deny]

\* A user and a role.  Allow for good, deny for good, allow both, the user for
\* a time and with an obligation.
SomeGrants ==
    {{P(a1, Forever, {R(Always, none)}, {})},
     {P(a1, Forever, {}, {R(Always, none)})},
     {P(a1, 1, {R(Always, log)}, {}), P(a2, Forever, {R(Always, none)}, {})}}

SomeChanges == {P(a1, Forever, {R(Always, log)}, {})}

\* A rule with a condition for the user.
SomePreset == {P(a1, Forever, {R(c1, none)}, {})}

Symmetry == Permutations({w1, w2}) \cup Permutations({i1, i2, i3})
====
