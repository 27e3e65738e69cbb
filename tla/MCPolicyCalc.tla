---------------------------- MODULE MCPolicyCalc ----------------------------
(* Instances of PolicyCalc: all sets of entries over three layers.         *)
EXTENDS PolicyCalc

CONSTANTS o1, o2, c1, none, noid, id1

E(k, o, eff, c, p, ob) ==
    [layer |-> k, op |-> o, effect |-> eff, cond |-> c, prio |-> p, obl |-> ob]

Inline == [type |-> "t1", id |-> noid]
Other  == [type |-> "t2", id |-> noid]
Named  == [type |-> "t1", id |-> id1]
Obligations == {Inline, Other, Named}

Allow(k, c, p, ob) == E(k, o1, "allow", c, p, ob)
Deny(k, c)         == E(k, o1, "deny", c, 1, none)

\* One operation allowed and denied on every layer, with obligations of a user
\* (1), a group (3) and of everyone (5), and a second one the resource may
\* allow.
MCEntries ==
    {Allow(1, NoCond, 5, Inline), Allow(1, c1, 1, Named),
     Allow(2, NoCond, 3, Other), Allow(2, c1, 1, Inline),
     Allow(3, NoCond, 1, Inline), Allow(3, c1, 5, Named),
     Deny(1, NoCond), Deny(1, c1), Deny(2, NoCond), Deny(3, NoCond), Deny(3, c1),
     E(1, o2, "allow", NoCond, 1, none)}
=============================================================================
