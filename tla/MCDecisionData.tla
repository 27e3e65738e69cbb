--------------------------- MODULE MCDecisionData ---------------------------
(* A small instance of DecisionData for TLC.                               *)
EXTENDS DecisionData

CONSTANTS r1, r2, d1, d2

\* The first department may log in by IPv4, the second by IPv6; then the
\* user gets a network of its own, or the restriction is lifted.
S(enabled, client, own) ==
    [enabled |-> enabled, client |-> client, own |-> own,
     rel |-> {<<d1, "ipv4">>, <<d2, "ipv6">>}]

SomeSettings ==
    {S(TRUE, TRUE, {}), S(TRUE, FALSE, {"ipv4"})}
MovedUser == {{}, {d1}, {d2}}
SettingsAtFirst == S(TRUE, TRUE, {})
====
