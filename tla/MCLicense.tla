----------------------------- MODULE MCLicense ------------------------------
(* A small instance of License for TLC.                                    *)
EXTENDS License

CONSTANTS u1, u2, p1, p2, w1, w2, r1

OneHome == [w \in Worker |-> r1]

\* One user is to be created, the other one to be enabled again.
OneThere == u1 :> "none" @@ u2 :> "disabled"

\* One seat of the first product, which may be withdrawn.
SmallTables == {p1 :> 1 @@ p2 :> Unlimited, p2 :> Unlimited}

\* Give a seat, move it from one user to the other, name a product twice.
SomeRequests ==
    {u1 :> <<p1>>, u1 :> <<>> @@ u2 :> <<p1>>, u2 :> <<p2, p2>>}

Workers == Permutations({w1, w2})
====
