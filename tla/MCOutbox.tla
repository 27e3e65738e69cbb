------------------------------ MODULE MCOutbox ------------------------------
(***************************************************************************)
(* Instances of Outbox for TLC.                                            *)
(***************************************************************************)
EXTENDS Outbox, TLC

CONSTANTS m1, m2, m3, q1, q2, r1, r2, t1

\* Two requests, the second with a batch of two messages.
MCReqOf  == m1 :> q1 @@ m2 :> q2 @@ m3 :> q2
MCTypeOf == m1 :> t1 @@ m2 :> t1 @@ m3 :> t1

\* One request with a batch of two messages.
MCReqOf1  == m1 :> q1 @@ m2 :> q1
MCTypeOf1 == m1 :> t1 @@ m2 :> t1

\* The clock of the second replica is ahead.
MCSkew == r1 :> 0 @@ r2 :> 1

\* Clocks that agree.
MCSkew0 == r1 :> 0 @@ r2 :> 0
=============================================================================
