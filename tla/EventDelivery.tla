--------------------------- MODULE EventDelivery ---------------------------
(***************************************************************************)
(* What an outbox promises to the rest of the system: messages are         *)
(* accepted in batches, an accepted message is published at least once,    *)
(* and it is settled, never to be retried, only after it was published.    *)
(* A settled message may still be published again, by a thread that        *)
(* outlived its transaction.                                               *)
(***************************************************************************)
EXTENDS Sequences, Naturals

CONSTANT Msg

VARIABLES accepted,   \* messages the system has taken responsibility for
          settled,    \* messages it will not retry
          log         \* everything published, in order

vars == <<accepted, settled, log>>

Published == {log[i] : i \in 1..Len(log)}

Init == accepted = {} /\ settled = {} /\ log = <<>>

Accept(S) ==
    /\ S # {} /\ S \cap accepted = {}
    /\ accepted' = accepted \cup S
    /\ UNCHANGED <<settled, log>>

Publish(m) ==
    /\ m \in accepted
    /\ log' = Append(log, m)
    /\ UNCHANGED <<accepted, settled>>

Settle(m) ==
    /\ m \in accepted \ settled
    /\ m \in Published
    /\ settled' = settled \cup {m}
    /\ UNCHANGED <<accepted, log>>

Next ==
    \/ \E S \in SUBSET Msg : Accept(S)
    \/ \E m \in Msg : Publish(m) \/ Settle(m)

Spec == Init /\ [][Next]_vars
=============================================================================
