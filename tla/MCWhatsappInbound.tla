------------------------- MODULE MCWhatsappInbound -------------------------
(***************************************************************************)
(* A payload with one message, one with two of which the first is in both, *)
(* one with a message of its own, and a delivery status.                   *)
(***************************************************************************)
EXTENDS WhatsappInbound, TLC

CONSTANTS one, both, other, status, m1, m2

Calls == one :> <<m1>> @@ both :> <<m1, m2>> @@ other :> <<m2>> @@ status :> <<>>

MCCarried == [p \in Payloads |-> Calls[p]]
MCKind == [p \in Payloads |-> IF p = status THEN "delivery failed" ELSE "message"]
\* One of them comes again when its 200 is lost.
MCDeliveries == [p \in Payloads |-> IF p = one THEN 2 ELSE 1]
=============================================================================
