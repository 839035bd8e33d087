------------------------------ MODULE SeatLedger ------------------------------
(***************************************************************************)
(* What the ticket engine promises to the users of one activity, without   *)
(* Redis, Kafka or MySQL: a seat is on sale, reserved for one user, sold   *)
(* to one user (an order that is PENDING or PAID), or on its way back.     *)
(* A user holds at most one seat, and no seat is made or lost.             *)
(***************************************************************************)
EXTENDS Integers, FiniteSets

CONSTANTS Users, Capacity

VARIABLES onSale,      \* seats that can be reserved
          claim        \* what each user holds

ledgerVars == <<onSale, claim>>

Claims == {"none", "reserved", "sold", "returning"}

LedgerInit ==
  /\ onSale = Capacity
  /\ claim = [u \in Users |-> "none"]

Moves(u, from, to) ==
  /\ claim[u] = from
  /\ claim' = [claim EXCEPT ![u] = to]

Reserve(u) ==
  /\ onSale > 0
  /\ onSale' = onSale - 1
  /\ Moves(u, "none", "reserved")

Confirm(u) == Moves(u, "reserved", "sold")      /\ UNCHANGED onSale
Reject(u)  == Moves(u, "reserved", "returning") /\ UNCHANGED onSale
Expire(u)  == Moves(u, "sold", "returning")     /\ UNCHANGED onSale

Return(u) ==
  /\ Moves(u, "returning", "none")
  /\ onSale' = onSale + 1

LedgerNext ==
  \E u \in Users : Reserve(u) \/ Confirm(u) \/ Reject(u) \/ Expire(u) \/ Return(u)

LedgerSpec == LedgerInit /\ [][LedgerNext]_ledgerVars

(* No seat is made or lost, and none is sold twice.                        *)
Balanced ==
  onSale + Cardinality({u \in Users : claim[u] # "none"}) = Capacity

(* A reservation does not stay open for ever, a returning seat arrives.    *)
ReservationSettles == \A u \in Users : claim[u] = "reserved" ~> claim[u] # "reserved"
SeatReturns == \A u \in Users : claim[u] = "returning" ~> claim[u] # "returning"
=============================================================================
