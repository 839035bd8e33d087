----------------------------- MODULE StockEngine -----------------------------
(***************************************************************************)
(* The Redis side of one activity (service/stock_lua.go): the key          *)
(* activity:{id}:stock and the set activity:{id}:enrolled_set.             *)
(*                                                                         *)
(* The enrol script runs inside Redis as one step.  Rollback and WarmUp    *)
(* are plain pipelines, not MULTI/EXEC: each of their two commands is a    *)
(* step of its own, and other clients' commands may run in between.        *)
(*                                                                         *)
(* A missing stock key is the value 0: the script rejects both alike and   *)
(* INCR creates the key at 1.  The global queue counter only labels        *)
(* messages and is left out.                                               *)
(***************************************************************************)
EXTENDS Integers, FiniteSets

CONSTANT Users          \* the users that may enrol

ASSUME UsersAssumption == IsFiniteSet(Users)

VARIABLES stock,        \* activity:{id}:stock
          enrolled      \* activity:{id}:enrolled_set

redisVars == <<stock, enrolled>>

RedisTypeOK == stock \in Nat /\ enrolled \subseteq Users

\* Faulty variants of TryEnroll and Unmark, against which the properties are
\* tested: no SISMEMBER check, no stock check, no SREM.
TryEnrollUnchecked(u) ==
  stock > 0 /\ stock' = stock - 1 /\ enrolled' = enrolled \cup {u}
TryEnrollOversells(u) ==
  u \notin enrolled /\ stock' = stock - 1 /\ enrolled' = enrolled \cup {u}
UnmarkForgotten(u) == UNCHANGED redisVars

\* The script answers -2, -1, or takes a seat and marks the user.
AlreadyEnrolled(u) == u \in enrolled
StockDepleted(u)   == u \notin enrolled /\ stock <= 0
TryEnroll(u) ==
  /\ u \notin enrolled
  /\ stock > 0
  /\ stock' = stock - 1
  /\ enrolled' = enrolled \cup {u}

\* Rollback, first command: INCR stock.
ReturnSeat ==
  /\ stock' = stock + 1
  /\ UNCHANGED enrolled

\* Rollback, second command: SREM enrolled_set user.
Unmark(u) ==
  /\ enrolled' = enrolled \ {u}
  /\ UNCHANGED stock

\* WarmUp: SET stock n, then DEL enrolled_set.
WarmUpStock(n) ==
  /\ stock' = n
  /\ UNCHANGED enrolled
WarmUpMarks ==
  /\ enrolled' = {}
  /\ UNCHANGED stock
=============================================================================
