----------------------------- MODULE QuotaLedger -----------------------------
(***************************************************************************)
(* What the quota ledger promises (docs/database-and-quota.md, sections 3  *)
(* to 5), with no worker, lock or upstream service in sight: a unit is     *)
(* held only when one is available and the user holds no other, a held     *)
(* unit is charged or given back once and for good, an adjustment never    *)
(* takes the balance below zero, and a closed user leaves nothing behind.  *)
(* TripQuota implements it.                                                *)
(***************************************************************************)
EXTENDS Integers, FiniteSets

CONSTANTS Users, Units, Nobody, Grant, Deltas

VARIABLES
  open,    \* open[u]: the user exists
  limit,   \* limit[u]: units granted in all
  owner,   \* owner[n]: the user unit n was taken by
  state    \* state[n]: FREE, HELD, CHARGED, RETURNED or ERASED

ledger == <<open, limit, owner, state>>

Taken(u) == {n \in Units : owner[n] = u /\ state[n] \in {"HELD", "CHARGED"}}
Balance(u) == limit[u] - Cardinality(Taken(u))

Init ==
  /\ open = [u \in Users |-> TRUE]
  /\ limit = [u \in Users |-> Grant]
  /\ owner = [n \in Units |-> Nobody]
  /\ state = [n \in Units |-> "FREE"]

Hold(u, n) ==
  /\ open[u] /\ Balance(u) >= 1
  /\ \A m \in Units : owner[m] = u => state[m] # "HELD"
  /\ state[n] = "FREE"
  /\ state' = [state EXCEPT ![n] = "HELD"]
  /\ owner' = [owner EXCEPT ![n] = u]
  /\ UNCHANGED <<open, limit>>

Settle(n, outcome) ==
  /\ state[n] = "HELD"
  /\ state' = [state EXCEPT ![n] = outcome]
  /\ UNCHANGED <<open, limit, owner>>

Adjust(u, d) ==
  /\ open[u] /\ Balance(u) + d >= 0
  /\ limit' = [limit EXCEPT ![u] = @ + d]
  /\ UNCHANGED <<open, owner, state>>

Close(u) ==
  /\ open[u]
  /\ \A n \in Units : owner[n] = u => state[n] # "HELD"
  /\ open' = [open EXCEPT ![u] = FALSE]
  /\ limit' = [limit EXCEPT ![u] = 0]
  /\ owner' = [n \in Units |-> IF owner[n] = u THEN Nobody ELSE owner[n]]
  /\ state' = [n \in Units |-> IF owner[n] = u THEN "ERASED" ELSE state[n]]

Next ==
  \/ \E u \in Users, n \in Units : Hold(u, n)
  \/ \E n \in Units : Settle(n, "CHARGED") \/ Settle(n, "RETURNED")
  \/ \E u \in Users, d \in Deltas : Adjust(u, d)
  \/ \E u \in Users : Close(u)

Spec == Init /\ [][Next]_ledger
=============================================================================
