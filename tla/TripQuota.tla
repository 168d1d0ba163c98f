------------------------------ MODULE TripQuota ------------------------------
(***************************************************************************)
(* Trip submission, the quota ledger behind it, and everything that moves  *)
(* a trip to its end: the create call to hermes-travel, status polling,    *)
(* the SSE stream, the bounded reconciler, quota adjustment by an admin,   *)
(* disabling and closing an account (src/quota/service.py,                 *)
(* src/trips/*.py, src/account/closure.py, src/admin/service.py).          *)
(*                                                                         *)
(* A worker is one asyncio task: an HTTP request, an open SSE response or  *)
(* a reconciler pass.  A database transaction that holds only the row lock *)
(* of a trip is one atomic step, since everything it reads and writes is   *)
(* under that lock.  A transaction that decides on a count of rows while   *)
(* it holds the lock of app_user is two steps, its reads and its writes,   *)
(* because settlements do not take that lock.  Every await on Hermes ends  *)
(* a step.                                                                 *)
(***************************************************************************)
EXTENDS Integers, FiniteSets

CONSTANTS
  Users,          \* app_user rows
  Trips,          \* user_trip ids not used yet or in use
  ReqIds,         \* client_request_id values
  Workers,        \* asyncio tasks
  Nobody,         \* NULL: no owner, no lock holder
  Grant,          \* units granted at registration (beta_quota_limit)
  Deltas,         \* deltas an admin may post
  MaxLimit,       \* bound of the model on a user's limit
  MaxAttempts,    \* reconciliation_max_attempts
  GarbledBodies   \* may a 2xx create answer carry JSON that is not an object?

ASSUME ConstantsAssumption ==
  /\ IsFiniteSet(Trips)
  /\ Nobody \notin Users /\ Nobody \notin Workers
  /\ Nobody \notin Trips /\ Nobody \notin ReqIds
  /\ Grant \in Nat /\ MaxLimit \in Nat /\ Grant <= MaxLimit
  /\ Deltas \subseteq Int
  /\ MaxAttempts \in Nat
  /\ GarbledBodies \in BOOLEAN

VARIABLES
  account,   \* account[u]: app_user.status, "CLOSED" once the row is deleted
  limit,     \* limit[u]: granted + adjusted units
  trip,      \* trip[t]: the user_trip row
  entry,     \* entry[t]: trip_quota_entry.status, "NONE" without a row
  lock,      \* lock[u]: the worker holding the app_user row FOR UPDATE
  job,       \* job[t]: what Hermes knows of upstream_request_id bff-<t>
  calls,     \* calls[t]: create calls begun for t, counted up to 2 (history)
  task       \* task[w]: program counter and locals of worker w

vars == <<account, limit, trip, entry, lock, job, calls, task>>

-----------------------------------------------------------------------------
(* The rows and the workers.                                               *)

Active   == {"SUBMITTING", "PENDING", "RUNNING"}
Terminal == {"SUCCESS", "FAILED", "TIMEOUT", "REJECTED"}

\* A row that does not exist has status ABSENT; bound is hermes_job_id, which
\* is a function of the trip because the create call is idempotent upstream.
NoTrip == [user |-> Nobody, req |-> Nobody, status |-> "ABSENT",
           bound |-> FALSE, attempts |-> 0]

TripRows == [user : Users \cup {Nobody}, req : ReqIds \cup {Nobody},
             status : Active \cup Terminal \cup {"ABSENT"},
             bound : BOOLEAN, attempts : 0..MaxAttempts]

\* NONE: no request arrived.  SENT: a request got no answer and may still
\* arrive.  REFUSED: CITY_NOT_SUPPORTED.
JobStates == {"NONE", "SENT", "REFUSED", "PENDING", "RUNNING"} \cup Terminal
Unaccepted == {"NONE", "SENT", "REFUSED"}

Idle == [role |-> "none", pc |-> "idle", user |-> Nobody, req |-> Nobody,
         trip |-> Nobody, seen |-> "NONE", delta |-> 0, todo |-> {}]

Tasks == [role : {"none", "submit", "admin", "poll", "stream", "batch"},
          pc : {"idle", "insert", "adjust", "create", "accepted", "uncertain",
                "unsent", "refused", "next", "apply"},
          user : Users \cup {Nobody}, req : ReqIds \cup {Nobody},
          trip : Trips \cup {Nobody}, seen : Active \cup Terminal \cup {"NONE"},
          delta : Deltas \cup {0}, todo : SUBSET (Trips \X BOOLEAN)]

TypeOK ==
  /\ account \in [Users -> {"ACTIVE", "DISABLED", "CLOSED"}]
  /\ limit \in [Users -> Int]
  /\ trip \in [Trips -> TripRows]
  /\ entry \in [Trips -> {"NONE", "RESERVED", "CONSUMED", "RELEASED"}]
  /\ lock \in [Users -> Workers \cup {Nobody}]
  /\ job \in [Trips -> JobStates]
  /\ calls \in [Trips -> 0..2]
  /\ task \in [Workers -> Tasks]

Init ==
  /\ account = [u \in Users |-> "ACTIVE"]
  /\ limit = [u \in Users |-> Grant]
  /\ trip = [t \in Trips |-> NoTrip]
  /\ entry = [t \in Trips |-> "NONE"]
  /\ lock = [u \in Users |-> Nobody]
  /\ job = [t \in Trips |-> "NONE"]
  /\ calls = [t \in Trips |-> 0]
  /\ task = [w \in Workers |-> Idle]

-----------------------------------------------------------------------------
(* quota_snapshot: units in use, and what is left, clamped at zero.        *)

Owned(u) == {t \in Trips : trip[t].user = u}
Holding(u) == {t \in Trips : trip[t].user = u /\ entry[t] \in {"RESERVED", "CONSUMED"}}
Used(u) == Cardinality(Holding(u))
\* Fault: only the consumed units are counted.
RemainingUnreserved(u) ==
  LET charged == Cardinality({t \in Owned(u) : entry[t] = "CONSUMED"}) IN
  IF charged > limit[u] THEN 0 ELSE limit[u] - charged
Remaining(u) == IF Used(u) > limit[u] THEN 0 ELSE limit[u] - Used(u)

\* SELECT ... FOR UPDATE of the app_user row, in a transaction of two steps.
\* Fault: the row is read without FOR UPDATE.
LockUserForgotten(w, u) == UNCHANGED lock
LockUser(w, u) == lock' = [lock EXCEPT ![u] = w]
UnlockUser(u) == lock' = [lock EXCEPT ![u] = Nobody]

\* The statements that change one trip under its row lock.
Rank(s) == CASE s = "SUBMITTING" -> 0 [] s = "PENDING" -> 1 [] OTHER -> 2

QuotaStatus(outcome) == IF outcome = "SUCCESS" THEN "CONSUMED" ELSE "RELEASED"

\* settle_trip: a terminal trip is left alone; the entry must be RESERVED, or
\* already be what the outcome asks for, or QuotaInvariantError rolls back.
\* Faults: the UPDATE looks for the status it writes; the trip is settled and
\* its entry is not; every terminal result is taken for a success.
SettleableIfSettled(t, outcome) == entry[t] = QuotaStatus(outcome)
SettleTripOnly(t, outcome) ==
  /\ trip' = [trip EXCEPT ![t].status = IF @ \in Terminal THEN @ ELSE outcome]
  /\ UNCHANGED entry
SettleAsSuccess(t, outcome) ==
  IF trip[t].status \in Terminal THEN UNCHANGED <<trip, entry>>
  ELSE /\ trip' = [trip EXCEPT ![t].status = "SUCCESS"]
       /\ entry' = [entry EXCEPT ![t] = "CONSUMED"]

Settleable(t, outcome) == entry[t] \in {"RESERVED", QuotaStatus(outcome)}

Settle(t, outcome) ==
  IF trip[t].status \notin Terminal /\ Settleable(t, outcome)
  THEN /\ trip' = [trip EXCEPT ![t].status = outcome]
       /\ entry' = [entry EXCEPT ![t] = QuotaStatus(outcome)]
  ELSE UNCHANGED <<trip, entry>>

\* update_active_status: a status never goes back among the active ones.
\* Fault: the rank is not compared.
AdvanceUnranked(t, status) ==
  /\ trip' = IF trip[t].status \in Terminal THEN trip
             ELSE [trip EXCEPT ![t].status = status]
  /\ UNCHANGED entry
Advance(t, status) ==
  /\ trip' = IF /\ trip[t].status \notin Terminal
                /\ Rank(status) >= Rank(trip[t].status)
             THEN [trip EXCEPT ![t].status = status]
             ELSE trip
  /\ UNCHANGED entry

\* save_upstream_acceptance: binds the job; the status the create answer
\* carried replaces the stored one whatever its rank.
\* Fault: a trip that has ended is not left alone.
BindAlways(t, status) ==
  trip' = [trip EXCEPT ![t].bound = TRUE, ![t].status = status]
Bind(t, status) ==
  trip' = IF trip[t].status \in Terminal THEN trip
          ELSE [trip EXCEPT ![t].bound = TRUE, ![t].status = status]

\* attempts only feeds the test "< MaxAttempts", so it is counted up to there.
Attempted(row) ==
  [row EXCEPT !.attempts = IF @ < MaxAttempts THEN @ + 1 ELSE @]

-----------------------------------------------------------------------------
(* Worker control.                                                         *)

At(w, pc) == task[w].pc = pc
Become(w, k) == task' = [task EXCEPT ![w] = k]
Goto(w, pc) == Become(w, [task[w] EXCEPT !.pc = pc])
Finish(w) == Become(w, Idle)

\* What follows a handled step: the stream and the batch take their next
\* item, a plain request ends.
Continue(w) ==
  IF task[w].role = "stream" \/ (task[w].role = "batch" /\ task[w].todo # {})
  THEN Become(w, [task[w] EXCEPT !.pc = "next", !.seen = "NONE",
                     !.trip = IF task[w].role = "stream" THEN @ ELSE Nobody])
  ELSE Finish(w)

Counted(t) == calls' = [calls EXCEPT ![t] = IF @ < 2 THEN @ + 1 ELSE @]

-----------------------------------------------------------------------------
(* POST /trip/async: reserve_trip, then create_trip, then its outcome.     *)

BeginCreate(w, role, t, todo) ==
  /\ Become(w, [Idle EXCEPT !.role = role, !.pc = "create", !.trip = t, !.todo = todo])
  /\ Counted(t)

\* The reads of reserve_trip under the lock of the user: a retry of an
\* unbound submission goes straight to the create call, any other existing
\* request, an active trip or an empty balance ends the request, and
\* otherwise the reservation is decided.
ReserveRetry(w, u, r) ==
  /\ At(w, "idle") /\ lock[u] = Nobody /\ account[u] = "ACTIVE"
  /\ \E t \in Owned(u) :
       /\ trip[t].req = r
       /\ trip[t].status = "SUBMITTING" /\ ~trip[t].bound
       /\ BeginCreate(w, "submit", t, {})
  /\ UNCHANGED <<account, limit, trip, entry, lock, job>>

ReserveDecide(w, u, r) ==
  /\ At(w, "idle") /\ lock[u] = Nobody /\ account[u] = "ACTIVE"
  /\ \A t \in Owned(u) : trip[t].req # r
  /\ \A t \in Owned(u) : trip[t].status \notin Active
  /\ Remaining(u) >= 1
  /\ LockUser(w, u)
  /\ Become(w, [Idle EXCEPT !.role = "submit", !.pc = "insert", !.user = u, !.req = r])
  /\ UNCHANGED <<account, limit, trip, entry, job, calls>>

\* The writes of reserve_trip and its commit.
ReserveInsert(w, t) ==
  /\ At(w, "insert")
  /\ trip[t].status = "ABSENT"
  /\ trip' = [trip EXCEPT ![t] = [NoTrip EXCEPT !.user = task[w].user,
                                    !.req = task[w].req, !.status = "SUBMITTING"]]
  /\ entry' = [entry EXCEPT ![t] = "RESERVED"]
  /\ UnlockUser(task[w].user)
  /\ BeginCreate(w, "submit", t, {})
  /\ UNCHANGED <<account, limit, job>>

\* The outcomes of HermesClient.create_trip.  In a reconciler pass an
\* integration error only skips the trip, and CITY_NOT_SUPPORTED is not caught.
AfterCreate(w, pc) == IF task[w].role = "batch" THEN Continue(w) ELSE Goto(w, pc)

Accept(t) == job' = [job EXCEPT ![t] = IF @ \in {"NONE", "SENT"} THEN "PENDING" ELSE @]

CreateAccepted(w) ==
  LET t == task[w].trip IN
  /\ At(w, "create") /\ job[t] # "REFUSED"
  /\ Accept(t)
  /\ Become(w, [task[w] EXCEPT !.pc = "accepted",
                   !.seen = IF job[t] = "RUNNING" THEN "RUNNING" ELSE "PENDING"])
  /\ UNCHANGED <<account, limit, trip, entry, lock, calls>>

CreateRefused(w) ==
  LET t == task[w].trip IN
  /\ At(w, "create") /\ job[t] \in Unaccepted
  /\ job' = [job EXCEPT ![t] = "REFUSED"]
  /\ IF task[w].role = "batch" THEN Finish(w) ELSE Goto(w, "refused")
  /\ UNCHANGED <<account, limit, trip, entry, lock, calls>>

\* ConnectError, ConnectTimeout, PoolTimeout: nothing left this process.
CreateUnsent(w) ==
  /\ At(w, "create")
  /\ AfterCreate(w, "unsent")
  /\ UNCHANGED <<account, limit, trip, entry, lock, job, calls>>

\* A timeout or network error after the connection was made, an HTTP error
\* or an invalid answer: Hermes has the request, will get it, or never will.
\* Fault: acceptance_possible is left at its default for the create call.
CreateUncertainUnflagged(w) ==
  LET t == task[w].trip IN
  /\ At(w, "create")
  /\ job' = [job EXCEPT ![t] = IF @ = "NONE" THEN "SENT" ELSE @]
  /\ AfterCreate(w, "unsent")
  /\ UNCHANGED <<account, limit, trip, entry, lock, calls>>

CreateUncertain(w) ==
  LET t == task[w].trip IN
  /\ At(w, "create")
  /\ job' = [job EXCEPT ![t] = IF @ = "NONE" THEN "SENT" ELSE @]
  /\ AfterCreate(w, "uncertain")
  /\ UNCHANGED <<account, limit, trip, entry, lock, calls>>

\* A 2xx answer whose JSON is not an object is raised with the default
\* acceptance_uncertain=False.
CreateGarbled(w) ==
  LET t == task[w].trip IN
  /\ GarbledBodies
  /\ At(w, "create") /\ job[t] # "REFUSED"
  /\ Accept(t)
  /\ AfterCreate(w, "unsent")
  /\ UNCHANGED <<account, limit, trip, entry, lock, calls>>

SaveAcceptance(w) ==
  /\ At(w, "accepted")
  /\ Bind(task[w].trip, task[w].seen)
  /\ Continue(w)
  /\ UNCHANGED <<account, limit, entry, lock, job, calls>>

MarkUncertain(w) ==
  LET t == task[w].trip IN
  /\ At(w, "uncertain")
  /\ trip' = IF trip[t].status = "SUBMITTING"
             THEN [trip EXCEPT ![t] = Attempted(@)] ELSE trip
  /\ Finish(w)
  /\ UNCHANGED <<account, limit, entry, lock, job, calls>>

SettleLocally(w) ==
  /\ \/ At(w, "unsent") /\ Settle(task[w].trip, "FAILED")
     \/ At(w, "refused") /\ Settle(task[w].trip, "REJECTED")
  /\ Finish(w)
  /\ UNCHANGED <<account, limit, lock, job, calls>>

-----------------------------------------------------------------------------
(* Job status: polling, the SSE stream, the reconciler.                    *)

\* A status request answers with the job's status (SUBMITTING is allowed for
\* one that is queued); a stream also delivers the events it went through.
Reported(t) == {job[t]} \cup (IF job[t] = "PENDING" THEN {"SUBMITTING"} ELSE {})
Streamed(t) == {"PENDING", job[t]} \cup (IF job[t] = "PENDING" THEN {} ELSE {"RUNNING"})

Observe(w, t, k, statuses) ==
  \E s \in statuses \ Unaccepted :
    Become(w, [k EXCEPT !.pc = "apply", !.trip = t, !.seen = s])

FetchStatus(w, u, t) ==
  /\ At(w, "idle") /\ account[u] = "ACTIVE"
  /\ trip[t].user = u /\ trip[t].bound
  /\ Observe(w, t, [Idle EXCEPT !.role = "poll", !.user = u], Reported(t))
  /\ UNCHANGED <<account, limit, trip, entry, lock, job, calls>>

\* The owner is checked when the stream is opened; each event is then
\* settled or stored under that owner's id.
StreamOpen(w, u, t) ==
  /\ At(w, "idle") /\ account[u] = "ACTIVE"
  /\ trip[t].user = u /\ trip[t].bound
  /\ Become(w, [Idle EXCEPT !.role = "stream", !.pc = "next", !.user = u, !.trip = t])
  /\ UNCHANGED <<account, limit, trip, entry, lock, job, calls>>

StreamEvent(w) ==
  /\ At(w, "next") /\ task[w].role = "stream"
  /\ Observe(w, task[w].trip, task[w], Streamed(task[w].trip))
  /\ UNCHANGED <<account, limit, trip, entry, lock, job, calls>>

\* apply_job_status and the body of _owned_sse: the row is looked up with the
\* owner's id when there is one; not found is TripOwnershipError.
ApplyStatus(w) ==
  LET t == task[w].trip
      status == task[w].seen
      found == task[w].user \in {Nobody, trip[t].user}
      raises == ~found \/ (status \in Terminal /\ trip[t].status \notin Terminal
                             /\ ~Settleable(t, status))
  IN
  /\ At(w, "apply")
  /\ IF raises THEN UNCHANGED <<trip, entry>> /\ Finish(w)
     ELSE /\ IF status \in Terminal THEN Settle(t, status) ELSE Advance(t, status)
          /\ Continue(w)
  /\ UNCHANGED <<account, limit, lock, job, calls>>

\* reconcile_bounded: a batch is claimed under SKIP LOCKED and a LIMIT, each
\* claim counts an attempt, and the job id is the one read at the claim.
\* Fault: the claim does not look at the attempts.
ClaimableForever(t) == trip[t].status \in Active
Claimable(t) == trip[t].status \in Active /\ trip[t].attempts < MaxAttempts

ReconcileClaim(w, batch) ==
  /\ At(w, "idle")
  /\ \A t \in batch : Claimable(t)
  /\ trip' = [t \in Trips |-> IF t \in batch
                 THEN [trip[t] EXCEPT !.attempts = @ + 1] ELSE trip[t]]
  /\ Become(w, [Idle EXCEPT !.role = "batch", !.pc = "next",
                   !.todo = {<<t, trip[t].bound>> : t \in batch}])
  /\ UNCHANGED <<account, limit, entry, lock, job, calls>>

ReconcileItem(w, t, bound) ==
  /\ At(w, "next") /\ <<t, bound>> \in task[w].todo
  /\ LET rest == [task[w] EXCEPT !.todo = @ \ {<<t, bound>>}] IN
     \/ ~bound /\ BeginCreate(w, "batch", t, rest.todo)
     \/ bound /\ Observe(w, t, rest, Reported(t)) /\ UNCHANGED calls
     \/ /\ bound   \* the status request failed: unresolved
        /\ Become(w, IF rest.todo = {} THEN Idle ELSE rest)
        /\ UNCHANGED calls
  /\ UNCHANGED <<account, limit, trip, entry, lock, job>>

\* The response ends, or an exception, a cancellation or a crash ends the
\* task: an open transaction is rolled back, a request in flight may arrive.
Die(w) ==
  LET t == task[w].trip IN
  /\ ~At(w, "idle")
  /\ lock' = [u \in Users |-> IF lock[u] = w THEN Nobody ELSE lock[u]]
  /\ job' = IF At(w, "create") /\ job[t] = "NONE" THEN [job EXCEPT ![t] = "SENT"] ELSE job
  /\ Finish(w)
  /\ UNCHANGED <<account, limit, trip, entry, calls>>

-----------------------------------------------------------------------------
(* Administration, closure, and hermes-travel.                             *)

\* create_quota_adjustment: the balance check under the lock of the user ...
AdjustDecide(w, u, d) ==
  /\ At(w, "idle") /\ lock[u] = Nobody /\ account[u] # "CLOSED"
  /\ Remaining(u) + d >= 0
  /\ limit[u] + d <= MaxLimit
  /\ LockUser(w, u)
  /\ Become(w, [Idle EXCEPT !.role = "admin", !.pc = "adjust", !.user = u, !.delta = d])
  /\ UNCHANGED <<account, limit, trip, entry, job, calls>>

\* ... and the insert of the adjustment, with the commit.
AdjustInsert(w) ==
  LET u == task[w].user IN
  /\ At(w, "adjust")
  /\ limit' = [limit EXCEPT ![u] = @ + task[w].delta]
  /\ UnlockUser(u)
  /\ Finish(w)
  /\ UNCHANGED <<account, trip, entry, job, calls>>

\* mutate_user: DISABLE_USER and RESTORE_USER.
SetStatus(u, status) ==
  /\ lock[u] = Nobody /\ account[u] # "CLOSED"
  /\ account' = [account EXCEPT ![u] = status]
  /\ UNCHANGED <<limit, trip, entry, lock, job, calls, task>>

\* close_account once its OTP is verified: no active trip, then the trips
\* lose their owner, request id and entry, and ledger and user are deleted.
\* Fault: SUBMITTING is left out of the statuses that refuse a closure.
RefusesClosureLate(t) == trip[t].status \in {"PENDING", "RUNNING"}
RefusesClosure(t) == trip[t].status \in Active

CloseAccount(u) ==
  /\ lock[u] = Nobody /\ account[u] # "CLOSED"
  /\ \A t \in Owned(u) : ~RefusesClosure(t)
  /\ account' = [account EXCEPT ![u] = "CLOSED"]
  /\ limit' = [limit EXCEPT ![u] = 0]
  /\ trip' = [t \in Trips |-> IF trip[t].user = u
                 THEN [trip[t] EXCEPT !.user = Nobody, !.req = Nobody] ELSE trip[t]]
  /\ entry' = [t \in Trips |-> IF trip[t].user = u THEN "NONE" ELSE entry[t]]
  /\ UNCHANGED <<lock, job, calls, task>>

\* Hermes takes a request whose answer was lost, and works on its jobs.
HermesStep(t, next) ==
  /\ \/ job[t] = "SENT" /\ next = "PENDING"
     \/ job[t] = "PENDING" /\ next \in {"RUNNING"} \cup Terminal
     \/ job[t] = "RUNNING" /\ next \in Terminal
  /\ job' = [job EXCEPT ![t] = next]
  /\ UNCHANGED <<account, limit, trip, entry, lock, calls, task>>

Worker(w) ==
  \/ \E u \in Users, r \in ReqIds : ReserveRetry(w, u, r) \/ ReserveDecide(w, u, r)
  \/ \E t \in Trips : ReserveInsert(w, t)
  \/ CreateAccepted(w) \/ CreateRefused(w) \/ CreateUnsent(w)
  \/ CreateUncertain(w) \/ CreateGarbled(w)
  \/ SaveAcceptance(w) \/ MarkUncertain(w) \/ SettleLocally(w)
  \/ \E u \in Users, t \in Trips : FetchStatus(w, u, t) \/ StreamOpen(w, u, t)
  \/ StreamEvent(w) \/ ApplyStatus(w)
  \/ \E batch \in (SUBSET Trips) \ {{}} : ReconcileClaim(w, batch)
  \/ \E t \in Trips, bound \in BOOLEAN : ReconcileItem(w, t, bound)
  \/ \E u \in Users, d \in Deltas : AdjustDecide(w, u, d)
  \/ AdjustInsert(w)
  \/ Die(w)

Next ==
  \/ \E w \in Workers : Worker(w)
  \/ \E u \in Users, status \in {"ACTIVE", "DISABLED"} : SetStatus(u, status)
  \/ \E u \in Users : CloseAccount(u)
  \/ \E t \in Trips, next \in JobStates : HermesStep(t, next)

Spec == Init /\ [][Next]_vars
-----------------------------------------------------------------------------
(* Safety.                                                                 *)

\* The units reserved and consumed never exceed the limit, whatever
\* submissions, settlements and adjustments interleave (section 9, item 1 of
\* docs/database-and-quota.md; the clamp in QuotaSnapshot.remaining hides it).
NeverOverdrawn == \A u \in Users : Used(u) <= limit[u]

\* A user has at most one active trip and one trip per client_request_id: the
\* two unique indexes of user_trip never reject an insert of reserve_trip.
OneTripEach ==
  \A s, t \in Trips :
    s # t /\ trip[s].user = trip[t].user /\ trip[s].user # Nobody =>
      /\ ~(trip[s].status \in Active /\ trip[t].status \in Active)
      /\ trip[s].req # trip[t].req

\* The entry follows its trip: RESERVED exactly while the trip is active,
\* CONSUMED or RELEASED as the trip ended, gone with the owner.  It makes the
\* QuotaInvariantError of settle_trip unreachable.
EntryFollowsTrip ==
  \A t \in Trips :
    LET row == trip[t] IN
    /\ entry[t] = "RESERVED" <=> row.status \in Active
    /\ row.status \in Active => row.user # Nobody
    /\ row.user = Nobody => entry[t] = "NONE"
    /\ row.user # Nobody /\ row.status \in Terminal => entry[t] = QuotaStatus(row.status)
    /\ row.user # Nobody => account[row.user] # "CLOSED" /\ row.status # "ABSENT"

\* What reserve_trip and create_quota_adjustment decided while they hold the
\* lock of a user still stands when they write: the account is open, no trip
\* of the user is active or has the request id, and the balance covers the
\* unit or the delta, although settlements never take that lock.
DecisionStands ==
  \A w \in Workers :
    LET u == task[w].user IN
    /\ task[w].pc \in {"insert", "adjust"} =>
         u \in Users /\ lock[u] = w /\ account[u] # "CLOSED"
    /\ task[w].pc = "insert" =>
         /\ account[u] = "ACTIVE"
         /\ \A t \in Owned(u) : trip[t].req # task[w].req /\ trip[t].status \notin Active
         /\ Used(u) + 1 <= limit[u]
    /\ task[w].pc = "adjust" => Used(u) <= limit[u] + task[w].delta

\* Among active trips, SUBMITTING is exactly "no job id yet": the test that
\* lets a retry call Hermes again never sees a bound trip, and an active trip
\* that has left SUBMITTING can be polled.
SubmittingIsUnbound ==
  \A t \in Trips : trip[t].status \in Active =>
    (trip[t].status = "SUBMITTING" <=> ~trip[t].bound)

\* A unit is charged only for a job that succeeded upstream, and a trip that
\* is bound to a job is one Hermes has accepted.
ChargedOnlyForSuccess ==
  \A t \in Trips :
    /\ trip[t].status = "SUCCESS" => job[t] = "SUCCESS"
    /\ trip[t].bound => job[t] \notin Unaccepted

\* A unit whose trip made a single create call is given back only when no job
\* of that call runs, will run or has succeeded.
SoleCallRelease ==
  \A t \in Trips : entry[t] = "RELEASED" /\ calls[t] <= 1 =>
    job[t] \in {"NONE", "REFUSED", "FAILED", "TIMEOUT", "REJECTED"}

\* "do not blindly release while an upstream job may still succeed"
\* (docs/architecture-and-security.md:361-362): the same of every trip.
NoBlindRelease ==
  \A t \in Trips : entry[t] = "RELEASED" =>
    job[t] \in {"NONE", "REFUSED", "FAILED", "TIMEOUT", "REJECTED"}

\* A trip that has ended stays as it ended, a binding is never undone or lost,
\* and an entry that is settled only ever disappears with its owner: no
\* duplicate, late or conflicting result settles twice.
SettledForGood ==
  [][\A t \in Trips :
       /\ trip[t].status \in Terminal => trip'[t].status = trip[t].status
       /\ trip[t].bound => trip'[t].bound
       /\ entry[t] \in {"CONSUMED", "RELEASED"} =>
            entry'[t] = entry[t] \/ (entry'[t] = "NONE" /\ trip'[t].user = Nobody)]_vars

\* When the answer of a poll or an event is applied late, after its owner has
\* closed the account, the owner, status, binding and attempts of the erased trip
\* stay and its entry does not come back. (record_trip_telemetry still writes the
\* telemetry of such a row, which is not modelled.)
ErasedForGood ==
  [][\A t \in Trips : trip[t].status # "ABSENT" /\ trip[t].user = Nobody =>
       trip'[t] = trip[t] /\ entry'[t] = "NONE"]_vars

-----------------------------------------------------------------------------
(* The ledger TripQuota implements.                                        *)

LedgerState(t) ==
  CASE trip[t].status = "ABSENT" -> "FREE"
    [] entry[t] = "RESERVED" -> "HELD"
    [] entry[t] = "CONSUMED" -> "CHARGED"
    [] entry[t] = "RELEASED" -> "RETURNED"
    [] OTHER -> "ERASED"

Ledger == INSTANCE QuotaLedger WITH
  Units <- Trips,
  open  <- [u \in Users |-> account[u] # "CLOSED"],
  owner <- [t \in Trips |-> trip[t].user],
  state <- [t \in Trips |-> LedgerState(t)]

\* Reserving, settling, adjusting and closing are the atomic, guarded steps of
\* the abstract ledger; every other step leaves the ledger alone.
ImplementsLedger == Ledger!Spec

-----------------------------------------------------------------------------
(* Liveness.                                                               *)

\* What may be relied on: an owner keeps polling, a request is not killed
\* every time before it stores what it saw, a worker runs on or dies, a
\* stream closes some day, and jobs end.
FairSpec ==
  /\ Spec
  /\ \A t \in Trips : SF_vars(\E w \in Workers, u \in Users : FetchStatus(w, u, t))
  /\ \A w \in Workers :
       /\ SF_vars(ApplyStatus(w) /\ task[w].role = "poll")
       /\ WF_vars(Worker(w) /\ ~At(w, "idle"))
       /\ WF_vars(Die(w) /\ task[w].role = "stream")
  /\ \A t \in Trips : WF_vars(\E next \in Terminal : HermesStep(t, next))

\* A bound trip reaches a terminal status and its unit is settled, unless the
\* owner is disabled for good.
BoundTripSettles ==
  \A t \in Trips :
    (trip[t].bound /\ trip[t].status \in Active) ~>
      \/ trip[t].status \in Terminal
      \/ \E u \in Users : trip[t].user = u /\ account[u] # "ACTIVE"

=============================================================================
