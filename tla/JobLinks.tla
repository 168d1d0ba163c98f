------------------------------- MODULE JobLinks -------------------------------
(***************************************************************************)
(* Whose job is it: the columns of admin_trip_projection that link a job   *)
(* of hermes-travel to a trip and its owner, written by whoever applies a  *)
(* snapshot of the job (events, backfill, reconciliation:                  *)
(* src/admin/projection.py, projection_sync.py), by the acceptance that    *)
(* binds the trip (src/quota/service.py), and by the closure of the        *)
(* owner's account (src/account/closure.py).                               *)
(*                                                                         *)
(* A worker is a request or the task of a process.  A transaction takes    *)
(* its locks one step at a time and writes in its last step.  READ         *)
(* COMMITTED: a select sees what is committed, and waits only for rows that*)
(* match it already.  The job of a trip is named by the trip, because its  *)
(* upstream_request_id is the idempotency key of the create call.          *)
(***************************************************************************)
EXTENDS Integers

CONSTANTS
  Users,        \* app_user ids
  Trips,        \* user_trip ids
  Workers,      \* requests and tasks at work at once
  Nobody,       \* NULL
  LastVersion,  \* LastVersion[t]: source_version of the job of t when it ends
  PageSize      \* batch_size of the backfill

ASSUME LinksAssumption ==
  /\ Nobody \notin Users \cup Trips \cup Workers
  /\ LastVersion \in [Trips -> Nat \ {0}]
  /\ PageSize \in Nat \ {0}

VARIABLES
  user,        \* user[u]: the app_user row exists
  trip,        \* trip[t]: the user_trip row
  job,         \* job[t]: hermes-travel's version of the job, 0 for no job
  source,      \* source[t]: source_id of the job of t, 0 for no job
  issued,      \* source ids given so far
  link,        \* link[t]: the admin_trip_projection row of the job of t
  applied,     \* applied[t]: version in the last event of the job applied
  checkpoint,  \* the backfill checkpoint of TRIP_JOB
  lock,        \* lock[x]: the worker that holds row x
  task         \* task[w]: program counter and locals

rows == <<user, trip, link, applied, checkpoint>>
hermes == <<job, source, issued>>
vars == <<user, trip, job, source, issued, link, applied, checkpoint, lock, task>>

-----------------------------------------------------------------------------
(* The rows.                                                               *)

Versions == Nat

\* ACTIVE: SUBMITTING while it is not bound, PENDING or RUNNING afterwards.
\* version: association_version; erased: identity_erased_at.
TripRows == [status : {"ABSENT", "ACTIVE", "ENDED"}, bound : BOOLEAN,
             user : Users \cup {Nobody}, version : 0..3, erased : BOOLEAN]
NoTrip == [status |-> "ABSENT", bound |-> FALSE, user |-> Nobody, version |-> 0,
           erased |-> FALSE]

\* seen: source_version; state, version, erased, trip, user: the association.
LinkRows == [made : BOOLEAN, seen : Versions,
             state : {"unlinked", "linked", "de-identified"}, version : 0..3,
             erased : BOOLEAN, trip : Trips \cup {Nobody}, user : Users \cup {Nobody}]
NoLink == [made |-> FALSE, seen |-> 0, state |-> "unlinked", version |-> 0,
           erased |-> FALSE, trip |-> Nobody, user |-> Nobody]

\* last: last_source_id; max: snapshot_max_id, -1 for NULL; done: completed_at.
Checkpoints == [last : Nat, max : Nat \cup {-1}, done : BOOLEAN]

TripLock(t) == <<"trip", t>>
LinkLock(t) == <<"link", t>>
UserLock(u) == <<"user", u>>
StreamLock  == <<"stream", Nobody>>
PageLock    == <<"checkpoint", Nobody>>
Lockable == {TripLock(t) : t \in Trips} \cup {LinkLock(t) : t \in Trips}
              \cup {UserLock(u) : u \in Users} \cup {StreamLock, PageLock}

\* todo: the jobs a transaction has still to apply, with the versions snap, in
\* order of source, but those in first before others; facts: the trips it
\* read; keys: users whose row its foreign keys hold.
Tasks == [pc : {"idle", "bind", "accept", "trip", "link", "commit", "fetch", "page",
                "compare", "close", "erase"},
          kind : {"event", "page", "repair", "accept", "close"},
          todo : SUBSET Trips, first : SUBSET Trips, snap : [Trips -> Versions],
          facts : [Trips -> TripRows],
          keys : SUBSET Users,
          about : Trips \cup Users \cup {Nobody},
          last : Nat, max : Nat \cup {-1}]
Idle == [pc |-> "idle", kind |-> "event", todo |-> {}, first |-> {},
         snap |-> [t \in Trips |-> 0], facts |-> [t \in Trips |-> NoTrip], keys |-> {},
         about |-> Nobody, last |-> 0, max |-> -1]

TypeOK ==
  /\ user \in [Users -> BOOLEAN]
  /\ trip \in [Trips -> TripRows]
  /\ job \in [Trips -> Versions]
  /\ source \in [Trips -> Nat]
  /\ issued \in Nat
  /\ link \in [Trips -> LinkRows]
  /\ applied \in [Trips -> Versions]
  /\ checkpoint \in Checkpoints
  /\ lock \in [Lockable -> Workers \cup {Nobody}]
  /\ task \in [Workers -> Tasks]

Init ==
  /\ user = [u \in Users |-> TRUE]
  /\ trip = [t \in Trips |-> NoTrip]
  /\ job = [t \in Trips |-> 0]
  /\ source = [t \in Trips |-> 0]
  /\ issued = 0
  /\ link = [t \in Trips |-> NoLink]
  /\ applied = [t \in Trips |-> 0]
  /\ checkpoint = [last |-> 0, max |-> -1, done |-> FALSE]
  /\ lock = [x \in Lockable |-> Nobody]
  /\ task = [w \in Workers |-> Idle]

TripsOf(u) == {t \in Trips : trip[t].user = u}
Free(w, x) == lock[x] \in {w, Nobody}
Holding(w, S) == [x \in Lockable |-> IF x \in S THEN w ELSE lock[x]]

\* The transaction of w ends, committed or rolled back.
Finish(w) ==
  /\ lock' = [x \in Lockable |-> IF lock[x] = w THEN Nobody ELSE lock[x]]
  /\ task' = [task EXCEPT ![w] = Idle]

\* A foreign key to u waits for FOR UPDATE of its row, and holds it off.
Referable(w, u) == user[u] /\ Free(w, UserLock(u))
Unreferred(w, u) == Free(w, UserLock(u)) /\ \A v \in Workers \ {w} : u \notin task[v].keys

-----------------------------------------------------------------------------
(* Trips and their jobs; TripQuota has the details.                        *)

\* reserve_trip.
Reserve(u, t) ==
  /\ user[u] /\ Unreferred(Nobody, u)
  /\ trip[t].status = "ABSENT"
  /\ \A s \in TripsOf(u) : trip[s].status # "ACTIVE"
  /\ trip' = [trip EXCEPT ![t] = [NoTrip EXCEPT !.status = "ACTIVE", !.user = u, !.version = 1]]
  /\ UNCHANGED <<user, link, applied, checkpoint, hermes, lock, task>>

\* hermes-travel accepts a create call, maybe late, and works on the job.
HermesStep(t) ==
  /\ trip[t].status # "ABSENT"
  /\ job[t] < LastVersion[t]
  /\ job' = [job EXCEPT ![t] = @ + 1]
  /\ IF job[t] = 0
     THEN issued' = issued + 1 /\ source' = [source EXCEPT ![t] = issued + 1]
     ELSE UNCHANGED <<source, issued>>
  /\ UNCHANGED <<rows, lock, task>>

\* settle_trip, with the job or, when a create call has failed, without.
Settle(t) ==
  /\ trip[t].status = "ACTIVE" /\ lock[TripLock(t)] = Nobody
  /\ trip' = [trip EXCEPT ![t].status = "ENDED"]
  /\ UNCHANGED <<user, link, applied, checkpoint, hermes, lock, task>>

-----------------------------------------------------------------------------
(* The acceptance.                                                         *)

\* save_upstream_acceptance locks the trip; one that has ended stays as it is.
AcceptTrip(w, t) ==
  /\ task[w].pc = "idle"
  /\ job[t] > 0 /\ trip[t].status = "ACTIVE"
  /\ Free(w, TripLock(t))
  /\ lock' = Holding(w, {TripLock(t)})
  /\ task' = [task EXCEPT ![w].pc = "bind", ![w].kind = "accept", ![w].about = t]
  /\ UNCHANGED <<rows, hermes>>

\* The row of the job, if there is one that is committed.
AcceptLink(w) ==
  LET t == task[w].about IN
  /\ task[w].pc = "bind"
  /\ IF link[t].made
     THEN Free(w, LinkLock(t)) /\ lock' = Holding(w, {LinkLock(t)})
     ELSE UNCHANGED lock
  /\ task' = [task EXCEPT ![w].pc = "accept"]
  /\ UNCHANGED <<rows, hermes>>

Larger(m, n) == IF m > n THEN m ELSE n

Unlinked(r)     == [r EXCEPT !.state = "unlinked", !.user = Nobody]
Linked(r, t, u) == [r EXCEPT !.state = "linked", !.trip = t, !.user = u]
Deidentified(r) == [r EXCEPT !.state = "de-identified", !.erased = TRUE,
                             !.trip = Nobody, !.user = Nobody]

\* What the acceptance of trip row p makes of row r.
\* Fault: the version is read before the trip is bound.
AcceptedTooEarly(r, t, p) ==
  [IF p.erased \/ r.erased THEN Deidentified(r)
   ELSE IF p.user # Nobody THEN Linked(r, t, p.user)
   ELSE [Unlinked(r) EXCEPT !.trip = t] EXCEPT !.version = Larger(@, 1)]
Accepted(r, t, p) ==
  [IF p.erased \/ r.erased THEN Deidentified(r)
   ELSE IF p.user # Nobody THEN Linked(r, t, p.user)
   ELSE [Unlinked(r) EXCEPT !.trip = t] EXCEPT !.version = Larger(@, p.version)]

\* The trip, bound to its job.  Fault: bound again, it gets another version.
BoundAgain(p) == [p EXCEPT !.bound = TRUE, !.version = @ + 1]
Bound(p) == [p EXCEPT !.bound = TRUE, !.version = IF p.bound THEN @ ELSE @ + 1]

AcceptCommit(w) ==
  LET t == task[w].about
      p == Bound(trip[t]) IN
  /\ task[w].pc = "accept"
  /\ trip' = [trip EXCEPT ![t] = p]
  /\ link' = IF lock[LinkLock(t)] = w THEN [link EXCEPT ![t] = Accepted(@, t, p)] ELSE link
  /\ link'[t].user \notin {Nobody, link[t].user} => Referable(w, link'[t].user)
  /\ Finish(w)
  /\ UNCHANGED <<user, applied, checkpoint, hermes>>

-----------------------------------------------------------------------------
(* Applying snapshots of jobs.                                             *)

\* The order of a transaction, and where it goes on with the jobs todo.
Turn(w, t) ==
  /\ t \in task[w].todo
  /\ \A s \in task[w].todo \ {t} :
       IF s \in task[w].first <=> t \in task[w].first THEN source[t] < source[s]
       ELSE t \in task[w].first
GoOn(todo) == IF todo = {} THEN "commit" ELSE "trip"

\* apply_projection_event, under the lock of the stream state, which admits
\* each event once and in order (ProjectionStream).
Consume(w, t) ==
  /\ task[w].pc = "idle"
  /\ applied[t] < job[t]
  /\ Free(w, StreamLock)
  /\ lock' = Holding(w, {StreamLock})
  /\ task' = [task EXCEPT ![w].pc = "trip", ![w].kind = "event", ![w].todo = {t},
                          ![w].snap[t] = applied[t] + 1]
  /\ UNCHANGED <<rows, hermes>>

\* _lock_user_trip: a trip that is not bound yet is not found, and nothing
\* is waited for.
FactOf(t) == IF trip[t].bound THEN trip[t] ELSE NoTrip

ApplyTrip(w, t) ==
  /\ task[w].pc = "trip" /\ Turn(w, t)
  /\ IF trip[t].bound
     THEN Free(w, TripLock(t)) /\ lock' = Holding(w, {TripLock(t)})
     ELSE UNCHANGED lock
  /\ task' = [task EXCEPT ![w].pc = "link", ![w].facts[t] = FactOf(t)]
  /\ UNCHANGED <<rows, hermes>>

\* _association_from_locked_facts and the rest of _apply_job_snapshot: row r
\* after a snapshot of version v, when the trip read was p.
\* Fault: what the row says of an erased identity is not looked at.
SnapshottedAnew(r, t, p, v) ==
  LET new == [r EXCEPT !.made = TRUE, !.seen = Larger(@, v), !.version = Larger(@, Larger(p.version, 1))]
  IN CASE p.erased -> Deidentified(new)
       [] ~p.erased /\ p.user = Nobody -> [Unlinked(new) EXCEPT !.trip = IF p.bound THEN t ELSE Nobody]
       [] ~p.erased /\ p.user # Nobody -> Linked(new, t, p.user)
Snapshotted(r, t, p, v) ==
  LET new == [r EXCEPT !.made = TRUE, !.seen = Larger(@, v), !.version = Larger(@, Larger(p.version, 1))]
  IN CASE r.erased -> [Deidentified(new) EXCEPT !.version = r.version]
       [] ~r.erased /\ p.erased -> Deidentified(new)
       [] ~r.erased /\ ~p.erased /\ p.user = Nobody ->
            [Unlinked(new) EXCEPT !.trip = IF p.bound THEN t ELSE Nobody]
       [] ~r.erased /\ ~p.erased /\ p.user # Nobody -> Linked(new, t, p.user)

\* The row, locked or inserted, and flushed: its foreign key is checked when
\* its user changes.  An insert that meets a row in the end fails (Crash).
ApplyLink(w, t) ==
  LET u == task[w].facts[t].user
      names == u # Nobody /\ ~link[t].erased /\ link[t].user # u
      rest == task[w].todo \ {t} IN
  /\ task[w].pc = "link" /\ Turn(w, t)
  /\ Free(w, LinkLock(t))
  /\ lock' = Holding(w, {LinkLock(t)})
  /\ names => Referable(w, u)
  /\ task' = [task EXCEPT ![w].pc = GoOn(rest), ![w].todo = rest,
                          ![w].keys = IF names THEN @ \cup {u} ELSE @]
  /\ UNCHANGED <<rows, hermes>>

\* The checkpoint after a page.
PageDone(w) ==
  LET more == task[w].last + PageSize < task[w].max IN
  [last |-> IF more THEN task[w].last + PageSize ELSE task[w].max,
   max  |-> task[w].max, done |-> checkpoint.done \/ ~more]

ApplyCommit(w) ==
  LET now == {t \in Trips : lock[LinkLock(t)] = w} IN
  /\ task[w].pc = "commit"
  /\ link' = [t \in Trips |-> IF t \in now
                              THEN Snapshotted(link[t], t, task[w].facts[t], task[w].snap[t])
                              ELSE link[t]]
  /\ applied' = [t \in Trips |-> IF task[w].kind = "event" /\ t \in now
                                 THEN task[w].snap[t] ELSE applied[t]]
  /\ checkpoint' = IF task[w].kind = "page" THEN PageDone(w) ELSE checkpoint
  /\ Finish(w)
  /\ UNCHANGED <<user, trip, hermes>>

-----------------------------------------------------------------------------
(* Backfill and reconciliation.                                            *)

\* run_projection_backfill reads the checkpoint, in any number of processes ...
ReadCheckpoint(w) ==
  /\ task[w].pc = "idle"
  /\ ~checkpoint.done
  /\ task' = [task EXCEPT ![w].pc = "fetch", ![w].kind = "page",
                          ![w].last = checkpoint.last, ![w].max = checkpoint.max]
  /\ UNCHANGED <<rows, hermes, lock>>

\* ... asks for the next page of the snapshot, or for a snapshot ...
FetchPage(w) ==
  LET max == IF task[w].last > 0 THEN task[w].max ELSE issued
      page == {t \in Trips : /\ task[w].last < source[t] /\ source[t] <= max
                             /\ source[t] <= task[w].last + PageSize} IN
  /\ task[w].pc = "fetch"
  /\ task' = [task EXCEPT ![w].pc = "page", ![w].max = max, ![w].todo = page,
                ![w].snap = [t \in Trips |-> IF t \in page THEN job[t] ELSE 0]]
  /\ UNCHANGED <<rows, hermes, lock>>

\* ... and locks the checkpoint, which may have moved.
\* Fault: the snapshot may have changed.
AnySnapshot(w) == TRUE
SameSnapshot(w) == checkpoint.max \in {-1, task[w].max}

OpenPage(w) ==
  /\ task[w].pc = "page"
  /\ Free(w, PageLock)
  /\ IF SameSnapshot(w)
     THEN /\ lock' = Holding(w, {PageLock})
          /\ task' = [task EXCEPT ![w].pc = GoOn(task[w].todo)]
     ELSE Finish(w)
  /\ UNCHANGED <<rows, hermes>>

\* reconcile_projection: all jobs of the source ...
FetchSource(w) ==
  /\ task[w].pc = "idle"
  /\ issued > 0
  /\ task' = [task EXCEPT ![w].pc = "compare", ![w].kind = "repair", ![w].snap = job]
  /\ UNCHANGED <<rows, hermes, lock>>

\* ... against all rows: what is missing first, then what has another version.
CompareRows(w) ==
  LET missing == {t \in Trips : task[w].snap[t] > 0 /\ ~link[t].made}
      stale == {t \in Trips : task[w].snap[t] > 0 /\ link[t].seen # task[w].snap[t]} IN
  /\ task[w].pc = "compare"
  /\ task' = [task EXCEPT ![w] = IF missing \cup stale = {} THEN Idle
                ELSE [@ EXCEPT !.pc = "trip", !.todo = missing \cup stale, !.first = missing]]
  /\ UNCHANGED <<rows, hermes, lock>>

-----------------------------------------------------------------------------
(* Closing an account.                                                     *)

\* close_account, whose code is right (SignIn), locks the user, and finds no
\* active trip.
CloseUser(w, u) ==
  /\ task[w].pc = "idle"
  /\ user[u] /\ Unreferred(w, u)
  /\ \A t \in TripsOf(u) : trip[t].status # "ACTIVE"
  /\ lock' = Holding(w, {UserLock(u)})
  /\ task' = [task EXCEPT ![w].pc = "close", ![w].kind = "close", ![w].about = u]
  /\ UNCHANGED <<rows, hermes>>

CloseTrips(w) ==
  LET own == {TripLock(t) : t \in TripsOf(task[w].about)} IN
  /\ task[w].pc = "close"
  /\ \A x \in own : Free(w, x)
  /\ lock' = Holding(w, own)
  /\ task' = [task EXCEPT ![w].pc = "erase"]
  /\ UNCHANGED <<rows, hermes>>

\* The rows of their jobs, and the end of the user.  Deleting the user row
\* would null the user of a row that still names it, which the check
\* constraint of linked rows refuses.
CloseCommit(w) ==
  LET u == task[w].about
      own == TripsOf(u)
      known == {t \in own : trip[t].bound /\ link[t].made} IN
  /\ task[w].pc = "erase"
  /\ \A t \in known : Free(w, LinkLock(t))
  /\ IF \A t \in Trips \ known : link[t].user # u
     THEN /\ user' = [user EXCEPT ![u] = FALSE]
          /\ trip' = [t \in Trips |-> IF t \in own
                        THEN [trip[t] EXCEPT !.user = Nobody, !.version = @ + 1, !.erased = TRUE]
                        ELSE trip[t]]
          /\ link' = [t \in Trips |-> IF t \in known
                        THEN [Deidentified(link[t]) EXCEPT !.version = Larger(@, trip'[t].version)]
                        ELSE link[t]]
     ELSE UNCHANGED <<user, trip, link>>
  /\ Finish(w)
  /\ UNCHANGED <<applied, checkpoint, hermes>>

-----------------------------------------------------------------------------

\* An exception, a lost connection, a process that dies, or the transaction
\* that PostgreSQL rolls back to end a deadlock.
Crash(w) ==
  /\ task[w].pc # "idle"
  /\ Finish(w)
  /\ UNCHANGED <<rows, hermes>>

Work(w) ==
  \/ \E t \in Trips : AcceptTrip(w, t) \/ Consume(w, t)
  \/ AcceptLink(w) \/ AcceptCommit(w)
  \/ (\E t \in Trips : ApplyTrip(w, t) \/ ApplyLink(w, t)) \/ ApplyCommit(w)
  \/ ReadCheckpoint(w) \/ FetchPage(w) \/ OpenPage(w)
  \/ FetchSource(w) \/ CompareRows(w)
  \/ (\E u \in Users : CloseUser(w, u)) \/ CloseTrips(w) \/ CloseCommit(w)
  \/ Crash(w)

Next ==
  \/ \E w \in Workers : Work(w)
  \/ \E t \in Trips : (\E u \in Users : Reserve(u, t)) \/ HermesStep(t) \/ Settle(t)

Spec == Init /\ [][Next]_vars

-----------------------------------------------------------------------------
(* Properties.                                                             *)

\* A row that says anything of its owner says what the trip says, at the
\* trip's version: nothing links a job to a closed account, or to a trip that
\* no longer exists in that form.
LinksTellTheTruth ==
  \A t \in Trips :
    LET r == link[t]
        p == trip[t] IN
    /\ r.state = "linked" =>
         p.bound /\ ~p.erased /\ r.trip = t /\ r.user = p.user /\ user[p.user]
    /\ r.state = "de-identified" => p.erased /\ r.erased
    /\ r.state # "unlinked" => r.version = p.version
    /\ r.user # Nobody => r.state = "linked"

\* Whatever the backfill has passed, in however many processes, has its row.
BackfillCovers ==
  \A t \in Trips :
    0 < source[t] /\ source[t] <= (IF checkpoint.done THEN checkpoint.max ELSE checkpoint.last)
      => link[t].made

\* A job that was de-identified is never linked again.
ErasureIsFinal ==
  [][\A t \in Trips : link[t].erased =>
       link'[t].erased /\ link'[t].state = "de-identified" /\ link'[t].user = Nobody]_vars

\* tests/integration/test_v020_projection.py:187: an event before the binding
\* is corrected by the binding transaction.
BindingCorrects ==
  \A t \in Trips :
    /\ trip[t].bound /\ link[t].made /\ applied[t] = LastVersion[t]
    /\ \A w \in Workers : task[w].pc = "idle"
    => link[t].state # "unlinked"
=============================================================================
