----------------------------- MODULE AccountRows ------------------------------
(***************************************************************************)
(* The rows that the requests about accounts share: users, the keys of     *)
(* administrators' writes, the quota ledger, invitation batches and the    *)
(* permanent records that name users (src/db/models.py, the migrations).   *)
(* AdminConsole, DisplayNames and Accounts act on them.                    *)
(*                                                                         *)
(* A worker is one client with one request, which it may send again and    *)
(* again.  A transaction locks in one step and writes and commits in a     *)
(* later one; a crash rolls it back.                                       *)
(***************************************************************************)
EXTENDS Integers, FiniteSetsExt

CONSTANTS
  Users,      \* app_user ids
  Owner,      \* settings.admin_owner_user_id
  Keys,       \* admin_idempotency rows: an actor and its idempotency key
  Batches,    \* invitation batches, of one code each
  Names,      \* normalised display names
  Workers,    \* clients
  Requests,   \* what a client may ask for
  Grant,      \* units a user is granted at registration
  Nobody      \* NULL

VARIABLES
  account,    \* account[u]: app_user, and whether it has a live session
  claim,      \* claim[k]: the admin_idempotency row
  ledger,     \* ledger[k]: the quota_adjustment written under key k
  spent,      \* spent[u]: units that the trips of u hold or have used
  batch,      \* batch[b]: the invitation_batch and its code
  quarantine, \* former names that are still reserved
  trace,      \* trace[x]: whom the permanent rows written under key x, or by
              \*   worker x without a key, name
  lock,       \* lock[x]: the worker that holds user, key or batch x
  request,    \* request[w]: what client w asks for
  task,       \* task[w]: program counter and locals of the request
  logged,     \* logged[u]: "after" of the last audit row about user u, or
              \*   what a registration gives
  booted,     \* the SYSTEM_BOOTSTRAP audit row exists
  effects,    \* effects[k]: history, transactions that applied key k
  told        \* told[k]: history, the answers given to requests with key k

rows == <<account, claim, ledger, spent, batch, quarantine, trace, logged, booted>>
history == <<effects, told>>
vars == <<account, claim, ledger, spent, batch, quarantine, trace, lock,
          request, task, logged, booted, effects, told>>

Statuses == {"ABSENT", "ACTIVE", "DISABLED", "CLOSED"}
Roles    == {"USER", "ADMIN"}
Optional(S) == S \cup {Nobody}

\* name: display_name_normalized; cooling: within RENAME_COOLDOWN_DAYS of
\* display_name_changed_at; session: a session neither revoked nor expired.
Accounts  == [status : Statuses, role : Roles, name : Optional(Names),
              cooling : BOOLEAN, session : BOOLEAN]
NoAccount == [status |-> "ABSENT", role |-> "USER", name |-> Nobody,
              cooling |-> FALSE, session |-> FALSE]

\* What a transaction reads of its target, and what an answer tells of it: the
\* public id, status, role and balance.
Views == [user : Optional(Users), status : Statuses, role : Roles, left : Int]
NoView == [user |-> Nobody, status |-> "ABSENT", role |-> "USER", left |-> 0]

\* A claim is committed with its result or not at all: IN_PROGRESS is seen by
\* the transaction that holds the lock of the key only.  answer and codes are
\* response_json: what it tells of the target, and whether it holds raw codes.
Claims  == [made : BOOLEAN, asks : Requests \cup {Nobody}, answer : Views, codes : BOOLEAN]
NoClaim == [made |-> FALSE, asks |-> Nobody, answer |-> NoView, codes |-> FALSE]

\* The answers given under a key: what they said, and how often they disclosed
\* raw codes.
Answers == [said : SUBSET Views, disclosed : Nat]

Entries == [made : BOOLEAN, target : Optional(Users), delta : Int, after : Int,
            reverses : Optional(Keys)]
NoEntry == [made |-> FALSE, target |-> Nobody, delta |-> 0, after |-> 0,
            reverses |-> Nobody]

BatchRows == [made : BOOLEAN, disabled : BOOLEAN, code : {"ACTIVE", "REDEEMED", "DISABLED"}]
NoBatch == [made |-> FALSE, disabled |-> FALSE, code |-> "ACTIVE"]

\* path: the user named in the URL that the audit row of a denial keeps.
Traces  == [actor : Optional(Users), target : Optional(Users), path : Optional(Users)]
NoTrace == [actor |-> Nobody, target |-> Nobody, path |-> Nobody]

Lockable == Users \cup Keys \cup Batches

Points == {"idle", "admitted", "lookup", "claim", "target", "apply", "refused",
           "revealed", "self", "looked", "looking", "pick", "insert"}
Tasks == [pc : Points, who : {"USER", "ADMIN", "OWNER"}, target : Optional(Users),
          delta : Int, seen : Views, name : Optional(Names), barred : BOOLEAN]
Idle  == [pc |-> "idle", who |-> "USER", target |-> Nobody, delta |-> 0,
          seen |-> NoView, name |-> Nobody, barred |-> FALSE]

Exists(u) == account[u].status \in {"ACTIVE", "DISABLED"}
Held(n) == \E u \in Users : account[u].name = n

\* quota_snapshot: grants and adjustments, less what trips hold or have used;
\* a balance below zero is reported as zero.
Balance(u) ==
  Grant - spent[u]
    + MapThenSumSet(LAMBDA k : ledger[k].delta, {k \in Keys : ledger[k].target = u})
Remaining(u) == Max({Balance(u), 0})

View(u) == [user |-> u, status |-> account[u].status, role |-> account[u].role,
            left |-> Remaining(u)]

Free(w, x) == lock[x] \in {w, Nobody}
Released(w) == [x \in Lockable |-> IF lock[x] = w THEN Nobody ELSE lock[x]]

\* Request w goes on at pc.
GoOn(w, pc) == task' = [task EXCEPT ![w].pc = pc]

\* The transaction of w ends, committed or rolled back, and the request too.
Finish(w) ==
  /\ lock' = Released(w)
  /\ task' = [task EXCEPT ![w] = Idle]

\* get_current_auth: what follows trusts the session and the row read here.
Authenticated(u) == account[u].status = "ACTIVE" /\ account[u].session
=============================================================================
