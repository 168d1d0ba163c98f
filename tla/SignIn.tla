------------------------------- MODULE SignIn --------------------------------
(***************************************************************************)
(* One-time codes and what they open: sending a code, verifying it to      *)
(* register or to log in, and closing an account with it                   *)
(* (src/auth/service.py, src/invitations/service.py,                       *)
(* src/account/closure.py), against the actions of administrators that     *)
(* lock the same rows (src/admin/service.py).                              *)
(*                                                                         *)
(* A worker is one HTTP request.  A transaction takes its locks one step   *)
(* at a time and writes in its last step, where it commits and releases    *)
(* them; a lock that is held makes the step wait.  Two transactions that   *)
(* wait for each other are PostgreSQL's to resolve (DeadlockVictim).       *)
(* Times: a code that was requested is RECENT for otp_resend_seconds, VALID*)
(* for otp_expiry_seconds; the model stays inside one rate window.         *)
(***************************************************************************)
EXTENDS Integers, FiniteSets

CONSTANTS
  Users,          \* app_user ids, used or not yet
  Emails,         \* normalised addresses
  HomeOf,         \* HomeOf[u]: the address of u if u is registered at first
  Invitations,    \* invitation rows
  Challenges,     \* email_otp_challenge ids
  Sessions,       \* user_session ids
  Workers,        \* HTTP requests in progress at once
  Nobody,         \* NULL
  PerEmail,       \* otp_per_email_limit
  MaxAttempts     \* otp_max_attempts

ASSUME SignInAssumption ==
  /\ HomeOf \in [Users -> Emails]
  /\ \A u, v \in Users : HomeOf[u] = HomeOf[v] => u = v
  /\ Nobody \notin Users \cup Emails \cup Invitations \cup Challenges \cup Workers
  /\ PerEmail \in Nat /\ MaxAttempts \in Nat \ {0}

VARIABLES
  account,      \* account[u]: app_user, its identity and its redemption
  invitation,   \* invitation[i]: "USABLE" or "REDEEMED"
  challenge,    \* challenge[c]: the email_otp_challenge row
  session,      \* session[s]: the user_session row
  lock,         \* lock[x]: the worker that holds row or address x
  task,         \* task[w]: program counter and locals of request w
  clashed,      \* history: a unique constraint refused a registration
  enrolled,     \* enrolled[i]: history, accounts opened with invitation i
  spent,        \* spent[c]: history, transactions that consumed the challenge c
  guesses       \* guesses[c]: history, wrong codes compared with c

rows == <<account, invitation, challenge, session>>
history == <<clashed, enrolled, spent, guesses>>
vars == <<account, invitation, challenge, session, lock, task,
          clashed, enrolled, spent, guesses>>

-----------------------------------------------------------------------------
(* The rows.                                                               *)

Statuses == {"ABSENT", "ACTIVE", "DISABLED", "CLOSED"}
Modes    == {"login", "register", "closure"}

NoAccount == [status |-> "ABSENT", mail |-> Nobody, inv |-> Nobody]
Accounts  == [status : Statuses, mail : Emails \cup {Nobody},
              inv : Invitations \cup {Nobody}]

NoChallenge == [state |-> "ABSENT", mode |-> "login", mail |-> Nobody,
                user |-> Nobody, inv |-> Nobody, attempts |-> 0, recent |-> FALSE]
\* PENDING (or FAILED), SENT: delivery_status of an unused code; USED:
\* consumed_at is set.  recent: in the cooldown.  A code
\* that expires is one that no request presents any more.
ChallengeRows ==
  [state : {"ABSENT", "PENDING", "SENT", "USED"},
   mode : Modes, mail : Emails \cup {Nobody}, user : Users \cup {Nobody},
   inv : Invitations \cup {Nobody}, attempts : 0..MaxAttempts, recent : BOOLEAN]

\* session[s] is Nobody for no row, or one that is revoked or expired: it
\* opens nothing ever again.
Live(s) == session[s] # Nobody

Lockable == Users \cup Emails \cup Invitations \cup Challenges

Idle == [pc |-> "idle", mode |-> "login", mail |-> Nobody, user |-> Nobody,
         inv |-> Nobody, code |-> Nobody, seen |-> 0]
Tasks ==
  [pc : {"idle", "insert", "mail", "admitted", "code", "login", "open",
         "register", "enrol", "closing"},
   mode : Modes, mail : Emails \cup {Nobody}, user : Users \cup {Nobody},
   inv : Invitations \cup {Nobody}, code : Challenges \cup {Nobody},
   seen : 0..MaxAttempts]

TypeOK ==
  /\ account \in [Users -> Accounts]
  /\ invitation \in [Invitations -> {"USABLE", "REDEEMED"}]
  /\ challenge \in [Challenges -> ChallengeRows]
  /\ session \in [Sessions -> Users \cup {Nobody}]
  /\ lock \in [Lockable -> Workers \cup {Nobody}]
  /\ task \in [Workers -> Tasks]
  /\ clashed \in BOOLEAN
  /\ enrolled \in [Invitations -> Nat]
  /\ spent \in [Challenges -> Nat]
  /\ guesses \in [Challenges -> Nat]

\* Any set of accounts may be registered, each with or without a session.
Init ==
  \E registered \in SUBSET Users :
    /\ account = [u \in Users |->
                    IF u \in registered
                    THEN [NoAccount EXCEPT !.status = "ACTIVE", !.mail = HomeOf[u]]
                    ELSE NoAccount]
    /\ invitation = [i \in Invitations |-> "USABLE"]
    /\ challenge = [c \in Challenges |-> NoChallenge]
    /\ session \in [Sessions -> registered \cup {Nobody}]
    /\ lock = [x \in Lockable |-> Nobody]
    /\ task = [w \in Workers |-> Idle]
    /\ clashed = FALSE
    /\ enrolled = [i \in Invitations |-> 0]
    /\ spent = [c \in Challenges |-> 0]
    /\ guesses = [c \in Challenges |-> 0]

Exists(u) == account[u].status \in {"ACTIVE", "DISABLED"}
Stored(c) == challenge[c].state # "ABSENT"
IdentityOf(e) == {u \in Users : account[u].mail = e}

-----------------------------------------------------------------------------
(* Locks.  A transaction keeps what it locked until it ends.               *)

Free(w, x) == lock[x] \in {w, Nobody}
Taken(w, x) == [lock EXCEPT ![x] = w]
Released(w) == [x \in Lockable |-> IF lock[x] = w THEN Nobody ELSE lock[x]]

\* The transaction of w ends: committed or rolled back, its locks are free.
Finish(w) ==
  /\ lock' = Released(w)
  /\ task' = [task EXCEPT ![w] = Idle]

-----------------------------------------------------------------------------
(* Sending a code.                                                         *)

Purpose(mode) == IF mode = "closure" THEN "ACCOUNT_CLOSURE" ELSE "EMAIL_AUTH"

\* _enforce_send_limits: a cooldown per address and purpose, a limit per
\* address; the limits per client and in all count the same rows.
MaySend(e, mode) ==
  LET sent == {c \in Challenges : Stored(c) /\ challenge[c].mail = e} IN
  /\ Cardinality(sent) < PerEmail
  /\ \A c \in sent : challenge[c].recent
                       => Purpose(challenge[c].mode) # Purpose(mode)

\* Fault: redeemed_at is not looked at.
InvitationNotDisabled(i) == TRUE
InvitationUsable(i) == invitation[i] = "USABLE"

\* send_auth_code, to its counts and its look at the invitation.
RequestCode(w, mode, e, i) ==
  /\ task[w].pc = "idle"
  /\ MaySend(e, mode)
  /\ IF mode = "register" THEN i \in Invitations /\ InvitationUsable(i)
     ELSE mode = "login" /\ i = Nobody
  /\ task' = [task EXCEPT ![w] = [Idle EXCEPT !.pc = "insert", !.mode = mode,
                                              !.mail = e, !.inv = i]]
  /\ UNCHANGED <<rows, lock, history>>

\* get_current_auth, for the requests that close an account: what follows
\* trusts the session and the status read here.  EndSession stands for expiry.
Admit(w, s) ==
  /\ task[w].pc = "idle"
  /\ Live(s)
  /\ account[session[s]].status = "ACTIVE"
  /\ task' = [task EXCEPT ![w] = [Idle EXCEPT !.pc = "admitted", !.mode = "closure",
                                              !.user = session[s]]]
  /\ UNCHANGED <<rows, lock, history>>

\* closure_send_code and send_closure_code, to its counts.
RequestClosureCode(w) ==
  LET u == task[w].user IN
  /\ task[w].pc = "admitted"
  /\ IF account[u].mail # Nobody /\ MaySend(account[u].mail, "closure")
     THEN task' = [task EXCEPT ![w].pc = "insert", ![w].mail = account[u].mail]
     ELSE task' = [task EXCEPT ![w] = Idle]
  /\ UNCHANGED <<rows, lock, history>>

\* The foreign key on user_id: the insert waits for a lock of the user row
\* and fails if the row is gone.
\* Fault: no foreign key.
AnyUserReferenced(w) == TRUE
UserReferenced(w) == task[w].user = Nobody \/ Exists(task[w].user)

\* The id of a row that is deleted is as good as new once no request holds it.
Fresh(c) == ~Stored(c) /\ \A w \in Workers : task[w].code # c

InsertChallenge(w, c) ==
  /\ task[w].pc = "insert"
  /\ task[w].user # Nobody => lock[task[w].user] = Nobody
  /\ IF UserReferenced(w)
     THEN /\ Fresh(c)
          /\ challenge' = [challenge EXCEPT ![c] =
                             [NoChallenge EXCEPT !.state = "PENDING", !.mode = task[w].mode,
                                !.mail = task[w].mail, !.user = task[w].user,
                                !.inv = task[w].inv, !.recent = TRUE]]
          /\ task' = [task EXCEPT ![w].pc = "mail", ![w].code = c]
     ELSE UNCHANGED challenge /\ task' = [task EXCEPT ![w] = Idle]
  /\ UNCHANGED <<account, invitation, session, lock, history>>

\* The mail is delivered or fails, then delivery_status is set, to SENT only
\* where it is still PENDING; a challenge that a closure deleted meets no row.
MarkDelivery(w, delivered) ==
  LET c == task[w].code IN
  /\ task[w].pc = "mail"
  /\ lock[c] = Nobody
  /\ challenge' = IF delivered /\ challenge[c].state = "PENDING"
                  THEN [challenge EXCEPT ![c].state = "SENT"] ELSE challenge
  /\ task' = [task EXCEPT ![w] = Idle]
  /\ UNCHANGED <<account, invitation, session, lock, history>>

-----------------------------------------------------------------------------
(* Verifying a code: its attempts, then what it opens.                     *)

\* SELECT ... FOR UPDATE of the challenge.  Fault: without FOR UPDATE.
LockCodeForgotten(w, c) == UNCHANGED lock
LockCode(w, c) == lock' = Taken(w, c)

\* Fault: one comparison too many.
UsableAtLimit(c) == challenge[c].state = "SENT" /\ challenge[c].attempts <= MaxAttempts
Usable(c) == challenge[c].state = "SENT" /\ challenge[c].attempts < MaxAttempts

\* verify_auth_code, to its comparison; every other challenge is refused
\* without a trace (invalid, used, expired, attempts exceeded).
ReadCode(w, c) ==
  /\ task[w].pc = "idle"
  /\ Usable(c) /\ challenge[c].mode # "closure" /\ Free(w, c)
  /\ LockCode(w, c)
  /\ task' = [task EXCEPT ![w] =
                [Idle EXCEPT !.pc = "code", !.mode = challenge[c].mode, !.code = c,
                   !.mail = challenge[c].mail, !.inv = challenge[c].inv,
                   !.seen = challenge[c].attempts]]
  /\ UNCHANGED <<rows, history>>

\* A wrong code, of either purpose: attempt_count is what was read, plus one.
WrongCode(w) ==
  LET c == task[w].code IN
  /\ task[w].pc = "code"
  /\ challenge' = [challenge EXCEPT ![c].attempts = task[w].seen + 1]
  /\ guesses' = [guesses EXCEPT ![c] = @ + 1]
  /\ Finish(w)
  /\ UNCHANGED <<account, invitation, session, clashed, enrolled, spent>>

\* consumed_at, and the end of the transaction.
Consume(w) ==
  LET c == task[w].code IN
  /\ challenge' = [challenge EXCEPT ![c].state = "USED"]
  /\ spent' = [spent EXCEPT ![c] = @ + 1]
  /\ Finish(w)
  /\ UNCHANGED <<clashed, guesses>>

\* pg_advisory_xact_lock of the address.
\* Fault: no lock.
LockAddressForgotten(w, e) == UNCHANGED lock
LockAddress(w, e) == lock' = Taken(w, e)

\* A right code: under the lock of its address the identity decides.
RightCode(w) ==
  LET known == IdentityOf(task[w].mail) IN
  /\ task[w].pc = "code" /\ task[w].mode # "closure"
  /\ Free(w, task[w].mail)
  /\ IF (task[w].mode = "login") = (known # {})
     THEN /\ LockAddress(w, task[w].mail)
          /\ \E u \in IF known = {} THEN {Nobody} ELSE known :
               task' = [task EXCEPT ![w].pc = task[w].mode, ![w].user = u]
          /\ UNCHANGED <<challenge, history>>
     ELSE Consume(w) /\ UNCHANGED enrolled  \* REGISTRATION_REQUIRED, LOGIN_REQUIRED
  /\ UNCHANGED <<account, invitation, session>>

\* Login locks the user row and looks at its status.
\* Fault: the row is read without FOR UPDATE.
LockUserForgotten(w, u) == UNCHANGED lock
LockUser(w, u) == lock' = Taken(w, u)

LogIn(w) ==
  LET u == task[w].user IN
  /\ task[w].pc = "login"
  /\ Free(w, u)
  /\ IF account[u].status = "ACTIVE"
     THEN /\ LockUser(w, u)
          /\ task' = [task EXCEPT ![w].pc = "open"]
          /\ UNCHANGED <<challenge, history>>
     ELSE Consume(w) /\ UNCHANGED enrolled      \* AUTH_REQUIRED
  /\ UNCHANGED <<account, invitation, session>>

\* _new_session.
OpenSession(s, u) == ~Live(s) /\ session' = [session EXCEPT ![s] = u]

CommitLogin(w, s) ==
  /\ task[w].pc = "open"
  /\ OpenSession(s, task[w].user)
  /\ Consume(w)
  /\ UNCHANGED <<account, invitation, enrolled>>

\* Registration locks the invitation and looks at it again.
LockInvitation(w, i) == lock' = Taken(w, i)

Register(w) ==
  LET i == task[w].inv IN
  /\ task[w].pc = "register"
  /\ Free(w, i)
  /\ IF InvitationUsable(i)
     THEN /\ LockInvitation(w, i)
          /\ task' = [task EXCEPT ![w].pc = "enrol"]
          /\ UNCHANGED <<challenge, history>>
     ELSE Consume(w) /\ UNCHANGED enrolled      \* INVITATION_INVALID
  /\ UNCHANGED <<account, invitation, session>>

\* The unique constraints on (provider, provider_subject) and on
\* invitation_redemption.invitation_id roll the transaction back.
Unclaimed(e, i) ==
  \A u \in Users : Exists(u) => account[u].mail # e /\ account[u].inv # i

CommitRegistration(w, u, s) ==
  LET i == task[w].inv
      e == task[w].mail IN
  /\ task[w].pc = "enrol"
  /\ IF Unclaimed(e, i)
     THEN /\ account[u].status = "ABSENT"
          /\ account' = [account EXCEPT ![u] = [status |-> "ACTIVE", mail |-> e, inv |-> i]]
          /\ invitation' = [invitation EXCEPT ![i] = "REDEEMED"]
          /\ enrolled' = [enrolled EXCEPT ![i] = @ + 1]
          /\ OpenSession(s, u)
          /\ Consume(w)
     ELSE /\ clashed' = TRUE
          /\ Finish(w)
          /\ UNCHANGED <<rows, enrolled, spent, guesses>>

-----------------------------------------------------------------------------
(* Closing an account.                                                     *)

\* close_account locks the user row first, then the challenge.
CloseAccount(w) ==
  LET u == task[w].user IN
  /\ task[w].pc = "admitted"
  /\ Free(w, u)
  /\ IF Exists(u) THEN LockUser(w, u) /\ task' = [task EXCEPT ![w].pc = "closing"]
     ELSE task' = [task EXCEPT ![w] = Idle] /\ UNCHANGED lock
  /\ UNCHANGED <<rows, history>>

ReadClosureCode(w, c) ==
  LET u == task[w].user IN
  /\ task[w].pc = "closing"
  /\ Usable(c) /\ challenge[c].mode = "closure" /\ Free(w, c)
  /\ challenge[c].user = u /\ challenge[c].mail = account[u].mail
  /\ LockCode(w, c)
  /\ task' = [task EXCEPT ![w].pc = "code", ![w].code = c,
                          ![w].mail = account[u].mail,
                          ![w].seen = challenge[c].attempts]
  /\ UNCHANGED <<rows, history>>

\* A code that is not usable, or ACTIVE_TRIP_IN_PROGRESS.
RefuseClosure(w) ==
  /\ \/ task[w].pc = "closing"
     \/ task[w].pc = "code" /\ task[w].mode = "closure"
  /\ Finish(w)
  /\ UNCHANGED <<rows, history>>

\* What a closure deletes: the codes of the user, and those sent to its address.
CodesOf(u) ==
  {c \in Challenges : Stored(c) /\ (challenge[c].user = u \/ challenge[c].mail = account[u].mail)}

\* A right code: sessions, codes, identity and redemption are deleted, then
\* the user; the invitation stays redeemed.
EraseAccount(w) ==
  LET u == task[w].user IN
  /\ task[w].pc = "code" /\ task[w].mode = "closure"
  /\ \A c \in CodesOf(u) : Free(w, c)
  /\ account' = [account EXCEPT ![u] = [NoAccount EXCEPT !.status = "CLOSED"]]
  /\ challenge' = [c \in Challenges |->
                     IF c \in CodesOf(u) THEN NoChallenge ELSE challenge[c]]
  /\ session' = [s \in Sessions |-> IF session[s] = u THEN Nobody ELSE session[s]]
  /\ spent' = [c \in Challenges |-> IF c \in CodesOf(u) THEN 0 ELSE spent[c]]
  /\ guesses' = [c \in Challenges |-> IF c \in CodesOf(u) THEN 0 ELSE guesses[c]]
  /\ Finish(w)
  /\ UNCHANGED <<invitation, clashed, enrolled>>

-----------------------------------------------------------------------------
(* Everybody else.                                                         *)

\* Logout, or the expiry of a session.
EndSession(s) ==
  /\ Live(s)
  /\ session' = [session EXCEPT ![s] = Nobody]
  /\ UNCHANGED <<account, invitation, challenge, lock, task, history>>

\* mutate_user, DISABLE_USER: every session of the user ends with it.
DisableUser(u) ==
  /\ account[u].status = "ACTIVE" /\ lock[u] = Nobody
  /\ account' = [account EXCEPT ![u].status = "DISABLED"]
  /\ session' = [s \in Sessions |-> IF session[s] = u THEN Nobody ELSE session[s]]
  /\ UNCHANGED <<invitation, challenge, lock, task, history>>

\* mutate_user, RESTORE_USER.
RestoreUser(u) ==
  /\ account[u].status = "DISABLED" /\ lock[u] = Nobody
  /\ account' = [account EXCEPT ![u].status = "ACTIVE"]
  /\ UNCHANGED <<invitation, challenge, session, lock, task, history>>

\* The cooldown passes.
Tick ==
  /\ \E c \in Challenges : challenge[c].recent
  /\ challenge' = [c \in Challenges |-> [challenge[c] EXCEPT !.recent = FALSE]]
  /\ UNCHANGED <<account, invitation, session, lock, task, history>>

\* The process dies, the client goes away, or the database fails.
Crash(w) ==
  /\ task[w].pc # "idle"
  /\ Finish(w)
  /\ UNCHANGED <<rows, history>>

-----------------------------------------------------------------------------
(* Waiting for each other.                                                 *)

\* The locks the next step of w needs.
Wants(w) ==
  CASE task[w].pc = "code" /\ task[w].mode = "closure" -> CodesOf(task[w].user)
    [] task[w].pc = "code" /\ task[w].mode # "closure" -> {task[w].mail}
    [] task[w].pc \in {"login", "admitted"} -> {task[w].user}
    [] task[w].pc = "register" -> {task[w].inv}
    [] OTHER -> {}
WaitsFor(w) == {lock[x] : x \in Wants(w)} \ {w, Nobody}

\* Every member waits for a member and is waited for by a member.
Knot(S) ==
  /\ S # {}
  /\ \A w \in S : /\ WaitsFor(w) \cap S # {}
                  /\ \E v \in S : w \in WaitsFor(v)

\* PostgreSQL rolls one of the waiting transactions back.
DeadlockVictim(w) ==
  /\ \E S \in SUBSET Workers : w \in S /\ Knot(S)
  /\ Finish(w)
  /\ UNCHANGED <<rows, history>>

Step(w) ==
  \/ RequestClosureCode(w)
  \/ \E c \in Challenges : InsertChallenge(w, c)
  \/ \E delivered \in BOOLEAN : MarkDelivery(w, delivered)
  \/ WrongCode(w) \/ RightCode(w)
  \/ LogIn(w) \/ (\E s \in Sessions : CommitLogin(w, s))
  \/ Register(w)
  \/ \E u \in Users, s \in Sessions : CommitRegistration(w, u, s)
  \/ CloseAccount(w) \/ (\E c \in Challenges : ReadClosureCode(w, c))
  \/ RefuseClosure(w) \/ EraseAccount(w)
  \/ DeadlockVictim(w)

Arrive(w) ==
  \/ \E mode \in {"login", "register"}, e \in Emails, i \in Invitations \cup {Nobody} :
       RequestCode(w, mode, e, i)
  \/ \E s \in Sessions : Admit(w, s)
  \/ \E c \in Challenges : ReadCode(w, c)

Next ==
  \/ \E w \in Workers : Arrive(w) \/ Step(w) \/ Crash(w)
  \/ \E s \in Sessions : EndSession(s)
  \/ \E u \in Users : DisableUser(u) \/ RestoreUser(u)
  \/ Tick

Spec == Init /\ [][Next]_vars

-----------------------------------------------------------------------------
(* Properties.                                                             *)

\* An invitation opens one account at most, whatever is closed in between.
InvitationOpensOneAccount == \A i \in Invitations : enrolled[i] <= 1

\* The locks, not the unique constraints, decide between two registrations:
\* the loser is told LOGIN_REQUIRED or INVITATION_INVALID.
RegistrationsNeverClash == ~clashed

\* A code is consumed once, so it opens one session at most.
CodeSpentOnce == \A c \in Challenges : spent[c] <= 1

\* No more wrong codes are compared with a challenge than it allows.
GuessesAreBounded == \A c \in Challenges : guesses[c] <= MaxAttempts

\* A live session belongs to an active account: a disablement or a closure
\* never misses a session that a login is about to open.
LiveSessionsAreActive == \A s \in Sessions : Live(s) => account[session[s]].status = "ACTIVE"

\* No session of a closed account, and no challenge that refers to it, is left or
\* comes back with a request that was under way. (The challenge of a login has the
\* address and no user; nothing is said of it.)
ClosedLeavesNothing ==
  \A u \in Users : account[u].status = "CLOSED" =>
    /\ \A s \in Sessions : session[s] # u
    /\ \A c \in Challenges : challenge[c].user # u
=============================================================================
