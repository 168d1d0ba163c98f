------------------------------- MODULE Accounts -------------------------------
(***************************************************************************)
(* The requests about accounts together: the administrators' console, the  *)
(* display names, and the closure that erases a user from all of them      *)
(* (src/account/closure.py; SignIn has its code, TripQuota its trips).     *)
(***************************************************************************)
EXTENDS AdminConsole, DisplayNames

\* Keys are finitely many (an actor's hash and a UUID), grants are positive
\* (ck_quota_grant_positive_units), and a request names what it is about.
ASSUME AccountsAssumption ==
  /\ IsFiniteSet(Keys) /\ Grant \in Nat
  /\ Owner \in Users
  /\ Nobody \notin Users \cup Keys \cup Batches \cup Names \cup Workers
  /\ Keys \cap Workers = {} /\ Users \cap Batches = {}
  /\ \A r \in Requests :
       /\ r.by \in Users /\ r.delta \in Int
       /\ r.action \in Writes => r.key \in Keys
       /\ r.action \in UserActions \cup {"QUOTA_ADJUST", "REVEAL_USER_EMAIL"} => r.on \in Users
       /\ r.action = "QUOTA_REVERSE" => r.on \in Keys
       /\ r.action \in BatchActions \cup {"CREATE_INVITATION_BATCH", "LOOKUP_INVITATION_CODE",
                                         "REVEAL_INVITATION_BATCH_CODES"} => r.on \in Batches
       /\ r.action = "RENAME" => r.name \in Names

\* Users who are not registered yet, and users who are, signed in.
Registered == {r \in Accounts : r.status = "ACTIVE" /\ r.name # Nobody /\ r.session /\ ~r.cooling}

Init ==
  /\ account \in [Users -> {NoAccount} \cup Registered]
  /\ \A u, v \in Users : account[u].name = account[v].name => u = v \/ account[u].name = Nobody
  /\ claim = [k \in Keys |-> NoClaim]
  /\ ledger = [k \in Keys |-> NoEntry]
  /\ spent = [u \in Users |-> 0]
  /\ batch \in [Batches -> {NoBatch, [NoBatch EXCEPT !.made = TRUE]}]
  /\ quarantine = {}
  /\ trace = [x \in Keys \cup Workers |-> NoTrace]
  /\ lock = [x \in Lockable |-> Nobody]
  /\ request \in [Workers -> Requests]
  /\ task = [w \in Workers |-> Idle]
  /\ logged = [u \in Users |-> [status |-> "ACTIVE", role |-> account[u].role]]
  /\ booted = (account[Owner].role = "ADMIN")
  /\ effects = [k \in Keys |-> 0]
  /\ told = [k \in Keys |-> [said |-> {}, disclosed |-> 0]]

TypeOK ==
  /\ account \in [Users -> Accounts]
  /\ claim \in [Keys -> Claims]
  /\ ledger \in [Keys -> Entries]
  /\ spent \in [Users -> Nat]
  /\ batch \in [Batches -> BatchRows]
  /\ quarantine \in SUBSET Names
  /\ trace \in [Keys \cup Workers -> Traces]
  /\ lock \in [Lockable -> Optional(Workers)]
  /\ request \in [Workers -> Requests]
  /\ task \in [Workers -> Tasks]
  /\ logged \in [Users -> [status : Statuses, role : Roles]]
  /\ booted \in BOOLEAN
  /\ effects \in [Keys -> Nat]
  /\ told \in [Keys -> Answers]

-----------------------------------------------------------------------------
(* Closing an account.                                                     *)

AdmitClosure(w) ==
  /\ task[w].pc = "idle"
  /\ request[w].action = "CLOSE"
  /\ Authenticated(request[w].by)
  /\ GoOn(w, "admitted")
  /\ UNCHANGED <<rows, lock, request, history>>

\* The row, read again under its lock.  Fault: what get_current_auth read is
\* trusted.
StillThereAsRead(u) == TRUE
StillThere(u) == Exists(u)

\* close_account erases the user as the actor of claims, as the target of
\* adjustments, and as either of audit rows; what a claim answers stays, and so
\* does the URL of a denial.
ErasedFromLedger(u) ==
  ledger' = [k \in Keys |-> IF ledger[k].target = u
                            THEN [ledger[k] EXCEPT !.target = Nobody] ELSE ledger[k]]

Erased(r, u) == [actor  |-> IF r.actor = u THEN Nobody ELSE r.actor,
                 target |-> IF r.target = u THEN Nobody ELSE r.target,
                 path   |-> r.path]

\* The append-only triggers: the closure may erase, and change nothing else.
ErasableEntry(old, new) ==
  new.target \in {Nobody, old.target} /\ [new EXCEPT !.target = old.target] = old
ErasableTrace(old, new) ==
  /\ new.actor \in {Nobody, old.actor} /\ new.target \in {Nobody, old.target}
  /\ new.path = old.path

\* Under the lock of the user row, whatever its status has become.
CloseAccount(w) ==
  LET u == request[w].by IN
  /\ task[w].pc = "admitted" /\ request[w].action = "CLOSE"
  /\ Free(w, u)
  /\ IF StillThere(u)
     THEN /\ account' = [account EXCEPT ![u] = [NoAccount EXCEPT !.status = "CLOSED"]]
          /\ quarantine' = Quarantined(account[u].name)
          /\ trace' = [x \in Keys \cup Workers |-> Erased(trace[x], u)]
          /\ \A x \in Keys \cup Workers : ErasableTrace(trace[x], Erased(trace[x], u))
          /\ ErasedFromLedger(u)
          /\ \A k \in Keys : ErasableEntry(ledger[k], ledger'[k])
          /\ logged' = [logged EXCEPT ![u] = [status |-> "CLOSED", role |-> "USER"]]
     ELSE UNCHANGED <<account, quarantine, trace, ledger, logged>>
  /\ Finish(w)
  /\ UNCHANGED <<claim, spent, batch, booted, request, history>>

\* The process dies, the client goes away, the closure code is refused.
Crash(w) ==
  /\ task[w].pc # "idle"
  /\ Finish(w)
  /\ UNCHANGED <<rows, request, history>>

Next ==
  \/ \E w \in Workers :
       ConsoleStep(w) \/ NamesStep(w) \/ AdmitClosure(w) \/ CloseAccount(w) \/ Crash(w)
  \/ \E u \in Users : Spend(u) \/ OpenSession(u) \/ EndCooldown(u)
  \/ \E n \in Names : EndQuarantine(n)
  \/ \E b \in Batches : RedeemCode(b)
  \/ BootstrapOwner

Spec == Init /\ [][Next]_vars

-----------------------------------------------------------------------------
(* Properties.                                                             *)

\* Whatever is sent again, at once or later: a key applies once, every success
\* under it says the same of its target, raw codes are disclosed once (the first
\* answer of create_batch has them, a replay does not), and an adjustment is
\* reversed once.
KeyAppliesOnce ==
  \A k \in Keys :
    /\ effects[k] <= 1
    /\ Cardinality(told[k].said) <= 1 /\ told[k].disclosed <= 1
    /\ Cardinality({j \in Keys : ledger[j].reverses = k}) <= 1

\* The last audit row about a user tells the status and role it has.
AuditTellsTheTruth ==
  \A u \in Users : Exists(u) =>
    account[u].status = logged[u].status /\ account[u].role = logged[u].role

\* Adjustments and trips together never use more than was granted.
BalanceNeverNegative == \A u \in Users : Exists(u) => Balance(u) >= 0

\* Neither the adjustment nor the audit row written under a key names a closed
\* account as its target, however the write and the closure overlap.  The stored
\* answer of the key does: close_account leaves response_json as it is.
ClosedTargetIsForgotten ==
  \A u \in Users, k \in Keys :
    account[u].status = "CLOSED" => ledger[k].target # u /\ trace[k].target # u

\* An administrator who is not the owner changes only ordinary users.
AdminsTouchOnlyUsers ==
  [][\A w \in Workers :
       task[w].who = "ADMIN" /\ (MutateUser(w) \/ AdjustQuota(w))
         => /\ account[task[w].target].role = "USER"
            /\ task[w].target \notin {Owner, request[w].by}]_vars

\* A rename never hands over a name that was somebody's, or in quarantine,
\* when the request began.
NamesAreNotInherited ==
  [][\A w \in Workers, u \in Users :
       Rename(w) /\ request[w].by = u /\ account'[u].name # account[u].name
         => ~task[w].barred]_vars

\* While a user is disabled the name stays: restoring gives it back.
DisabledKeepsName ==
  [][\A u \in Users :
       account[u].status = "DISABLED" /\ account'[u].status \in {"ACTIVE", "DISABLED"}
         => account'[u].name = account[u].name]_vars

\* docs/database-and-quota.md:253: the actor of a claim is null after its
\* identity was erased.  A write in flight commits the actor it read before.
ErasedActorIsForgotten ==
  \A u \in Users, k \in Keys :
    account[u].status = "CLOSED" => trace[k].actor # u
=============================================================================
