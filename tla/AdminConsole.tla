----------------------------- MODULE AdminConsole -----------------------------
(***************************************************************************)
(* What administrators do to users, quotas and invitations, once per       *)
(* idempotency key (src/admin/router.py, service.py, idempotency.py,       *)
(* invitations.py, bootstrap.py, auth.py, audit.py, src/api/errors.py).    *)
(*                                                                         *)
(* A write reads its actor, then claims its key, locks its target, and     *)
(* writes target, ledger, audit and claim in one commit.                   *)
(***************************************************************************)
EXTENDS AccountRows

UserActions  == {"DISABLE_USER", "RESTORE_USER", "GRANT_ADMIN", "REVOKE_ADMIN"}
QuotaActions == {"QUOTA_ADJUST", "QUOTA_REVERSE"}
BatchActions == {"DISABLE_INVITATION_BATCH", "DISABLE_INVITATION_CODE"}
Writes  == UserActions \cup QuotaActions \cup BatchActions \cup {"CREATE_INVITATION_BATCH"}
Reveals == {"REVEAL_USER_EMAIL", "REVEAL_INVITATION_BATCH_CODES", "LOOKUP_INVITATION_CODE"}

-----------------------------------------------------------------------------
(* Who asks.                                                               *)

\* resolve_admin_context: the configured owner, whatever its role.
Identity(u) == IF u = Owner THEN "OWNER" ELSE account[u].role

\* get_current_admin; others are refused, with an audit row of the refusal.
AdmitAdmin(w) ==
  LET r == request[w] IN
  /\ task[w].pc = "idle"
  /\ r.action \in Writes \cup Reveals
  /\ Authenticated(r.by)
  /\ task' = [task EXCEPT ![w].who = Identity(r.by),
                          ![w].pc = IF Identity(r.by) = "USER" THEN "refused"
                                    ELSE IF r.action = "QUOTA_REVERSE" THEN "lookup"
                                    ELSE IF r.action \in Writes THEN "claim" ELSE "admitted",
                          ![w].target = IF r.on \in Users THEN r.on ELSE Nobody,
                          ![w].delta = r.delta]
  /\ UNCHANGED <<rows, lock, request, history>>

\* A transaction of its own, after the refusal.  get_current_admin writes the URL
\* that a user asked for, audit_admin_failure the template of the route.
RecordRefusal(w) ==
  /\ task[w].pc = "refused"
  /\ trace' = [trace EXCEPT ![w] =
       [actor |-> request[w].by, target |-> Nobody,
        path |-> IF task[w].who = "USER" THEN task[w].target ELSE Nobody]]
  /\ Finish(w)
  /\ UNCHANGED <<account, claim, ledger, spent, batch, quarantine, logged, booted,
                 request, history>>

\* An AdminOperationError: the transaction is rolled back, its claim too.
Refuse(w) ==
  /\ lock' = Released(w)
  /\ GoOn(w, "refused")
  /\ UNCHANGED <<rows, request, history>>

-----------------------------------------------------------------------------
(* The key.                                                                *)

\* claim_admin_idempotency.  The insert waits for a transaction that has the
\* key uncommitted; the row is then read and locked.
\* Fault: an uncommitted key is no obstacle.
KeyIgnored(w, k) == TRUE
KeyFree(w, k) == Free(w, k)

Answer(k, answer, codes) ==
  told' = [told EXCEPT ![k] = [said |-> @.said \cup {answer},
                               disclosed |-> @.disclosed + (IF codes THEN 1 ELSE 0)]]

ClaimKey(w) ==
  LET k == request[w].key IN
  /\ task[w].pc = "claim"
  /\ KeyFree(w, k)
  /\ CASE ~claim[k].made ->
            /\ lock' = [lock EXCEPT ![k] = w]
            /\ GoOn(w, "target")
            /\ UNCHANGED <<rows, request, history>>
       [] claim[k].made /\ claim[k].asks # request[w] -> Refuse(w)  \* IDEMPOTENCY_CONFLICT
       [] claim[k].made /\ claim[k].asks = request[w] ->            \* replay
            /\ Answer(k, claim[k].answer, claim[k].codes)
            /\ Finish(w)
            /\ UNCHANGED <<rows, request, effects>>

\* What is stored of an answer, which may disclose raw codes: never the codes.
\* Fault: the answer is stored as it is given.
StoredAsGiven(codes) == codes
Stored(codes) == FALSE

\* complete_admin_idempotency, the audit row and the commit: the claim is made,
\* and the records name the actor and, if it is a user, the target.
Complete(w, answer, codes) ==
  LET k == request[w].key IN
  /\ claim' = [claim EXCEPT ![k] = [made |-> TRUE, asks |-> request[w], answer |-> answer,
                                    codes |-> Stored(codes)]]
  /\ trace' = [trace EXCEPT ![k] = [actor |-> request[w].by, target |-> task[w].target,
                                    path |-> Nobody]]
  /\ effects' = [effects EXCEPT ![k] = @ + 1]
  /\ Answer(k, answer, codes)
  /\ Finish(w)
  /\ UNCHANGED <<spent, quarantine, booted, request>>

-----------------------------------------------------------------------------
(* Users and quotas.                                                       *)

\* reverse_quota_adjustment looks the adjustment and its target up, unlocked.
LookUpAdjustment(w) ==
  LET e == ledger[request[w].on] IN
  /\ task[w].pc = "lookup"
  /\ IF e.made /\ e.target # Nobody /\ Exists(e.target)
     THEN /\ task' = [task EXCEPT ![w].pc = "claim", ![w].target = e.target,
                                  ![w].delta = -e.delta]
          /\ UNCHANGED <<rows, lock, request, history>>
     ELSE Refuse(w)

\* assert_target_allowed.
Allowed(w) ==
  LET r == request[w]
      u == task[w].target IN
  /\ r.action \in {"GRANT_ADMIN", "REVOKE_ADMIN"} => task[w].who = "OWNER"
  /\ IF task[w].who = "OWNER" THEN ~(r.action = "DISABLE_USER" /\ u = Owner)
     ELSE u # r.by /\ account[u].role # "ADMIN" /\ u # Owner

Reversed(k) == \E j \in Keys : ledger[j].reverses = k

\* The balance, and for a reversal the original and whether it is reversed.
Adjustable(w) ==
  LET r == request[w]
      u == task[w].target IN
  /\ Remaining(u) + task[w].delta >= 0
  /\ r.action = "QUOTA_REVERSE" => ledger[r.on].target = u /\ ~Reversed(r.on)

\* find_user_by_public_id with for_update.  Fault: without.
LockTargetForgotten(w, x) == UNCHANGED lock
LockTarget(w, x) == lock' = [lock EXCEPT ![x] = w]

LockUserTarget(w) ==
  LET u == task[w].target IN
  /\ task[w].pc = "target" /\ request[w].action \in UserActions \cup QuotaActions
  /\ Free(w, u)
  /\ IF /\ Exists(u)
        /\ Allowed(w)
        /\ request[w].action \in QuotaActions => Adjustable(w)
     THEN /\ LockTarget(w, u)
          /\ task' = [task EXCEPT ![w].pc = "apply", ![w].seen = View(u)]
          /\ UNCHANGED <<rows, request, history>>
     ELSE Refuse(w)

\* The row the transaction read, as it will write it.
Mutated(v, action) ==
  [v EXCEPT !.status = CASE action = "DISABLE_USER" -> "DISABLED"
                         [] action = "RESTORE_USER" -> "ACTIVE" [] OTHER -> @,
            !.role = CASE action = "GRANT_ADMIN" -> "ADMIN"
                       [] action = "REVOKE_ADMIN" -> "USER" [] OTHER -> @]

\* mutate_user.  Only the column that changes is written; every session ends
\* unless the action restores the account.
MutateUser(w) ==
  LET u == task[w].target
      action == request[w].action
      after == Mutated(task[w].seen, action) IN
  /\ task[w].pc = "apply" /\ action \in UserActions
  /\ account' = [account EXCEPT
       ![u].status = IF after.status = task[w].seen.status THEN @ ELSE after.status,
       ![u].role = IF after.role = task[w].seen.role THEN @ ELSE after.role,
       ![u].session = @ /\ action = "RESTORE_USER"]
  /\ logged' = [logged EXCEPT ![u] = [status |-> after.status, role |-> after.role]]
  /\ Complete(w, after, FALSE)
  /\ UNCHANGED <<ledger, batch>>

\* create_quota_adjustment.  The unique constraint on reverses_adjustment_id
\* would roll a second reversal back.
AdjustQuota(w) ==
  LET r == request[w]
      after == [task[w].seen EXCEPT !.left = @ + task[w].delta] IN
  /\ task[w].pc = "apply" /\ r.action \in QuotaActions
  /\ r.action = "QUOTA_REVERSE" => ~Reversed(r.on)
  /\ ledger' = [ledger EXCEPT ![r.key] =
                  [made |-> TRUE, target |-> task[w].target, delta |-> task[w].delta,
                   after |-> after.left,
                   reverses |-> IF r.action = "QUOTA_REVERSE" THEN r.on ELSE Nobody]]
  /\ Complete(w, after, FALSE)
  /\ UNCHANGED <<account, batch, logged>>

-----------------------------------------------------------------------------
(* Invitations, and reading what is secret.                                *)

\* create_batch: the first answer discloses the codes, a replay does not.
CreateBatch(w) ==
  LET b == request[w].on IN
  /\ task[w].pc = "target" /\ request[w].action = "CREATE_INVITATION_BATCH"
  /\ ~batch[b].made
  /\ batch' = [batch EXCEPT ![b].made = TRUE]
  /\ Complete(w, NoView, TRUE)
  /\ UNCHANGED <<account, ledger, logged>>

\* disable_invitation_resource locks the batch and its codes, or one code.
LockInvitations(w) ==
  LET b == request[w].on IN
  /\ task[w].pc = "target" /\ request[w].action \in BatchActions
  /\ Free(w, b)
  /\ IF batch[b].made
     THEN LockTarget(w, b) /\ GoOn(w, "apply") /\ UNCHANGED <<rows, request, history>>
     ELSE Refuse(w)

\* A redeemed code stays as it is.
DisableInvitations(w) ==
  LET b == request[w].on IN
  /\ task[w].pc = "apply" /\ request[w].action \in BatchActions
  /\ batch' = [batch EXCEPT
       ![b].disabled = @ \/ request[w].action = "DISABLE_INVITATION_BATCH",
       ![b].code = IF @ = "REDEEMED" THEN @ ELSE "DISABLED"]
  /\ Complete(w, NoView, FALSE)
  /\ UNCHANGED <<account, ledger, logged>>

\* A registration redeems the code (SignIn has the details).
RedeemCode(b) ==
  /\ batch[b].made /\ batch[b].code = "ACTIVE" /\ lock[b] = Nobody
  /\ batch' = [batch EXCEPT ![b].code = "REDEEMED"]
  /\ UNCHANGED <<account, claim, ledger, spent, quarantine, trace, lock, request, task,
                 logged, booted, history>>

\* admin_user_email and invitation_batch_plaintext_codes read without a lock ...
LookUpRevealed(w) ==
  LET r == request[w] IN
  /\ task[w].pc = "admitted" /\ r.action \in Reveals \ {"LOOKUP_INVITATION_CODE"}
  /\ IF r.action = "REVEAL_USER_EMAIL" /\ ~Exists(r.on)
     THEN Finish(w)                                        \* ADMIN_RESOURCE_NOT_FOUND
     ELSE GoOn(w, "revealed") /\ UNCHANGED lock
  /\ UNCHANGED <<rows, request, history>>

\* ... as does lookup_code, which refuses an unknown code ...
LookUpCode(w) ==
  /\ task[w].pc = "admitted" /\ request[w].action = "LOOKUP_INVITATION_CODE"
  /\ IF batch[request[w].on].made
     THEN GoOn(w, "revealed") /\ UNCHANGED <<rows, lock, request, history>>
     ELSE Refuse(w)

\* ... and leave an audit row, of a refusal too (an unknown batch, not the owner).
Reveal(w) ==
  /\ task[w].pc = "revealed"
  /\ trace' = [trace EXCEPT ![w] = [actor |-> request[w].by, target |-> task[w].target,
                                    path |-> Nobody]]
  /\ Finish(w)
  /\ UNCHANGED <<account, claim, ledger, spent, batch, quarantine, logged, booted,
                 request, history>>

-----------------------------------------------------------------------------
(* Beside the console.                                                     *)

\* bootstrap_configured_owner: once, for an active owner.
BootstrapOwner ==
  /\ account[Owner].status = "ACTIVE" /\ lock[Owner] = Nobody /\ ~booted
  /\ account' = [account EXCEPT ![Owner].role = "ADMIN", ![Owner].session = FALSE]
  /\ logged' = [logged EXCEPT ![Owner] = [status |-> "ACTIVE", role |-> "ADMIN"]]
  /\ booted' = TRUE
  /\ UNCHANGED <<claim, ledger, spent, batch, quarantine, trace, lock, request, task, history>>

\* A trip reserves a unit under the lock of its user (TripQuota has the details).
Spend(u) ==
  /\ account[u].status = "ACTIVE" /\ lock[u] = Nobody
  /\ Remaining(u) > 0
  /\ spent' = [spent EXCEPT ![u] = @ + 1]
  /\ UNCHANGED <<account, claim, ledger, batch, quarantine, trace, lock, request, task,
                 logged, booted, history>>

\* A login of an active user (SignIn has the details).
OpenSession(u) ==
  /\ account[u].status = "ACTIVE" /\ ~account[u].session /\ lock[u] = Nobody
  /\ account' = [account EXCEPT ![u].session = TRUE]
  /\ UNCHANGED <<claim, ledger, spent, batch, quarantine, trace, lock, request, task,
                 logged, booted, history>>

ConsoleStep(w) ==
  \/ AdmitAdmin(w) \/ RecordRefusal(w) \/ ClaimKey(w) \/ LookUpAdjustment(w)
  \/ LockUserTarget(w) \/ MutateUser(w) \/ AdjustQuota(w)
  \/ CreateBatch(w) \/ LockInvitations(w) \/ DisableInvitations(w)
  \/ LookUpRevealed(w) \/ LookUpCode(w) \/ Reveal(w)
=============================================================================
