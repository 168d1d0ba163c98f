----------------------------- MODULE DisplayNames -----------------------------
(***************************************************************************)
(* Display names: the default name of a new user, renaming, and the        *)
(* quarantine of a name its user gave up (src/profile/service.py,          *)
(* display_names.py, router.py, migration 0009).  A name is known by its   *)
(* uniqueness key; a request for a name that is malformed or reserved is   *)
(* refused before it reads anything and is left out.                       *)
(***************************************************************************)
EXTENDS AccountRows

Others == <<claim, ledger, spent, batch, trace, logged, booted>>

-----------------------------------------------------------------------------
(* Renaming.                                                               *)

\* update_profile.  barred: history, whether the name was somebody else's or
\* in quarantine when the request began.
AdmitRename(w) ==
  LET r == request[w] IN
  /\ task[w].pc = "idle"
  /\ r.action = "RENAME"
  /\ Authenticated(r.by)
  /\ task' = [task EXCEPT ![w].pc = "self", ![w].name = r.name,
                ![w].barred = /\ r.name # account[r.by].name
                              /\ Held(r.name) \/ r.name \in quarantine]
  /\ UNCHANGED <<rows, lock, request, history>>

\* The row of the user is locked.  Fault: without FOR UPDATE.
LockSelfForgotten(w, u) == UNCHANGED lock
LockSelf(w, u) == lock' = [lock EXCEPT ![u] = w]

\* AUTH_REQUIRED, DISPLAY_NAME_CHANGE_COOLDOWN, or the name it has already;
\* for another presentation of the same name nothing needs to be looked up.
ReadSelf(w) ==
  LET u == request[w].by
      n == task[w].name IN
  /\ task[w].pc = "self"
  /\ Free(w, u)
  /\ \/ /\ account[u].status # "ACTIVE" \/ account[u].cooling \/ account[u].name = n
        /\ Finish(w)
     \/ /\ account[u].status = "ACTIVE" /\ ~account[u].cooling
        /\ LockSelf(w, u)
        /\ GoOn(w, IF account[u].name = n THEN "looked" ELSE "looking")
  /\ UNCHANGED <<rows, request, history>>

\* The two SELECTs, in their order.  Fault: the quarantine first.
QuarantineFirst(look, n) == IF look = 1 THEN n \notin quarantine ELSE ~Held(n)
Available(look, n) == IF look = 1 THEN ~Held(n) ELSE n \notin quarantine

\* quarantine_former_name: an upsert.
Quarantined(n) == quarantine \cup {n}

\* Nobody has the name ...
LookForOwner(w) ==
  /\ task[w].pc = "looking"
  /\ IF Available(1, task[w].name)
     THEN GoOn(w, "looked") /\ UNCHANGED lock
     ELSE Finish(w)                         \* DISPLAY_NAME_UNAVAILABLE
  /\ UNCHANGED <<rows, request, history>>

\* PostgreSQL is the last authority on who has a name.
Unclaimed(n, u) == \A v \in Users \ {u} : account[v].name # n

\* ... nor is it in quarantine: the former name goes there, and the new one is
\* written, unless the unique constraint refuses it.
Rename(w) ==
  LET u == request[w].by
      n == task[w].name
      former == account[u].name IN
  /\ task[w].pc = "looked"
  /\ IF (n = former \/ Available(2, n)) /\ Unclaimed(n, u)
     THEN /\ account' = [account EXCEPT ![u].name = n, ![u].cooling = TRUE]
          /\ quarantine' = IF n = former THEN quarantine
                           ELSE Quarantined(former)
     ELSE UNCHANGED <<account, quarantine>>
  /\ Finish(w)
  /\ UNCHANGED <<Others, request, history>>

\* RENAME_COOLDOWN_DAYS pass; a request judges it by the time it began.
EndCooldown(u) ==
  /\ account[u].cooling
  /\ \A w \in Workers : request[w].by = u => task[w].pc = "idle"
  /\ account' = [account EXCEPT ![u].cooling = FALSE]
  /\ UNCHANGED <<Others, quarantine, lock, request, task, history>>

\* FORMER_NAME_QUARANTINE_DAYS pass; requests are short beside them.
EndQuarantine(n) ==
  /\ n \in quarantine
  /\ \A w \in Workers : task[w].name # n
  /\ quarantine' = quarantine \ {n}
  /\ UNCHANGED <<account, Others, lock, request, task, history>>

-----------------------------------------------------------------------------
(* The default name.                                                       *)

\* create_user_with_default_display_name: one statement looks at names and
\* quarantine together.  The unit of quota and the session come with the user.
PickDefault(w, n) ==
  /\ \/ task[w].pc = "idle" /\ request[w].action = "REGISTER"
     \/ task[w].pc = "pick"
  /\ account[request[w].by].status = "ABSENT"
  /\ ~Held(n) /\ n \notin quarantine
  /\ task' = [task EXCEPT ![w].pc = "insert", ![w].name = n]
  /\ UNCHANGED <<rows, lock, request, history>>

\* The insert; where the unique constraint refuses the name, another is tried.
CreateUser(w) ==
  LET u == request[w].by
      n == task[w].name IN
  /\ task[w].pc = "insert"
  /\ IF account[u].status = "ABSENT" /\ Unclaimed(n, u)
     THEN /\ account' = [account EXCEPT ![u] = [NoAccount EXCEPT !.status = "ACTIVE",
                                                  !.name = n, !.session = TRUE]]
          /\ Finish(w)
     ELSE /\ task' = [task EXCEPT ![w].pc = "pick", ![w].name = Nobody]
          /\ UNCHANGED <<account, lock>>
  /\ UNCHANGED <<Others, quarantine, request, history>>

NamesStep(w) ==
  \/ AdmitRename(w) \/ ReadSelf(w) \/ LookForOwner(w) \/ Rename(w)
  \/ (\E n \in Names : PickDefault(w, n)) \/ CreateUser(w)
=============================================================================
