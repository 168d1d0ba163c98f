---------------------------- MODULE SignInProofs ----------------------------
(***************************************************************************)
(* What TLAPS proves of SignIn, for any users, addresses, invitations,     *)
(* challenges, sessions, requests and limits: all that its run checks.     *)
(*                                                                         *)
(* The argument is about locks.  A request relies on what it read of a row *)
(* for as long as it holds the lock of the row (Holds), because no step of *)
(* anybody else writes a row it has not locked or found unlocked (Keeps);  *)
(* then every write finds the row as its request last read it, and the     *)
(* rows, the sessions and the histories stay in step (Rows).               *)
(***************************************************************************)
EXTENDS SignIn, TLAPS

\* The points at which a request has locked its challenge.
Verifying == {"code", "login", "open", "register", "enrol"}

\* What the locals of a request name.
Shape(w) ==
  LET k == task[w] IN
  /\ k.pc \in Verifying \cup {"mail"} => k.code \in Challenges
  /\ k.pc \in Verifying \cup {"insert"} => k.mail \in Emails
  /\ k.pc \in {"admitted", "closing", "login", "open"} => k.user \in Users
  /\ k.pc \in {"admitted", "closing"} => k.mode = "closure"
  /\ k.pc \in {"login", "open", "register", "enrol"} => k.mode # "closure"
  /\ k.pc = "code" => /\ k.seen < MaxAttempts
                      /\ k.mode = "closure" => k.user \in Users
  /\ k.pc \in {"insert", "code"} /\ k.mode = "register" => k.inv \in Invitations
  /\ k.pc \in {"register", "enrol"} => k.inv \in Invitations

\* What a request knows of the rows it has locked.
Holds(w) ==
  LET k == task[w] IN
  /\ k.pc \in Verifying => lock[k.code] = w /\ challenge[k.code].state = "SENT"
  /\ k.pc = "code" => k.seen = challenge[k.code].attempts
  /\ k.pc = "closing" \/ (k.pc = "code" /\ k.mode = "closure") => lock[k.user] = w
  /\ k.pc = "open" => lock[k.user] = w /\ account[k.user].status = "ACTIVE"
  /\ k.pc \in {"register", "enrol"} =>
       lock[k.mail] = w /\ \A u \in Users : account[u].mail # k.mail
  /\ k.pc = "enrol" => lock[k.inv] = w /\ invitation[k.inv] = "USABLE"

ChallengeFits(c) ==
  /\ ~Stored(c) => challenge[c].user = Nobody /\ challenge[c].attempts = 0
  /\ Stored(c) => challenge[c].mail \in Emails
  /\ challenge[c].mode = "register" => challenge[c].inv \in Invitations
  /\ challenge[c].user # Nobody => Exists(challenge[c].user)
  /\ spent[c] = IF challenge[c].state = "USED" THEN 1 ELSE 0
  /\ guesses[c] = challenge[c].attempts

InvitationFits(i) ==
  /\ enrolled[i] = IF invitation[i] = "REDEEMED" THEN 1 ELSE 0
  /\ \A u \in Users : account[u].inv = i => invitation[i] = "REDEEMED"

\* The rows and the histories agree.
Rows ==
  /\ \A c \in Challenges : ChallengeFits(c)
  /\ \A i \in Invitations : InvitationFits(i)
  /\ LiveSessionsAreActive
  /\ ~clashed

\* The inductive invariant.
IInv == TypeOK /\ (\A w \in Workers : Shape(w) /\ Holds(w)) /\ Rows

\* What a step of v, or of nobody in particular, leaves to the requests of
\* others: their locals, their locks, and what they know of locked rows.
Keeps(v) ==
  \A w \in Workers \ {v} :
    /\ task'[w] = task[w]
    /\ \A x \in Lockable : lock[x] = w => lock'[x] = w
    /\ \A c \in Challenges : lock[c] = w /\ challenge[c].state = "SENT" =>
         challenge'[c].state = "SENT" /\ challenge'[c].attempts = challenge[c].attempts
    /\ \A u \in Users : lock[u] = w /\ account[u].status = "ACTIVE" =>
         account'[u].status = "ACTIVE"
    /\ \A i \in Invitations : lock[i] = w => invitation'[i] = invitation[i]
    /\ \A e \in Emails : lock[e] = w /\ (\A u \in Users : account[u].mail # e) =>
         \A u \in Users : account'[u].mail # e

\* How a step of v moves the locks.
Moves(v) ==
  \/ lock' = lock
  \/ lock' = Released(v)
  \/ \E x \in Lockable : Free(v, x) /\ lock' = Taken(v, x)

-----------------------------------------------------------------------------
(* Frames.                                                                 *)

\* Locking and releasing leave the locks of everybody else alone.
LEMMA LocksKept ==
  ASSUME TypeOK, NEW v \in Workers, Moves(v)
  PROVE  /\ lock' \in [Lockable -> Workers \cup {Nobody}]
         /\ \A w \in Workers \ {v}, x \in Lockable : lock[x] = w => lock'[x] = w
<1>1. lock \in [Lockable -> Workers \cup {Nobody}] /\ Nobody \notin Workers
  BY SignInAssumption DEF TypeOK
<1>2. CASE lock' = lock
  BY <1>1, <1>2
<1>3. CASE lock' = Released(v)
  BY <1>1, <1>3 DEF Released
<1>4. CASE \E x \in Lockable : Free(v, x) /\ lock' = Taken(v, x)
  BY <1>1, <1>4 DEF Free, Taken
<1>5. QED
  BY <1>2, <1>3, <1>4 DEF Moves

\* An idle request names and holds nothing.
LEMMA IdleHolds ==
  ASSUME NEW v, task'[v] = Idle
  PROVE  Shape(v)' /\ Holds(v)'
BY DEF Shape, Holds, Idle, Verifying

LEMMA IdleIsTask == Idle \in Tasks
BY SignInAssumption DEF Idle, Tasks, Modes

\* A request that a step keeps knows what it knew.
LEMMA OthersHold ==
  ASSUME TypeOK, NEW v, Keeps(v), NEW w \in Workers \ {v}, Shape(w), Holds(w)
  PROVE  Shape(w)' /\ Holds(w)'
<1>1. task'[w] = task[w]
  BY DEF Keeps
<1>2. Shape(w)'
  BY <1>1 DEF Shape
<1>. DEFINE k == task[w]
<1>3. Users \cup Emails \cup Invitations \cup Challenges = Lockable
  BY DEF Lockable
<1>4. k.pc \in Verifying => /\ lock'[k.code] = w /\ challenge'[k.code].state = "SENT"
                            /\ challenge'[k.code].attempts = challenge[k.code].attempts
  BY <1>3 DEF Keeps, Shape, Holds
<1>5. k.pc = "closing" \/ (k.pc = "code" /\ k.mode = "closure") => lock'[k.user] = w
  BY <1>3 DEF Keeps, Shape, Holds
<1>6. k.pc = "open" => lock'[k.user] = w /\ account'[k.user].status = "ACTIVE"
  BY <1>3 DEF Keeps, Shape, Holds
<1>7. k.pc \in {"register", "enrol"} =>
        lock'[k.mail] = w /\ \A u \in Users : account'[u].mail # k.mail
  BY <1>3 DEF Keeps, Shape, Holds, Verifying
<1>8. k.pc = "enrol" => lock'[k.inv] = w /\ invitation'[k.inv] = "USABLE"
  BY <1>3 DEF Keeps, Shape, Holds
<1>9. k.pc = "code" => k.seen = challenge'[k.code].attempts
  BY <1>4 DEF Holds, Verifying
<1>10. Holds(w)'
  BY <1>1, <1>4, <1>5, <1>6, <1>7, <1>8, <1>9 DEF Holds
<1>11. QED
  BY <1>2, <1>10

\* A step preserves the invariant if it keeps the others, the types, the rows
\* and what its own request holds.
LEMMA Together ==
  ASSUME IInv, NEW v, Keeps(v), TypeOK', Rows',
         v \in Workers => Shape(v)' /\ Holds(v)'
  PROVE  IInv'
<1>1. ASSUME NEW w \in Workers PROVE Shape(w)' /\ Holds(w)'
  <2>1. CASE w = v
    BY <2>1
  <2>2. CASE w # v
    BY <2>2, OthersHold DEF IInv
  <2>3. QED
    BY <2>1, <2>2
<1>2. QED
  BY <1>1 DEF IInv

\* What only reads the rows, and moves its own locks and locals.
LEMMA Reading ==
  ASSUME IInv, NEW v \in Workers, NEW k \in Tasks, Moves(v),
         task' = [task EXCEPT ![v] = k], UNCHANGED <<rows, history>>,
         Shape(v)', Holds(v)'
  PROVE  IInv'
<1>. USE DEF rows, history
<1>1. TypeOK /\ Rows /\ task \in [Workers -> Tasks]
  BY DEF IInv, TypeOK
<1>2. TypeOK'
  BY <1>1, LocksKept DEF TypeOK
<1>3. Rows'
  BY <1>1 DEF Rows, ChallengeFits, InvitationFits, LiveSessionsAreActive, Live, Stored, Exists
<1>4. \A w \in Workers \ {v} : task'[w] = task[w]
  BY <1>1
<1>5. Keeps(v)
  BY <1>1, <1>4, LocksKept DEF Keeps
<1>6. QED
  BY <1>2, <1>3, <1>5, Together

\* A transaction that ends without a write.
LEMMA Ending ==
  ASSUME IInv, NEW v \in Workers, Finish(v), UNCHANGED <<rows, history>>
  PROVE  IInv'
<1>1. Moves(v) /\ task' = [task EXCEPT ![v] = Idle]
  BY DEF Finish, Moves
<1>2. task'[v] = Idle
  BY <1>1 DEF IInv, TypeOK
<1>3. Shape(v)' /\ Holds(v)'
  BY <1>2, IdleHolds
<1>4. QED
  BY <1>1, <1>3, IdleIsTask, Reading

-----------------------------------------------------------------------------
(* Requests that arrive, look and lock.                                    *)

LEMMA RequestCodeStep ==
  ASSUME IInv, NEW w \in Workers, NEW mode \in {"login", "register"}, NEW e \in Emails,
         NEW i \in Invitations \cup {Nobody}, RequestCode(w, mode, e, i)
  PROVE  IInv'
<1>. DEFINE k == [Idle EXCEPT !.pc = "insert", !.mode = mode, !.mail = e, !.inv = i]
<1>1. task' = [task EXCEPT ![w] = k] /\ UNCHANGED <<rows, lock, history>>
  BY DEF RequestCode
<1>2. k \in Tasks
  BY IdleIsTask DEF Tasks, Modes
<1>3. mode = "register" => i \in Invitations
  BY DEF RequestCode
<1>4. task'[w] = k
  BY <1>1 DEF IInv, TypeOK
<1>5. Shape(w)' /\ Holds(w)'
  BY <1>3, <1>4 DEF Shape, Holds, Verifying, Idle
<1>6. QED
  BY <1>1, <1>2, <1>5, Reading DEF Moves

LEMMA AdmitStep ==
  ASSUME IInv, NEW w \in Workers, NEW s \in Sessions, Admit(w, s)
  PROVE  IInv'
<1>. DEFINE k == [Idle EXCEPT !.pc = "admitted", !.mode = "closure", !.user = session[s]]
<1>1. task' = [task EXCEPT ![w] = k] /\ UNCHANGED <<rows, lock, history>>
  BY DEF Admit
<1>2. session[s] \in Users
  BY DEF Admit, Live, IInv, TypeOK
<1>3. k \in Tasks
  BY <1>2, IdleIsTask DEF Tasks, Modes
<1>4. task'[w] = k
  BY <1>1 DEF IInv, TypeOK
<1>5. Shape(w)' /\ Holds(w)'
  BY <1>2, <1>4 DEF Shape, Holds, Verifying, Idle
<1>6. QED
  BY <1>1, <1>3, <1>5, Reading DEF Moves

LEMMA RequestClosureCodeStep ==
  ASSUME IInv, NEW w \in Workers, RequestClosureCode(w)
  PROVE  IInv'
<1>. DEFINE u == task[w].user
            k == [task[w] EXCEPT !.pc = "insert", !.mail = account[u].mail]
<1>0. task \in [Workers -> Tasks] /\ task[w] \in Tasks /\ u \in Users /\ task[w].pc = "admitted"
  BY DEF RequestClosureCode, IInv, TypeOK, Shape
<1>1. UNCHANGED <<rows, lock, history>>
  BY DEF RequestClosureCode
<1>2. CASE task' = [task EXCEPT ![w] = Idle]
  <2>1. task'[w] = Idle
    BY <1>0, <1>2
  <2>2. QED
    BY <1>1, <1>2, <2>1, IdleHolds, IdleIsTask, Reading DEF Moves
<1>3. CASE account[u].mail # Nobody /\ task' = [task EXCEPT ![w].pc = "insert",
                                                            ![w].mail = account[u].mail]
  <2>1. account[u].mail \in Emails
    BY <1>0, <1>3 DEF IInv, TypeOK, Accounts
  <2>2. k \in Tasks
    BY <1>0, <2>1 DEF Tasks
  <2>3. task' = [task EXCEPT ![w] = k] /\ task'[w] = k
    BY <1>0, <1>3
  <2>4. task[w].mode = "closure"
    BY <1>0 DEF IInv, Shape
  <2>5. Shape(w)' /\ Holds(w)'
    BY <1>0, <2>1, <2>3, <2>4 DEF Shape, Holds, Verifying
  <2>6. QED
    BY <1>1, <2>2, <2>3, <2>5, Reading DEF Moves
<1>4. QED
  BY <1>2, <1>3 DEF RequestClosureCode

LEMMA ReadCodeStep ==
  ASSUME IInv, NEW w \in Workers, NEW c \in Challenges, ReadCode(w, c)
  PROVE  IInv'
<1>. DEFINE r == challenge[c]
            k == [Idle EXCEPT !.pc = "code", !.mode = r.mode, !.code = c,
                     !.mail = r.mail, !.inv = r.inv, !.seen = r.attempts]
<1>1. /\ task' = [task EXCEPT ![w] = k] /\ UNCHANGED <<rows, history>>
      /\ lock' = Taken(w, c) /\ Free(w, c)
  BY DEF ReadCode, LockCode
<1>2. /\ r \in ChallengeRows /\ r.state = "SENT" /\ r.attempts < MaxAttempts /\ r.mode # "closure"
      /\ r.mail \in Emails /\ (r.mode = "register" => r.inv \in Invitations)
  BY DEF ReadCode, Usable, IInv, TypeOK, Rows, ChallengeFits, Stored
<1>3. k \in Tasks
  BY <1>2, IdleIsTask DEF ChallengeRows, Tasks
<1>4. task'[w] = k /\ lock'[c] = w /\ challenge' = challenge
  BY <1>1 DEF IInv, TypeOK, Taken, Lockable, rows
<1>5. Shape(w)'
  BY <1>2, <1>4 DEF Shape, Verifying, Idle
<1>6. Holds(w)'
  BY <1>2, <1>4 DEF Holds, Verifying, Idle
<1>7. c \in Lockable
  BY DEF Lockable
<1>8. QED
  BY <1>1, <1>3, <1>5, <1>6, <1>7, Reading DEF Moves

LEMMA CloseAccountStep ==
  ASSUME IInv, NEW w \in Workers, CloseAccount(w)
  PROVE  IInv'
<1>. DEFINE u == task[w].user
            k == [task[w] EXCEPT !.pc = "closing"]
<1>0. /\ task \in [Workers -> Tasks] /\ task[w] \in Tasks /\ u \in Users /\ u \in Lockable
      /\ task[w].mode = "closure"
  BY DEF CloseAccount, IInv, TypeOK, Shape, Lockable
<1>1. UNCHANGED <<rows, history>>
  BY DEF CloseAccount
<1>2. CASE lock' = lock /\ task' = [task EXCEPT ![w] = Idle]
  <2>1. task'[w] = Idle
    BY <1>0, <1>2
  <2>2. QED
    BY <1>1, <1>2, <2>1, IdleHolds, IdleIsTask, Reading DEF Moves
<1>3. CASE Free(w, u) /\ lock' = Taken(w, u) /\ task' = [task EXCEPT ![w].pc = "closing"]
  <2>1. k \in Tasks
    BY <1>0 DEF Tasks
  <2>2. task' = [task EXCEPT ![w] = k] /\ task'[w] = k /\ lock'[u] = w
    BY <1>0, <1>3 DEF Taken, IInv, TypeOK
  <2>3. Shape(w)' /\ Holds(w)'
    BY <1>0, <2>2 DEF Shape, Holds, Verifying
  <2>4. QED
    BY <1>0, <1>1, <1>3, <2>1, <2>2, <2>3, Reading DEF Moves
<1>4. QED
  BY <1>2, <1>3 DEF CloseAccount, LockUser

LEMMA ReadClosureCodeStep ==
  ASSUME IInv, NEW w \in Workers, NEW c \in Challenges, ReadClosureCode(w, c)
  PROVE  IInv'
<1>. DEFINE u == task[w].user
            k == [task[w] EXCEPT !.pc = "code", !.code = c, !.mail = account[u].mail,
                                 !.seen = challenge[c].attempts]
<1>0. /\ task \in [Workers -> Tasks] /\ task[w] \in Tasks /\ task[w].pc = "closing"
      /\ u \in Users /\ lock[u] = w
  BY DEF ReadClosureCode, IInv, TypeOK, Shape, Holds
<1>1. /\ UNCHANGED <<rows, history>> /\ lock' = Taken(w, c) /\ Free(w, c)
      /\ task' = [task EXCEPT ![w].pc = "code", ![w].code = c, ![w].mail = account[u].mail,
                              ![w].seen = challenge[c].attempts]
  BY DEF ReadClosureCode, LockCode
<1>2. /\ challenge[c] \in ChallengeRows /\ challenge[c].state = "SENT"
      /\ challenge[c].attempts < MaxAttempts /\ account[u].mail \in Emails
  BY DEF ReadClosureCode, Usable, IInv, TypeOK, Rows, ChallengeFits, Stored
<1>3. k \in Tasks
  BY <1>0, <1>2 DEF ChallengeRows, Tasks
<1>4. /\ task' = [task EXCEPT ![w] = k] /\ task'[w] = k
      /\ lock'[c] = w /\ lock'[u] = w /\ challenge' = challenge
  BY <1>0, <1>1 DEF IInv, TypeOK, Taken, Lockable, rows
<1>5. task[w].mode = "closure"
  BY <1>0 DEF IInv, Shape
<1>6. Shape(w)' /\ Holds(w)'
  BY <1>0, <1>2, <1>4, <1>5 DEF Shape, Holds, Verifying
<1>7. c \in Lockable
  BY DEF Lockable
<1>8. QED
  BY <1>1, <1>3, <1>4, <1>6, <1>7, Reading DEF Moves

-----------------------------------------------------------------------------
(* Writes of one challenge.                                                *)

LEMMA NoChallengeIsRow == NoChallenge \in ChallengeRows
BY SignInAssumption DEF NoChallenge, ChallengeRows, Modes

\* A step that writes one challenge, which it has locked or which is not SENT.
LEMMA Writing ==
  ASSUME IInv, NEW v \in Workers, NEW k \in Tasks, Moves(v),
         task' = [task EXCEPT ![v] = k], Shape(v)', Holds(v)',
         NEW c \in Challenges, NEW r \in ChallengeRows,
         challenge' = [challenge EXCEPT ![c] = r],
         lock[c] = v \/ challenge[c].state # "SENT",
         spent' \in [Challenges -> Nat], guesses' \in [Challenges -> Nat],
         \A d \in Challenges \ {c} : spent'[d] = spent[d] /\ guesses'[d] = guesses[d],
         ChallengeFits(c)',
         session' \in [Sessions -> Users \cup {Nobody}], LiveSessionsAreActive',
         UNCHANGED <<account, invitation, clashed, enrolled>>
  PROVE  IInv'
<1>1. /\ TypeOK /\ Rows /\ task \in [Workers -> Tasks]
      /\ challenge \in [Challenges -> ChallengeRows]
  BY DEF IInv, TypeOK
<1>2. TypeOK'
  <2>1. task' \in [Workers -> Tasks] /\ challenge' \in [Challenges -> ChallengeRows]
    BY <1>1
  <2>2. QED
    BY <1>1, <2>1, LocksKept DEF TypeOK
<1>3. \A d \in Challenges \ {c} : challenge'[d] = challenge[d]
  BY <1>1
<1>4. Rows'
  <2>1. ASSUME NEW d \in Challenges PROVE ChallengeFits(d)'
    <3>1. CASE d = c
      BY <3>1
    <3>2. CASE d # c
      BY <1>1, <1>3, <3>2 DEF Rows, ChallengeFits, Stored, Exists
    <3>3. QED
      BY <3>1, <3>2
  <2>2. \A i \in Invitations : InvitationFits(i)'
    BY <1>1 DEF Rows, InvitationFits
  <2>3. ~clashed'
    BY <1>1 DEF Rows
  <2>4. QED
    BY <2>1, <2>2, <2>3 DEF Rows
<1>5. \A w \in Workers \ {v} : task'[w] = task[w]
  BY <1>1
<1>6. Keeps(v)
  BY <1>1, <1>3, <1>5, LocksKept DEF Keeps
<1>7. QED
  BY <1>2, <1>4, <1>6, Together

LEMMA InsertChallengeStep ==
  ASSUME IInv, NEW w \in Workers, NEW c \in Challenges, InsertChallenge(w, c)
  PROVE  IInv'
<1>. DEFINE t == task[w]
            r == [NoChallenge EXCEPT !.state = "PENDING", !.mode = t.mode, !.mail = t.mail,
                                     !.user = t.user, !.inv = t.inv, !.recent = TRUE]
            k == [t EXCEPT !.pc = "mail", !.code = c]
<1>1. /\ task \in [Workers -> Tasks] /\ t \in Tasks /\ t.pc = "insert" /\ t.mail \in Emails
      /\ t.mode = "register" => t.inv \in Invitations
      /\ challenge \in [Challenges -> ChallengeRows] /\ session \in [Sessions -> Users \cup {Nobody}]
      /\ spent \in [Challenges -> Nat] /\ guesses \in [Challenges -> Nat] /\ MaxAttempts \in Nat
  BY SignInAssumption DEF InsertChallenge, IInv, TypeOK, Shape
<1>2. UNCHANGED <<account, invitation, session, lock, history>> /\ Moves(w)
  BY DEF InsertChallenge, Moves
<1>3. CASE ~UserReferenced(w)
  <2>1. /\ UNCHANGED <<rows, lock, history>> /\ task' = [task EXCEPT ![w] = Idle]
        /\ task'[w] = Idle
    BY <1>1, <1>2, <1>3 DEF InsertChallenge, rows
  <2>2. QED
    BY <1>2, <2>1, IdleHolds, IdleIsTask, Reading
<1>4. CASE UserReferenced(w)
  <2>1. /\ ~Stored(c) /\ challenge' = [challenge EXCEPT ![c] = r]
        /\ task' = [task EXCEPT ![w].pc = "mail", ![w].code = c]
    BY <1>4 DEF InsertChallenge, Fresh
  <2>2. r \in ChallengeRows
    BY <1>1, NoChallengeIsRow DEF Tasks, ChallengeRows
  <2>3. k \in Tasks /\ task' = [task EXCEPT ![w] = k] /\ task'[w] = k
    BY <1>1, <2>1 DEF Tasks
  <2>4. Shape(w)' /\ Holds(w)'
    BY <1>1, <2>3 DEF Shape, Holds, Verifying
  <2>5. spent[c] = 0 /\ guesses[c] = 0
    BY <2>1 DEF IInv, Rows, ChallengeFits, Stored, NoChallenge
  <2>6. ChallengeFits(c)'
    <3>1. challenge'[c] = r /\ spent'[c] = 0 /\ guesses'[c] = 0 /\ account' = account
      BY <1>1, <1>2, <2>1, <2>5 DEF history
    <3>2. t.user # Nobody => Exists(t.user)
      BY <1>4 DEF UserReferenced
    <3>3. QED
      BY <1>1, <3>1, <3>2 DEF ChallengeFits, Stored, Exists, NoChallenge
  <2>7. LiveSessionsAreActive'
    BY <1>2 DEF LiveSessionsAreActive, Live, IInv, Rows
  <2>8. challenge[c].state # "SENT"
    BY <2>1 DEF Stored
  <2>9. QED
    BY <1>1, <1>2, <2>1, <2>2, <2>3, <2>4, <2>6, <2>7, <2>8, Writing DEF history
<1>5. QED
  BY <1>3, <1>4

LEMMA MarkDeliveryStep ==
  ASSUME IInv, NEW w \in Workers, NEW delivered \in BOOLEAN, MarkDelivery(w, delivered)
  PROVE  IInv'
<1>0. PICK c \in Challenges : c = task[w].code
  BY DEF MarkDelivery, IInv, Shape
<1>. DEFINE r == [challenge[c] EXCEPT !.state = "SENT"]
<1>1. /\ task \in [Workers -> Tasks]
      /\ challenge \in [Challenges -> ChallengeRows] /\ session \in [Sessions -> Users \cup {Nobody}]
      /\ spent \in [Challenges -> Nat] /\ guesses \in [Challenges -> Nat]
  BY DEF IInv, TypeOK
<1>2. /\ UNCHANGED <<account, invitation, session, lock, history>> /\ Moves(w)
      /\ task' = [task EXCEPT ![w] = Idle] /\ task'[w] = Idle
  BY <1>1 DEF MarkDelivery, Moves
<1>3. Shape(w)' /\ Holds(w)'
  BY <1>2, IdleHolds
<1>4. CASE challenge' = challenge
  BY <1>2, <1>3, <1>4, IdleIsTask, Reading DEF rows
<1>5. CASE challenge[c].state = "PENDING" /\ challenge' = [challenge EXCEPT ![c].state = "SENT"]
  <2>1. r \in ChallengeRows /\ challenge' = [challenge EXCEPT ![c] = r] /\ challenge'[c] = r
    BY <1>1, <1>5 DEF ChallengeRows
  <2>. HIDE DEF r
  <2>2. ChallengeFits(c)'
    <3>1. ChallengeFits(c)
      BY <1>1 DEF IInv, Rows
    <3>2. /\ r.mail = challenge[c].mail /\ r.mode = challenge[c].mode /\ r.inv = challenge[c].inv
          /\ r.user = challenge[c].user /\ r.attempts = challenge[c].attempts /\ r.state = "SENT"
      BY <1>1 DEF ChallengeRows, r
    <3>3. QED
      BY <1>2, <1>5, <2>1, <3>1, <3>2 DEF ChallengeFits, Stored, Exists, history
  <2>3. LiveSessionsAreActive'
    BY <1>2 DEF LiveSessionsAreActive, Live, IInv, Rows
  <2>4. QED
    BY <1>1, <1>2, <1>3, <1>5, <2>1, <2>2, <2>3, IdleIsTask, Writing DEF history
<1>6. QED
  BY <1>0, <1>4, <1>5 DEF MarkDelivery

\* The attempts that are written are those of the row, one more.
LEMMA WrongCodeStep ==
  ASSUME IInv, NEW w \in Workers, WrongCode(w)
  PROVE  IInv'
<1>0. PICK c \in Challenges, n \in Int : c = task[w].code /\ n = task[w].seen + 1
  <2>1. task[w] \in Tasks /\ task[w].code \in Challenges
    BY DEF WrongCode, IInv, TypeOK, Shape, Verifying
  <2>2. task[w].seen \in Int
    BY <2>1, SignInAssumption DEF Tasks
  <2>3. QED
    BY <2>1, <2>2
<1>. DEFINE r == [challenge[c] EXCEPT !.attempts = n]
<1>1. /\ task \in [Workers -> Tasks] /\ task[w] \in Tasks
      /\ task[w].pc = "code" /\ task[w].seen < MaxAttempts /\ task[w].seen = challenge[c].attempts
      /\ lock[c] = w /\ challenge[c].state = "SENT"
      /\ challenge \in [Challenges -> ChallengeRows] /\ session \in [Sessions -> Users \cup {Nobody}]
      /\ spent \in [Challenges -> Nat] /\ guesses \in [Challenges -> Nat]
  BY <1>0 DEF WrongCode, IInv, TypeOK, Shape, Holds, Verifying
<1>2. /\ challenge' = [challenge EXCEPT ![c].attempts = n]
      /\ guesses' = [guesses EXCEPT ![c] = guesses[c] + 1]
      /\ UNCHANGED <<account, invitation, session, clashed, enrolled, spent>>
      /\ Moves(w) /\ task' = [task EXCEPT ![w] = Idle] /\ task'[w] = Idle
  BY <1>0, <1>1 DEF WrongCode, Finish, Moves
<1>3. n \in 0..MaxAttempts
  BY <1>0, <1>1, SignInAssumption DEF Tasks
<1>4. r \in ChallengeRows /\ challenge' = [challenge EXCEPT ![c] = r] /\ challenge'[c] = r
  BY <1>1, <1>2, <1>3 DEF ChallengeRows
<1>. HIDE DEF r
<1>5. Shape(w)' /\ Holds(w)'
  BY <1>2, IdleHolds
<1>6. ChallengeFits(c)'
  <2>1. ChallengeFits(c)
    BY <1>1 DEF IInv, Rows
  <2>2. /\ r.mail = challenge[c].mail /\ r.mode = challenge[c].mode /\ r.inv = challenge[c].inv
        /\ r.user = challenge[c].user /\ r.attempts = n /\ r.state = "SENT"
    BY <1>1 DEF ChallengeRows, r
  <2>3. guesses'[c] = n /\ spent'[c] = 0
    BY <1>0, <1>1, <1>2, <2>1 DEF ChallengeFits
  <2>4. QED
    BY <1>1, <1>2, <1>4, <2>1, <2>2, <2>3 DEF ChallengeFits, Stored, Exists
<1>7. guesses' \in [Challenges -> Nat] /\ \A d \in Challenges \ {c} : guesses'[d] = guesses[d]
  BY <1>1, <1>2
<1>8. LiveSessionsAreActive'
  BY <1>2 DEF LiveSessionsAreActive, Live, IInv, Rows
<1>9. QED
  BY <1>1, <1>2, <1>4, <1>5, <1>6, <1>7, <1>8, IdleIsTask, Writing, ZenonT(30)

\* Consuming the challenge that is held, and perhaps opening a session.
LEMMA Consuming ==
  ASSUME IInv, NEW w \in Workers, task[w].pc \in Verifying, Consume(w),
         UNCHANGED <<account, invitation, enrolled>>,
         session' \in [Sessions -> Users \cup {Nobody}], LiveSessionsAreActive'
  PROVE  IInv'
<1>0. PICK c \in Challenges : c = task[w].code
  BY DEF IInv, Shape
<1>. DEFINE r == [challenge[c] EXCEPT !.state = "USED"]
<1>1. /\ task \in [Workers -> Tasks]
      /\ lock[c] = w /\ challenge[c].state = "SENT"
      /\ challenge \in [Challenges -> ChallengeRows]
      /\ spent \in [Challenges -> Nat] /\ guesses \in [Challenges -> Nat]
  BY <1>0 DEF IInv, TypeOK, Holds
<1>2. /\ challenge' = [challenge EXCEPT ![c].state = "USED"]
      /\ spent' = [spent EXCEPT ![c] = spent[c] + 1]
      /\ UNCHANGED <<clashed, guesses>>
      /\ Moves(w) /\ task' = [task EXCEPT ![w] = Idle] /\ task'[w] = Idle
  BY <1>0, <1>1 DEF Consume, Finish, Moves
<1>3. r \in ChallengeRows /\ challenge' = [challenge EXCEPT ![c] = r] /\ challenge'[c] = r
  BY <1>1, <1>2 DEF ChallengeRows
<1>. HIDE DEF r
<1>4. Shape(w)' /\ Holds(w)'
  BY <1>2, IdleHolds
<1>5. ChallengeFits(c)'
  <2>1. ChallengeFits(c)
    BY <1>1 DEF IInv, Rows
  <2>2. /\ r.mail = challenge[c].mail /\ r.mode = challenge[c].mode /\ r.inv = challenge[c].inv
        /\ r.user = challenge[c].user /\ r.attempts = challenge[c].attempts /\ r.state = "USED"
    BY <1>1 DEF ChallengeRows, r
  <2>3. guesses'[c] = guesses[c] /\ spent'[c] = 1
    BY <1>1, <1>2, <2>1 DEF ChallengeFits
  <2>4. QED
    BY <1>1, <1>3, <2>1, <2>2, <2>3 DEF ChallengeFits, Stored, Exists
<1>6. spent' \in [Challenges -> Nat] /\ \A d \in Challenges \ {c} : spent'[d] = spent[d]
  BY <1>1, <1>2
<1>7. QED
  BY <1>1, <1>2, <1>3, <1>4, <1>5, <1>6, IdleIsTask, Writing

-----------------------------------------------------------------------------
(* What a right code opens.                                                *)

\* Sessions that a step leaves alone stay live only for active accounts.
LEMMA SameSessions ==
  ASSUME IInv, UNCHANGED <<account, session>>
  PROVE  session' \in [Sessions -> Users \cup {Nobody}] /\ LiveSessionsAreActive'
BY DEF IInv, TypeOK, Rows, LiveSessionsAreActive, Live

LEMMA RightCodeStep ==
  ASSUME IInv, NEW w \in Workers, RightCode(w)
  PROVE  IInv'
<1>. DEFINE t == task[w]
            known == IdentityOf(t.mail)
<1>1. /\ task \in [Workers -> Tasks] /\ t \in Tasks /\ t.pc = "code" /\ t.mode # "closure"
      /\ t.mail \in Emails /\ t.mail \in Lockable /\ t.code \in Challenges
      /\ t.mode = "register" => t.inv \in Invitations
      /\ lock[t.code] = w /\ challenge[t.code].state = "SENT" /\ t.code \in Lockable
      /\ lock \in [Lockable -> Workers \cup {Nobody}]
  BY DEF RightCode, IInv, TypeOK, Shape, Holds, Verifying, Lockable
<1>2. UNCHANGED <<account, invitation, session>> /\ Free(w, t.mail)
  BY DEF RightCode
<1>3. CASE (t.mode = "login") = (known # {})
  <2>1. PICK u \in IF known = {} THEN {Nobody} ELSE known :
          task' = [task EXCEPT ![w].pc = t.mode, ![w].user = u]
    BY <1>3 DEF RightCode
  <2>2. lock' = Taken(w, t.mail) /\ UNCHANGED <<rows, history>>
    BY <1>2, <1>3 DEF RightCode, LockAddress, rows
  <2>. DEFINE k == [t EXCEPT !.pc = t.mode, !.user = u]
  <2>3. t.mode \in {"login", "register"}
    BY <1>1 DEF Tasks, Modes
  <2>4. u \in Users \cup {Nobody} /\ (t.mode = "login" => u \in Users)
    BY <1>3, <2>1 DEF IdentityOf
  <2>5. t.mode = "register" => \A v \in Users : account[v].mail # t.mail
    BY <1>3 DEF IdentityOf
  <2>6. k \in Tasks
    BY <1>1, <2>3, <2>4 DEF Tasks
  <2>7. task' = [task EXCEPT ![w] = k] /\ task'[w] = k
    BY <1>1, <2>1
  <2>8. lock'[t.mail] = w /\ lock'[t.code] = w
    BY <1>1, <2>2 DEF Taken
  <2>9. Shape(w)'
    BY <1>1, <2>3, <2>4, <2>7 DEF Shape, Verifying
  <2>10. Holds(w)'
    BY <1>1, <2>2, <2>3, <2>5, <2>7, <2>8 DEF Holds, Verifying, rows
  <2>11. Moves(w)
    BY <1>1, <1>2, <2>2 DEF Moves
  <2>12. QED
    BY <2>2, <2>6, <2>7, <2>9, <2>10, <2>11, Reading
<1>4. CASE ~((t.mode = "login") = (known # {}))
  <2>1. Consume(w) /\ UNCHANGED enrolled
    BY <1>4 DEF RightCode
  <2>2. QED
    BY <1>1, <1>2, <2>1, SameSessions, Consuming DEF Verifying
<1>5. QED
  BY <1>3, <1>4

LEMMA LogInStep ==
  ASSUME IInv, NEW w \in Workers, LogIn(w)
  PROVE  IInv'
<1>. DEFINE t == task[w]
            u == t.user
<1>1. /\ task \in [Workers -> Tasks] /\ t \in Tasks /\ t.pc = "login" /\ t.mode # "closure"
      /\ t.mail \in Emails /\ t.code \in Challenges /\ u \in Users /\ u \in Lockable
      /\ lock[t.code] = w /\ challenge[t.code].state = "SENT" /\ t.code \in Lockable
      /\ lock \in [Lockable -> Workers \cup {Nobody}]
  BY DEF LogIn, IInv, TypeOK, Shape, Holds, Verifying, Lockable
<1>2. UNCHANGED <<account, invitation, session>> /\ Free(w, u)
  BY DEF LogIn
<1>3. CASE account[u].status = "ACTIVE"
  <2>1. /\ lock' = Taken(w, u) /\ UNCHANGED <<rows, history>>
        /\ task' = [task EXCEPT ![w].pc = "open"]
    BY <1>2, <1>3 DEF LogIn, LockUser, rows
  <2>. DEFINE k == [t EXCEPT !.pc = "open"]
  <2>2. k \in Tasks /\ task' = [task EXCEPT ![w] = k] /\ task'[w] = k
    BY <1>1, <2>1 DEF Tasks
  <2>3. lock'[u] = w /\ lock'[t.code] = w
    BY <1>1, <2>1 DEF Taken
  <2>4. Shape(w)' /\ Holds(w)'
    BY <1>1, <1>3, <2>1, <2>2, <2>3 DEF Shape, Holds, Verifying, rows
  <2>5. Moves(w)
    BY <1>1, <1>2, <2>1 DEF Moves
  <2>6. QED
    BY <2>1, <2>2, <2>4, <2>5, Reading
<1>4. CASE account[u].status # "ACTIVE"
  <2>1. Consume(w) /\ UNCHANGED enrolled
    BY <1>4 DEF LogIn
  <2>2. QED
    BY <1>1, <1>2, <2>1, SameSessions, Consuming DEF Verifying
<1>5. QED
  BY <1>3, <1>4

\* The lock of the user row is why the account is still active.
LEMMA CommitLoginStep ==
  ASSUME IInv, NEW w \in Workers, NEW s \in Sessions, CommitLogin(w, s)
  PROVE  IInv'
<1>. DEFINE u == task[w].user
<1>1. task[w].pc = "open" /\ u \in Users /\ account[u].status = "ACTIVE"
  BY DEF CommitLogin, IInv, Shape, Holds
<1>2. /\ session' = [session EXCEPT ![s] = u] /\ UNCHANGED <<account, invitation, enrolled>>
      /\ Consume(w)
  BY DEF CommitLogin, OpenSession
<1>3. session' \in [Sessions -> Users \cup {Nobody}] /\ LiveSessionsAreActive'
  BY <1>1, <1>2 DEF IInv, TypeOK, Rows, LiveSessionsAreActive, Live
<1>4. QED
  BY <1>1, <1>2, <1>3, Consuming DEF Verifying

LEMMA RegisterStep ==
  ASSUME IInv, NEW w \in Workers, Register(w)
  PROVE  IInv'
<1>. DEFINE t == task[w]
            i == t.inv
<1>1. /\ task \in [Workers -> Tasks] /\ t \in Tasks /\ t.pc = "register" /\ t.mode # "closure"
      /\ t.mail \in Emails /\ t.code \in Challenges /\ i \in Invitations /\ i \in Lockable
      /\ lock[t.code] = w /\ challenge[t.code].state = "SENT" /\ t.code \in Lockable
      /\ lock[t.mail] = w /\ t.mail \in Lockable /\ \A u \in Users : account[u].mail # t.mail
      /\ lock \in [Lockable -> Workers \cup {Nobody}]
  BY DEF Register, IInv, TypeOK, Shape, Holds, Verifying, Lockable
<1>2. UNCHANGED <<account, invitation, session>> /\ Free(w, i)
  BY DEF Register
<1>3. CASE InvitationUsable(i)
  <2>1. /\ lock' = Taken(w, i) /\ UNCHANGED <<rows, history>>
        /\ task' = [task EXCEPT ![w].pc = "enrol"]
    BY <1>2, <1>3 DEF Register, LockInvitation, rows
  <2>. DEFINE k == [t EXCEPT !.pc = "enrol"]
  <2>2. k \in Tasks /\ task' = [task EXCEPT ![w] = k] /\ task'[w] = k
    BY <1>1, <2>1 DEF Tasks
  <2>3. lock'[i] = w /\ lock'[t.code] = w /\ lock'[t.mail] = w
    BY <1>1, <2>1 DEF Taken
  <2>4. invitation[i] = "USABLE"
    BY <1>3 DEF InvitationUsable
  <2>5. Shape(w)'
    BY <1>1, <2>2 DEF Shape, Verifying
  <2>6. Holds(w)'
    BY <1>1, <2>1, <2>2, <2>3, <2>4 DEF Holds, Verifying, rows
  <2>7. Moves(w)
    BY <1>1, <1>2, <2>1 DEF Moves
  <2>8. QED
    BY <2>1, <2>2, <2>5, <2>6, <2>7, Reading
<1>4. CASE ~InvitationUsable(i)
  <2>1. Consume(w) /\ UNCHANGED enrolled
    BY <1>4 DEF Register
  <2>2. QED
    BY <1>1, <1>2, <2>1, SameSessions, Consuming DEF Verifying
<1>5. QED
  BY <1>3, <1>4

\* The locks of the address and the invitation are why neither is claimed.
LEMMA NothingClaimed ==
  ASSUME IInv, NEW w \in Workers, task[w].pc = "enrol"
  PROVE  Unclaimed(task[w].mail, task[w].inv)
<1>1. \A u \in Users : account[u].mail # task[w].mail
  BY DEF IInv, Holds
<1>2. task[w].inv \in Invitations /\ invitation[task[w].inv] = "USABLE"
  BY DEF IInv, Shape, Holds
<1>3. \A u \in Users : account[u].inv # task[w].inv
  BY <1>2 DEF IInv, Rows, InvitationFits
<1>4. QED
  BY <1>1, <1>3 DEF Unclaimed

LEMMA CommitRegistrationStep ==
  ASSUME IInv, NEW w \in Workers, NEW u \in Users, NEW s \in Sessions,
         CommitRegistration(w, u, s)
  PROVE  IInv'
<1>0. PICK c \in Challenges, i \in Invitations, e \in Emails :
        c = task[w].code /\ i = task[w].inv /\ e = task[w].mail
  BY DEF CommitRegistration, IInv, Shape, Verifying
<1>. DEFINE a == [status |-> "ACTIVE", mail |-> e, inv |-> i]
            r == [challenge[c] EXCEPT !.state = "USED"]
<1>1. /\ TypeOK /\ Rows /\ task[w].pc = "enrol"
      /\ lock[c] = w /\ lock[i] = w /\ lock[e] = w /\ {c, i, e} \subseteq Lockable
      /\ challenge[c].state = "SENT" /\ invitation[i] = "USABLE"
  BY <1>0 DEF CommitRegistration, IInv, Holds, Verifying, Lockable
<1>2. /\ task \in [Workers -> Tasks] /\ account \in [Users -> Accounts]
      /\ invitation \in [Invitations -> {"USABLE", "REDEEMED"}]
      /\ challenge \in [Challenges -> ChallengeRows]
      /\ session \in [Sessions -> Users \cup {Nobody}]
      /\ enrolled \in [Invitations -> Nat] /\ spent \in [Challenges -> Nat]
      /\ guesses \in [Challenges -> Nat]
  BY <1>1 DEF TypeOK
<1>3. /\ account[u].status = "ABSENT"
      /\ account' = [account EXCEPT ![u] = a]
      /\ invitation' = [invitation EXCEPT ![i] = "REDEEMED"]
      /\ enrolled' = [enrolled EXCEPT ![i] = enrolled[i] + 1]
      /\ session' = [session EXCEPT ![s] = u]
      /\ Consume(w)
  BY <1>0, <1>1, NothingClaimed DEF CommitRegistration, OpenSession
<1>4. /\ challenge' = [challenge EXCEPT ![c].state = "USED"]
      /\ spent' = [spent EXCEPT ![c] = spent[c] + 1]
      /\ UNCHANGED <<clashed, guesses>>
      /\ Moves(w) /\ task' = [task EXCEPT ![w] = Idle] /\ task'[w] = Idle
  BY <1>0, <1>2, <1>3 DEF Consume, Finish, Moves
<1>5. a \in Accounts /\ account'[u] = a /\ \A v \in Users \ {u} : account'[v] = account[v]
  BY <1>2, <1>3 DEF Accounts, Statuses
<1>6. r \in ChallengeRows /\ challenge' = [challenge EXCEPT ![c] = r] /\ challenge'[c] = r
  BY <1>2, <1>4, ZenonT(30) DEF ChallengeRows
<1>7. /\ r.mail = challenge[c].mail /\ r.mode = challenge[c].mode /\ r.inv = challenge[c].inv
      /\ r.user = challenge[c].user /\ r.attempts = challenge[c].attempts /\ r.state = "USED"
  BY <1>2 DEF ChallengeRows
<1>. HIDE DEF r
<1>8. TypeOK'
  <2>1. /\ account' \in [Users -> Accounts] /\ challenge' \in [Challenges -> ChallengeRows]
        /\ task' \in [Workers -> Tasks] /\ session' \in [Sessions -> Users \cup {Nobody}]
    BY <1>2, <1>3, <1>4, <1>5, <1>6, IdleIsTask
  <2>2. invitation' \in [Invitations -> {"USABLE", "REDEEMED"}]
    BY <1>2, <1>3
  <2>3. enrolled' \in [Invitations -> Nat] /\ spent' \in [Challenges -> Nat]
    BY <1>2, <1>3, <1>4
  <2>4. QED
    BY <1>1, <1>4, <2>1, <2>2, <2>3, LocksKept DEF TypeOK
<1>9. \A v \in Users : Exists(v) => account'[v].status \in {"ACTIVE", "DISABLED"}
  BY <1>5 DEF Exists
<1>10. ASSUME NEW d \in Challenges PROVE ChallengeFits(d)'
  <2>1. /\ ChallengeFits(d)
        /\ challenge[d].user \in Users \cup {Nobody}
    BY <1>1, <1>2 DEF Rows, ChallengeRows
  <2>2. challenge[d].user # Nobody => account'[challenge[d].user].status \in {"ACTIVE", "DISABLED"}
    BY <1>9, <2>1 DEF ChallengeFits
  <2>3. CASE d = c
    <3>1. challenge'[d] = r /\ spent'[d] = 1 /\ guesses'[d] = challenge[d].attempts
      BY <1>1, <1>2, <1>4, <1>6, <2>1, <2>3 DEF ChallengeFits
    <3>2. QED
      BY <1>1, <1>7, <2>1, <2>2, <2>3, <3>1 DEF ChallengeFits, Stored, Exists
  <2>4. CASE d # c
    <3>1. challenge'[d] = challenge[d] /\ spent'[d] = spent[d] /\ guesses'[d] = guesses[d]
      BY <1>2, <1>4, <1>6, <2>4
    <3>2. QED
      BY <2>1, <2>2, <3>1 DEF ChallengeFits, Stored, Exists
  <2>5. QED
    BY <2>3, <2>4
<1>11. ASSUME NEW j \in Invitations PROVE InvitationFits(j)'
  <2>1. InvitationFits(j)
    BY <1>1 DEF Rows
  <2>2. CASE j = i
    BY <1>1, <1>2, <1>3, <2>1, <2>2 DEF InvitationFits
  <2>3. CASE j # i
    BY <1>2, <1>3, <1>5, <2>1, <2>3 DEF InvitationFits
  <2>4. QED
    BY <2>2, <2>3
<1>12. LiveSessionsAreActive'
  BY <1>1, <1>2, <1>3, <1>5 DEF Rows, LiveSessionsAreActive, Live
<1>13. Rows'
  BY <1>1, <1>4, <1>10, <1>11, <1>12 DEF Rows
<1>14. Keeps(w)
  <2>1. ASSUME NEW v \in Workers \ {w}, NEW d \in Challenges, lock[d] = v
        PROVE  challenge'[d] = challenge[d]
    BY <1>1, <1>2, <1>4, <2>1
  <2>2. ASSUME NEW v \in Workers \ {w}, NEW j \in Invitations, lock[j] = v
        PROVE  invitation'[j] = invitation[j]
    BY <1>1, <1>2, <1>3, <2>2
  <2>3. ASSUME NEW v \in Workers \ {w}, NEW f \in Emails, lock[f] = v,
               \A x \in Users : account[x].mail # f
        PROVE  \A x \in Users : account'[x].mail # f
    BY <1>1, <1>5, <2>3
  <2>4. \A x \in Users : account[x].status = "ACTIVE" => account'[x].status = "ACTIVE"
    BY <1>5
  <2>5. \A v \in Workers \ {w} : task'[v] = task[v]
    BY <1>2, <1>4
  <2>6. QED
    BY <1>1, <1>4, <2>1, <2>2, <2>3, <2>4, <2>5, LocksKept DEF Keeps
<1>15. QED
  BY <1>4, <1>8, <1>13, <1>14, IdleHolds, Together

-----------------------------------------------------------------------------
(* Closing, disabling, and the rest.                                       *)

\* The codes that are erased are locked by nobody else, and so is the user.
LEMMA EraseAccountStep ==
  ASSUME IInv, NEW w \in Workers, EraseAccount(w)
  PROVE  IInv'
<1>0. PICK u \in Users : u = task[w].user
  BY DEF EraseAccount, IInv, Shape
<1>. DEFINE a == [NoAccount EXCEPT !.status = "CLOSED"]
<1>1. /\ TypeOK /\ Rows /\ lock[u] = w /\ u \in Lockable /\ Challenges \subseteq Lockable
  BY <1>0 DEF EraseAccount, IInv, Holds, Lockable
<1>2. /\ task \in [Workers -> Tasks] /\ account \in [Users -> Accounts]
      /\ challenge \in [Challenges -> ChallengeRows]
      /\ session \in [Sessions -> Users \cup {Nobody}]
      /\ spent \in [Challenges -> Nat] /\ guesses \in [Challenges -> Nat]
      /\ Nobody \notin Users \cup Emails \cup Invitations \cup Workers
  BY <1>1, SignInAssumption DEF TypeOK
<1>3. /\ account' = [account EXCEPT ![u] = a]
      /\ challenge' = [d \in Challenges |-> IF d \in CodesOf(u) THEN NoChallenge ELSE challenge[d]]
      /\ session' = [x \in Sessions |-> IF session[x] = u THEN Nobody ELSE session[x]]
      /\ spent' = [d \in Challenges |-> IF d \in CodesOf(u) THEN 0 ELSE spent[d]]
      /\ guesses' = [d \in Challenges |-> IF d \in CodesOf(u) THEN 0 ELSE guesses[d]]
      /\ UNCHANGED <<invitation, clashed, enrolled>>
      /\ \A d \in CodesOf(u) : lock[d] \in {w, Nobody}
      /\ Moves(w) /\ task' = [task EXCEPT ![w] = Idle] /\ task'[w] = Idle
  BY <1>0, <1>2 DEF EraseAccount, Finish, Moves, Free
<1>4. /\ a \in Accounts /\ account'[u] = a /\ a.mail = Nobody /\ a.inv = Nobody
      /\ \A v \in Users \ {u} : account'[v] = account[v]
  BY <1>2, <1>3 DEF Accounts, Statuses, NoAccount
<1>5. TypeOK'
  <2>1. /\ account' \in [Users -> Accounts] /\ challenge' \in [Challenges -> ChallengeRows]
        /\ task' \in [Workers -> Tasks] /\ session' \in [Sessions -> Users \cup {Nobody}]
    BY <1>2, <1>3, <1>4, IdleIsTask, NoChallengeIsRow
  <2>2. spent' \in [Challenges -> Nat] /\ guesses' \in [Challenges -> Nat]
    BY <1>2, <1>3
  <2>3. QED
    BY <1>1, <1>3, <2>1, <2>2, LocksKept DEF TypeOK
<1>6. ASSUME NEW d \in Challenges PROVE ChallengeFits(d)'
  <2>1. ChallengeFits(d)
    BY <1>1 DEF Rows
  <2>2. CASE d \in CodesOf(u)
    <3>1. challenge'[d] = NoChallenge /\ spent'[d] = 0 /\ guesses'[d] = 0
      BY <1>3, <2>2
    <3>2. QED
      BY <3>1 DEF ChallengeFits, Stored, NoChallenge
  <2>3. CASE d \notin CodesOf(u)
    <3>1. challenge'[d] = challenge[d] /\ spent'[d] = spent[d] /\ guesses'[d] = guesses[d]
      BY <1>3, <2>3
    <3>2. challenge[d].user # u
      BY <1>2, <2>1, <2>3 DEF CodesOf, ChallengeFits, NoChallenge
    <3>3. challenge[d].user # Nobody => Exists(challenge[d].user)'
      BY <1>2, <1>4, <2>1, <3>1, <3>2 DEF ChallengeFits, Exists, ChallengeRows
    <3>4. QED
      BY <2>1, <3>1, <3>3 DEF ChallengeFits, Stored
  <2>4. QED
    BY <2>2, <2>3
<1>7. ASSUME NEW j \in Invitations PROVE InvitationFits(j)'
  BY <1>1, <1>2, <1>3, <1>4 DEF Rows, InvitationFits
<1>8. LiveSessionsAreActive'
  BY <1>1, <1>2, <1>3, <1>4 DEF Rows, LiveSessionsAreActive, Live
<1>9. Rows'
  BY <1>1, <1>3, <1>6, <1>7, <1>8 DEF Rows
<1>10. Keeps(w)
  <2>1. ASSUME NEW v \in Workers \ {w}, NEW d \in Challenges, lock[d] = v
        PROVE  challenge'[d] = challenge[d]
    BY <1>2, <1>3, <2>1
  <2>2. ASSUME NEW v \in Workers \ {w}, NEW x \in Users, lock[x] = v
        PROVE  account'[x] = account[x]
    BY <1>1, <1>4, <2>2
  <2>3. ASSUME NEW f \in Emails, \A x \in Users : account[x].mail # f
        PROVE  \A x \in Users : account'[x].mail # f
    BY <1>2, <1>4, <2>3
  <2>4. \A v \in Workers \ {w} : task'[v] = task[v]
    BY <1>2, <1>3
  <2>5. QED
    BY <1>1, <1>3, <2>1, <2>2, <2>3, <2>4, LocksKept DEF Keeps
<1>11. QED
  BY <1>3, <1>5, <1>9, <1>10, IdleHolds, Together

\* Accounts, challenges and sessions may change, if nobody who holds a lock
\* can tell: the steps of administrators and of the clock.
LEMMA Outside ==
  ASSUME IInv, UNCHANGED <<invitation, lock, task, history>>, TypeOK',
         \A c \in Challenges : ChallengeFits(c)', LiveSessionsAreActive',
         \A c \in Challenges : challenge'[c].state = challenge[c].state
                               /\ challenge'[c].attempts = challenge[c].attempts,
         \A u \in Users : /\ lock[u] # Nobody => account'[u].status = account[u].status
                          /\ account'[u].mail = account[u].mail
                          /\ account'[u].inv = account[u].inv
  PROVE  IInv'
<1>1. Nobody \notin Workers
  BY SignInAssumption
<1>2. Keeps(Nobody)
  BY <1>1 DEF Keeps
<1>3. Rows'
  BY DEF IInv, Rows, InvitationFits, history
<1>4. QED
  BY <1>1, <1>2, <1>3, Together

LEMMA EndSessionStep ==
  ASSUME IInv, NEW s \in Sessions, EndSession(s)
  PROVE  IInv'
<1>1. /\ session' = [session EXCEPT ![s] = Nobody]
      /\ UNCHANGED <<account, invitation, challenge, lock, task, history>>
  BY DEF EndSession
<1>2. TypeOK'
  BY <1>1 DEF IInv, TypeOK, history
<1>3. \A c \in Challenges : ChallengeFits(c)'
  BY <1>1 DEF IInv, Rows, ChallengeFits, Stored, Exists, history
<1>4. LiveSessionsAreActive'
  BY <1>1 DEF IInv, TypeOK, Rows, LiveSessionsAreActive, Live
<1>5. QED
  BY <1>1, <1>2, <1>3, <1>4, Outside

\* A change of the status of a user whom nobody has locked.
LEMMA StatusStep ==
  ASSUME IInv, NEW u \in Users, NEW status \in {"ACTIVE", "DISABLED"},
         Exists(u), lock[u] = Nobody,
         account' = [account EXCEPT ![u].status = status],
         session' \in [Sessions -> Users \cup {Nobody}], LiveSessionsAreActive',
         UNCHANGED <<invitation, challenge, lock, task, history>>
  PROVE  IInv'
<1>. DEFINE a == [account[u] EXCEPT !.status = status]
<1>1. account \in [Users -> Accounts] /\ challenge \in [Challenges -> ChallengeRows]
  BY DEF IInv, TypeOK
<1>2. /\ a \in Accounts /\ a.status = status /\ a.mail = account[u].mail /\ a.inv = account[u].inv
      /\ account' = [account EXCEPT ![u] = a]
  BY <1>1 DEF Accounts, Statuses
<1>. HIDE DEF a
<1>3. account'[u] = a /\ \A v \in Users \ {u} : account'[v] = account[v]
  BY <1>1, <1>2
<1>4. TypeOK'
  BY <1>1, <1>2 DEF IInv, TypeOK, history
<1>5. \A v \in Users : Exists(v) => account'[v].status \in {"ACTIVE", "DISABLED"}
  BY <1>2, <1>3 DEF Exists
<1>6. \A c \in Challenges : ChallengeFits(c)'
  BY <1>1, <1>5 DEF IInv, Rows, ChallengeFits, Stored, Exists, ChallengeRows, history
<1>7. QED
  BY <1>2, <1>3, <1>4, <1>6, Outside

LEMMA DisableUserStep ==
  ASSUME IInv, NEW u \in Users, DisableUser(u)
  PROVE  IInv'
<1>1. /\ account' = [account EXCEPT ![u].status = "DISABLED"] /\ lock[u] = Nobody /\ Exists(u)
      /\ session' = [s \in Sessions |-> IF session[s] = u THEN Nobody ELSE session[s]]
      /\ UNCHANGED <<invitation, challenge, lock, task, history>>
  BY DEF DisableUser, Exists
<1>2. session' \in [Sessions -> Users \cup {Nobody}] /\ LiveSessionsAreActive'
  BY <1>1 DEF IInv, TypeOK, Rows, LiveSessionsAreActive, Live
<1>3. QED
  BY <1>1, <1>2, StatusStep

LEMMA RestoreUserStep ==
  ASSUME IInv, NEW u \in Users, RestoreUser(u)
  PROVE  IInv'
<1>1. /\ account' = [account EXCEPT ![u].status = "ACTIVE"] /\ lock[u] = Nobody /\ Exists(u)
      /\ UNCHANGED <<invitation, challenge, session, lock, task, history>>
  BY DEF RestoreUser, Exists
<1>2. session' \in [Sessions -> Users \cup {Nobody}] /\ LiveSessionsAreActive'
  BY <1>1 DEF IInv, TypeOK, Accounts, Rows, LiveSessionsAreActive, Live
<1>3. QED
  BY <1>1, <1>2, StatusStep

LEMMA TickStep ==
  ASSUME IInv, Tick
  PROVE  IInv'
<1>1. /\ challenge' = [c \in Challenges |-> [challenge[c] EXCEPT !.recent = FALSE]]
      /\ UNCHANGED <<account, invitation, session, lock, task, history>>
  BY DEF Tick
<1>2. challenge \in [Challenges -> ChallengeRows]
  BY DEF IInv, TypeOK
<1>3. ASSUME NEW c \in Challenges
      PROVE  /\ challenge'[c] \in ChallengeRows
             /\ challenge'[c].state = challenge[c].state /\ challenge'[c].mode = challenge[c].mode
             /\ challenge'[c].mail = challenge[c].mail /\ challenge'[c].user = challenge[c].user
             /\ challenge'[c].inv = challenge[c].inv
             /\ challenge'[c].attempts = challenge[c].attempts
  <2>1. challenge'[c] = [challenge[c] EXCEPT !.recent = FALSE] /\ challenge[c] \in ChallengeRows
    BY <1>1, <1>2
  <2>2. QED
    BY <2>1 DEF ChallengeRows
<1>4. challenge' \in [Challenges -> ChallengeRows]
  BY <1>1, <1>3
<1>5. TypeOK'
  BY <1>1, <1>4 DEF IInv, TypeOK, history
<1>6. \A c \in Challenges : ChallengeFits(c)'
  BY <1>1, <1>3 DEF IInv, Rows, ChallengeFits, Stored, Exists, history
<1>7. LiveSessionsAreActive'
  BY <1>1, SameSessions
<1>8. QED
  BY <1>1, <1>3, <1>5, <1>6, <1>7, Outside

-----------------------------------------------------------------------------
(* The invariant, and what it gives.                                       *)

LEMMA InitIInv == Init => IInv
<1> SUFFICES ASSUME Init PROVE IInv
  OBVIOUS
<1>1. PICK registered \in SUBSET Users :
        /\ account = [u \in Users |->
                        IF u \in registered
                        THEN [NoAccount EXCEPT !.status = "ACTIVE", !.mail = HomeOf[u]]
                        ELSE NoAccount]
        /\ session \in [Sessions -> registered \cup {Nobody}]
  BY DEF Init
<1>2. /\ invitation = [i \in Invitations |-> "USABLE"]
      /\ challenge = [c \in Challenges |-> NoChallenge]
      /\ lock = [x \in Lockable |-> Nobody]
      /\ task = [w \in Workers |-> Idle]
      /\ clashed = FALSE
      /\ enrolled = [i \in Invitations |-> 0]
      /\ spent = [c \in Challenges |-> 0]
      /\ guesses = [c \in Challenges |-> 0]
  BY DEF Init
<1>3. ASSUME NEW u \in Users
      PROVE  /\ account[u] \in Accounts /\ account[u].inv = Nobody
             /\ u \in registered => account[u].status = "ACTIVE"
  BY <1>1, SignInAssumption DEF Accounts, Statuses, NoAccount
<1>4. TypeOK
  <2>1. account \in [Users -> Accounts] /\ session \in [Sessions -> Users \cup {Nobody}]
    BY <1>1, <1>3
  <2>2. task \in [Workers -> Tasks] /\ challenge \in [Challenges -> ChallengeRows]
    BY <1>2, IdleIsTask, NoChallengeIsRow
  <2>3. QED
    BY <1>2, <2>1, <2>2 DEF TypeOK
<1>5. \A w \in Workers : Shape(w) /\ Holds(w)
  BY <1>2 DEF Shape, Holds, Verifying, Idle
<1>6. Rows
  <2>1. \A c \in Challenges : ChallengeFits(c)
    BY <1>2 DEF ChallengeFits, Stored, NoChallenge
  <2>2. \A i \in Invitations : InvitationFits(i)
    BY <1>2, <1>3, SignInAssumption DEF InvitationFits
  <2>3. LiveSessionsAreActive
    BY <1>1, <1>3 DEF LiveSessionsAreActive, Live
  <2>4. QED
    BY <1>2, <2>1, <2>2, <2>3 DEF Rows
<1>7. QED
  BY <1>4, <1>5, <1>6 DEF IInv

\* The request of w takes a step.
LEMMA RequestStep ==
  ASSUME IInv, NEW w \in Workers, Arrive(w) \/ Step(w) \/ Crash(w)
  PROVE  IInv'
<1>1. CASE Arrive(w)
  BY <1>1, RequestCodeStep, AdmitStep, ReadCodeStep DEF Arrive
<1>2. CASE RefuseClosure(w) \/ DeadlockVictim(w) \/ Crash(w)
  BY <1>2, Ending DEF RefuseClosure, DeadlockVictim, Crash
<1>3. CASE \/ RequestClosureCode(w) \/ (\E c \in Challenges : InsertChallenge(w, c))
           \/ \E delivered \in BOOLEAN : MarkDelivery(w, delivered)
  BY <1>3, RequestClosureCodeStep, InsertChallengeStep, MarkDeliveryStep
<1>4. CASE \/ WrongCode(w) \/ RightCode(w)
           \/ LogIn(w) \/ (\E s \in Sessions : CommitLogin(w, s)) \/ Register(w)
           \/ \E u \in Users, s \in Sessions : CommitRegistration(w, u, s)
  BY <1>4, WrongCodeStep, RightCodeStep, LogInStep, CommitLoginStep, RegisterStep,
     CommitRegistrationStep
<1>5. CASE CloseAccount(w) \/ (\E c \in Challenges : ReadClosureCode(w, c)) \/ EraseAccount(w)
  BY <1>5, CloseAccountStep, ReadClosureCodeStep, EraseAccountStep
<1>6. QED
  BY <1>1, <1>2, <1>3, <1>4, <1>5 DEF Step

LEMMA StepIInv == IInv /\ [Next]_vars => IInv'
<1> SUFFICES ASSUME IInv, [Next]_vars PROVE IInv'
  OBVIOUS
<1>1. CASE \E w \in Workers : Arrive(w) \/ Step(w) \/ Crash(w)
  BY <1>1, RequestStep
<1>2. CASE \E s \in Sessions : EndSession(s)
  BY <1>2, EndSessionStep
<1>3. CASE \E u \in Users : DisableUser(u) \/ RestoreUser(u)
  BY <1>3, DisableUserStep, RestoreUserStep
<1>4. CASE Tick
  BY <1>4, TickStep
<1>5. CASE UNCHANGED vars
  BY <1>5 DEF vars, IInv, TypeOK, Shape, Holds, Rows, ChallengeFits, InvitationFits,
              LiveSessionsAreActive, Live, Stored, Exists
<1>6. QED
  BY <1>1, <1>2, <1>3, <1>4, <1>5 DEF Next

\* The locks protect what the requests rely on, for any number of users,
\* addresses, invitations, codes, sessions and requests.
THEOREM LocksProtect == Spec => []IInv
BY InitIInv, StepIInv, PTL DEF Spec

\* Rows, locks and locals keep their types; no row counts more wrong codes
\* than it allows.
THEOREM TypeCorrect == Spec => []TypeOK
<1>1. IInv => TypeOK
  BY DEF IInv
<1>2. QED
  BY <1>1, LocksProtect, PTL

\* However registrations, closures and failures are interleaved, an
\* invitation opens one account at most.
THEOREM InvitationOpensOne == Spec => []InvitationOpensOneAccount
<1>1. IInv => InvitationOpensOneAccount
  BY DEF IInv, Rows, InvitationFits, InvitationOpensOneAccount
<1>2. QED
  BY <1>1, LocksProtect, PTL

\* No registration ever fails on a unique constraint: the advisory lock of the
\* address and the lock of the invitation decide first.
THEOREM NoClash == Spec => []RegistrationsNeverClash
<1>1. IInv => RegistrationsNeverClash
  BY DEF IInv, Rows, RegistrationsNeverClash
<1>2. QED
  BY <1>1, LocksProtect, PTL

\* A code is consumed once, although two requests may present it at once.
THEOREM CodeOpensOnce == Spec => []CodeSpentOnce
<1>1. IInv => CodeSpentOnce
  BY DEF IInv, Rows, ChallengeFits, CodeSpentOnce
<1>2. QED
  BY <1>1, LocksProtect, PTL

\* Concurrent guesses are all counted: none is compared beyond the limit.
THEOREM GuessesBounded == Spec => []GuessesAreBounded
<1>1. ASSUME IInv, NEW c \in Challenges PROVE guesses[c] <= MaxAttempts
  <2>1. challenge[c].attempts \in 0..MaxAttempts /\ guesses[c] = challenge[c].attempts
    BY <1>1 DEF IInv, TypeOK, ChallengeRows, Rows, ChallengeFits
  <2>2. QED
    BY <2>1, SignInAssumption
<1>2. IInv => GuessesAreBounded
  BY <1>1 DEF GuessesAreBounded
<1>3. QED
  BY <1>2, LocksProtect, PTL

\* No login slips past a disablement or a closure.
THEOREM LiveMeansActive == Spec => []LiveSessionsAreActive
<1>1. IInv => LiveSessionsAreActive
  BY DEF IInv, Rows
<1>2. QED
  BY <1>1, LocksProtect, PTL

\* Neither a session of a closed account nor a challenge that refers to it is
\* left, or comes back with a request that was under way.
THEOREM ClosureIsComplete == Spec => []ClosedLeavesNothing
<1>1. ASSUME IInv PROVE ClosedLeavesNothing
  <2>1. ASSUME NEW u \in Users, account[u].status = "CLOSED", NEW s \in Sessions
        PROVE  session[s] # u
    BY <1>1, <2>1, SignInAssumption DEF IInv, Rows, LiveSessionsAreActive, Live
  <2>2. ASSUME NEW u \in Users, account[u].status = "CLOSED", NEW c \in Challenges
        PROVE  challenge[c].user # u
    BY <1>1, <2>2, SignInAssumption DEF IInv, Rows, ChallengeFits, Exists
  <2>3. QED
    BY <2>1, <2>2 DEF ClosedLeavesNothing
<1>2. QED
  BY <1>1, LocksProtect, PTL
=============================================================================
