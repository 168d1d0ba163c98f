--------------------------- MODULE AccountsProofs ---------------------------
(***************************************************************************)
(* What TLAPS proves of Accounts, for any users, keys, batches, names,     *)
(* clients and requests: that a key applies once, that the audit tells the *)
(* truth, that a closed target is forgotten, that administrators touch     *)
(* ordinary users only, and that names are neither inherited nor changed   *)
(* behind a disabled user.                                                 *)
(*                                                                         *)
(* As in SignInProofs, a request relies on the rows it has locked (Knows)  *)
(* and no step of anybody else disturbs them (Keeps).  None of this needs  *)
(* a balance: the units a request has read may be anything here, TaskShape *)
(* and EntryShape give the fields and not their types.  BalanceProofs has  *)
(* the types and the balances.                                             *)
(***************************************************************************)
EXTENDS Accounts, FiniteSetTheorems, TLAPS

TaskShape(k) ==
  k = [pc |-> k.pc, who |-> k.who, target |-> k.target, delta |-> k.delta,
       seen |-> k.seen, name |-> k.name, barred |-> k.barred]

EntryShape(e) ==
  e = [made |-> e.made, target |-> e.target, delta |-> e.delta, after |-> e.after,
       reverses |-> e.reverses]

\* The variables are functions of what they should be functions of.
Shapes ==
  /\ account \in [Users -> Accounts]
  /\ claim = [k \in Keys |-> claim[k]]
  /\ ledger = [k \in Keys |-> ledger[k]]
  /\ trace = [x \in Keys \cup Workers |-> trace[x]]
  /\ lock \in [Lockable -> Workers \cup {Nobody}]
  /\ request \in [Workers -> Requests]
  /\ task = [w \in Workers |-> task[w]]
  /\ logged = [u \in Users |-> logged[u]]
  /\ effects \in [Keys -> Nat]
  /\ told = [k \in Keys |-> told[k]]

\* What the locals of a request name.
Targeted == UserActions \cup QuotaActions

Shape(w) ==
  LET k == task[w]
      r == request[w] IN
  /\ TaskShape(k)
  /\ k.pc = "lookup" => r.action = "QUOTA_REVERSE"
  /\ k.pc \in {"claim", "target", "apply"} =>
       /\ r.action \in Writes
       /\ IF r.action \in Targeted THEN k.target \in Users ELSE k.target = Nobody
  /\ k.pc \in {"self", "looking", "looked", "insert"} => k.name \in Names

\* What a request knows of the rows it has locked, and of the name it wants.
Knows(w) ==
  LET k == task[w]
      r == request[w] IN
  /\ k.pc \in {"target", "apply"} => lock[r.key] = w /\ ~claim[r.key].made
  /\ k.pc = "apply" /\ r.action \in Targeted =>
       /\ lock[k.target] = w /\ Exists(k.target)
       /\ k.seen = [user |-> k.target, status |-> account[k.target].status,
                    role |-> account[k.target].role, left |-> k.seen.left]
       /\ k.who # "OWNER" => account[k.target].role = "USER" /\ k.target \notin {Owner, r.by}
  /\ k.pc \in {"looking", "looked"} => lock[r.by] = w /\ account[r.by].status = "ACTIVE"
  /\ k.pc \in {"self", "looking"} /\ k.barred => Held(k.name) \/ k.name \in quarantine
  /\ k.pc = "looked" /\ k.barred => k.name \in quarantine \/ account[r.by].name = k.name

Remembered(u) == u = Nobody \/ (u \in Users /\ Exists(u))

\* The answers a given under a key whose claim is c: what the claim stores, and
\* raw codes at most once, for the claim stores none.
AnswersFit(c, a) ==
  /\ ~c.codes
  /\ IF c.made THEN a.said \subseteq {c.answer} /\ a.disclosed \in {0, 1}
     ELSE a.said = {} /\ a.disclosed = 0

KeyFits(k) ==
  /\ effects[k] = IF claim[k].made THEN 1 ELSE 0
  /\ AnswersFit(claim[k], told[k])
  /\ EntryShape(ledger[k])
  /\ Remembered(ledger[k].target)
  /\ Remembered(trace[k].target)

UserFits(u) ==
  /\ Exists(u) => account[u].status = logged[u].status /\ account[u].role = logged[u].role
  /\ account[u].status = "ABSENT" => logged[u].status = "ACTIVE" /\ logged[u].role = "USER"
  /\ ~Exists(u) => account[u].name = Nobody

ReversedOnce ==
  \A j, k \in Keys :
    ledger[j].reverses \in Keys /\ ledger[j].reverses = ledger[k].reverses => j = k

\* Keys, ledger, audit and users agree.
Fit ==
  /\ \A k \in Keys : KeyFits(k)
  /\ \A u \in Users : UserFits(u)
  /\ ReversedOnce

\* The inductive invariant.
IInv == Shapes /\ (\A w \in Workers : Shape(w) /\ Knows(w)) /\ Fit

\* What a step of v, or of nobody in particular, leaves to the requests of
\* others: their locals, their locks, and what they know of locked rows.
Keeps(v) ==
  \A w \in Workers \ {v} :
    /\ task'[w] = task[w]
    /\ \A x \in Lockable : lock[x] = w => lock'[x] = w
    /\ \A k \in Keys : lock[k] = w => claim'[k].made = claim[k].made
    /\ \A u \in Users : lock[u] = w /\ Exists(u) =>
         /\ account'[u].status = account[u].status /\ account'[u].role = account[u].role
         /\ account'[u].name = account[u].name
    /\ \A n \in Names : n = task[w].name =>
         /\ Held(n) \/ n \in quarantine => Held(n)' \/ n \in quarantine'
         /\ n \in quarantine => n \in quarantine'

\* How a step of v moves the locks.
Moves(v) ==
  \/ lock' = lock
  \/ lock' = Released(v)
  \/ \E x \in Lockable : Free(v, x) /\ lock' = [lock EXCEPT ![x] = v]

-----------------------------------------------------------------------------
(* Frames.                                                                 *)

\* Locking and releasing leave the locks of everybody else alone.
LEMMA LocksKept ==
  ASSUME Shapes, NEW v \in Workers, Moves(v)
  PROVE  /\ lock' \in [Lockable -> Workers \cup {Nobody}]
         /\ \A w \in Workers \ {v}, x \in Lockable : lock[x] = w => lock'[x] = w
<1>1. lock \in [Lockable -> Workers \cup {Nobody}] /\ Nobody \notin Workers
  BY AccountsAssumption DEF Shapes
<1>2. CASE lock' = lock
  BY <1>1, <1>2
<1>3. CASE lock' = Released(v)
  BY <1>1, <1>3 DEF Released
<1>4. CASE \E x \in Lockable : Free(v, x) /\ lock' = [lock EXCEPT ![x] = v]
  BY <1>1, <1>4 DEF Free
<1>5. QED
  BY <1>2, <1>3, <1>4 DEF Moves

LEMMA IdleShape == TaskShape(Idle) /\ Idle.pc = "idle"
BY DEF TaskShape, Idle

\* An idle request names and knows nothing.
LEMMA IdleKnows ==
  ASSUME NEW v, task'[v] = Idle
  PROVE  Shape(v)' /\ Knows(v)'
BY IdleShape DEF Shape, Knows

\* A step of v replaces the locals of v only.
LEMMA TaskStep ==
  ASSUME Shapes, NEW v \in Workers, NEW k, task' = [task EXCEPT ![v] = k]
  PROVE  /\ task' = [w \in Workers |-> task'[w]]
         /\ task'[v] = k
         /\ \A w \in Workers \ {v} : task'[w] = task[w]
BY DEF Shapes

\* Going on changes the program counter and no other local.
LEMMA GoingOn ==
  ASSUME Shapes, NEW w \in Workers, TaskShape(task[w]), NEW pc, GoOn(w, pc)
  PROVE  \E k : /\ task' = [task EXCEPT ![w] = k] /\ TaskShape(k) /\ k.pc = pc
                /\ k.who = task[w].who /\ k.target = task[w].target /\ k.seen = task[w].seen
                /\ k.name = task[w].name /\ k.barred = task[w].barred
<1>. DEFINE k == [task[w] EXCEPT !.pc = pc]
<1>1. task' = [task EXCEPT ![w] = k]
  BY DEF GoOn, Shapes
<1>2. /\ TaskShape(k) /\ k.pc = pc
      /\ k.who = task[w].who /\ k.target = task[w].target /\ k.seen = task[w].seen
      /\ k.name = task[w].name /\ k.barred = task[w].barred
  BY DEF TaskShape
<1>3. QED
  BY <1>1, <1>2

\* What the locals of requests name can be locked.
LEMMA Named ==
  ASSUME Shapes, NEW w \in Workers
  PROVE  /\ request[w] \in Requests /\ request[w].by \in Users /\ request[w].by \in Lockable
         /\ Keys \subseteq Lockable /\ Users \subseteq Lockable /\ Batches \subseteq Lockable
         /\ request[w].action \in Writes => request[w].key \in Keys
BY AccountsAssumption DEF Shapes, Lockable

\* A request that a step keeps knows what it knew.
LEMMA OthersKnow ==
  ASSUME Shapes, UNCHANGED request, NEW v, Keeps(v), NEW w \in Workers \ {v}, Shape(w), Knows(w)
  PROVE  Shape(w)' /\ Knows(w)'
<1>. DEFINE k == task[w]
            r == request[w]
<1>1. task'[w] = task[w] /\ request'[w] = request[w]
  BY DEF Keeps
<1>2. Shape(w)'
  BY <1>1 DEF Shape
<1>3. k.pc \in {"target", "apply"} => lock'[r.key] = w /\ ~claim'[r.key].made
  BY Named DEF Keeps, Shape, Knows
<1>4. k.pc = "apply" /\ r.action \in Targeted =>
        /\ lock'[k.target] = w /\ Exists(k.target)
        /\ account'[k.target].status = account[k.target].status
        /\ account'[k.target].role = account[k.target].role
  BY Named DEF Keeps, Shape, Knows
<1>5. k.pc \in {"looking", "looked"} =>
        /\ lock'[r.by] = w /\ account'[r.by].status = "ACTIVE"
        /\ account'[r.by].name = account[r.by].name
  BY Named DEF Keeps, Knows, Exists
<1>6. k.pc \in {"self", "looking"} /\ k.barred => Held(k.name)' \/ k.name \in quarantine'
  <2>1. SUFFICES ASSUME k.pc \in {"self", "looking"}, k.barred
                 PROVE  Held(task[w].name)' \/ task[w].name \in quarantine'
    OBVIOUS
  <2>2. PICK n \in Names : n = task[w].name
    BY <2>1 DEF Shape
  <2>3. Held(n) \/ n \in quarantine
    BY <2>1, <2>2 DEF Knows
  <2>4. Held(n)' \/ n \in quarantine'
    BY <2>2, <2>3 DEF Keeps
  <2>5. QED
    BY <1>1, <2>2, <2>4 DEF Held
<1>7. k.pc = "looked" /\ k.barred => k.name \in quarantine' \/ account[r.by].name = k.name
  BY DEF Keeps, Shape, Knows
<1>8. /\ k.pc = "apply" /\ r.action \in Targeted =>
           /\ lock'[k.target] = w /\ Exists(k.target)'
           /\ k.seen = [user |-> k.target, status |-> account'[k.target].status,
                        role |-> account'[k.target].role, left |-> k.seen.left]
           /\ k.who # "OWNER" => account'[k.target].role = "USER"
                                 /\ k.target \notin {Owner, r.by}
  BY <1>1, <1>4 DEF Knows, Exists
<1>9. Knows(w)'
  BY <1>1, <1>3, <1>5, <1>6, <1>7, <1>8 DEF Knows
<1>10. QED
  BY <1>2, <1>9

\* The invariant after a step of v is what the rows and v itself add to it.
LEMMA Together ==
  ASSUME IInv, UNCHANGED request, NEW v, Keeps(v), Shapes', Fit',
         \A w \in Workers : w = v => Shape(w)' /\ Knows(w)'
  PROVE  IInv'
<1>1. ASSUME NEW w \in Workers PROVE Shape(w)' /\ Knows(w)'
  <2>1. CASE w = v
    BY <2>1
  <2>2. CASE w # v
    BY <2>2, OthersKnow DEF IInv
  <2>3. QED
    BY <2>1, <2>2
<1>2. QED
  BY <1>1 DEF IInv

\* The answers given agree with the claims.
Told ==
  /\ told' = [k \in Keys |-> told'[k]]
  /\ \A k \in Keys : AnswersFit(claim[k], told'[k])

\* An answer adds to what was said under its key, and to no other key.
LEMMA Answering ==
  ASSUME Shapes, NEW key \in Keys, NEW answer, NEW codes, Answer(key, answer, codes)
  PROVE  /\ told' = [k \in Keys |-> told'[k]]
         /\ told'[key].said = told[key].said \cup {answer}
         /\ told'[key].disclosed = told[key].disclosed + (IF codes THEN 1 ELSE 0)
         /\ \A k \in Keys \ {key} : told'[k] = told[k]
<1>1. PICK n : n = told[key].disclosed + (IF codes THEN 1 ELSE 0)
  OBVIOUS
<1>2. PICK a : a = [said |-> told[key].said \cup {answer}, disclosed |-> n]
  OBVIOUS
<1>3. told' = [told EXCEPT ![key] = a]
  BY <1>1, <1>2, Zenon DEF Answer
<1>4. told = [k \in Keys |-> told[k]]
  BY DEF Shapes
<1>5. told' = [k \in Keys |-> told'[k]] /\ told'[key] = a
      /\ \A k \in Keys \ {key} : told'[k] = told[k]
  BY <1>3, <1>4
<1>6. a.said = told[key].said \cup {answer} /\ a.disclosed = n
  BY <1>2
<1>7. QED
  BY <1>1, <1>5, <1>6

LEMMA NothingTold ==
  ASSUME IInv, UNCHANGED told
  PROVE  Told
BY DEF IInv, Shapes, Fit, KeyFits, Told

\* A step that writes none of the rows that the invariant is about.
LEMMA Looking ==
  ASSUME IInv, NEW v \in Workers, NEW k, task' = [task EXCEPT ![v] = k],
         Moves(v), Told, Shape(v)', Knows(v)',
         UNCHANGED <<account, claim, ledger, quarantine, logged, request, effects>>,
         trace' = [x \in Keys \cup Workers |-> trace'[x]],
         \A j \in Keys : trace'[j] = trace[j]
  PROVE  IInv'
<1>1. Shapes
  BY DEF IInv
<1>2. Shapes'
  <2>1. /\ task' = [w \in Workers |-> task'[w]]
        /\ lock' \in [Lockable -> Workers \cup {Nobody}]
    BY <1>1, TaskStep, LocksKept
  <2>2. /\ account' \in [Users -> Accounts]
        /\ claim' = [j \in Keys |-> claim'[j]]
        /\ ledger' = [j \in Keys |-> ledger'[j]]
        /\ request' \in [Workers -> Requests]
        /\ logged' = [u \in Users |-> logged'[u]]
        /\ effects' \in [Keys -> Nat]
        /\ told' = [j \in Keys |-> told'[j]]
    BY <1>1 DEF Shapes, Told
  <2>3. QED
    BY <2>1, <2>2 DEF Shapes
<1>3. Fit'
  <2>1. ASSUME NEW j \in Keys PROVE KeyFits(j)'
    <3>1. KeyFits(j)
      BY DEF IInv, Fit
    <3>2. QED
      BY <3>1 DEF KeyFits, Told, EntryShape, Remembered, Exists
  <2>2. ASSUME NEW u \in Users PROVE UserFits(u)'
    BY DEF IInv, Fit, UserFits, Exists
  <2>3. ReversedOnce'
    BY DEF IInv, Fit, ReversedOnce
  <2>4. QED
    BY <2>1, <2>2, <2>3 DEF Fit
<1>4. Keeps(v)
  <2>1. \A w \in Workers \ {v}, x \in Lockable : lock[x] = w => lock'[x] = w
    BY <1>1, LocksKept
  <2>2. \A n \in Names : (Held(n) <=> Held(n)')
    BY DEF Held
  <2>3. QED
    BY <1>1, <2>1, <2>2, TaskStep DEF Keeps
<1>5. QED
  BY <1>2, <1>3, <1>4, Together

\* The request ends, and at most a row that names no key was written.
LEMMA Ending ==
  ASSUME IInv, NEW v \in Workers, Finish(v), Told,
         UNCHANGED <<account, claim, ledger, quarantine, logged, request, effects>>,
         trace' = [x \in Keys \cup Workers |-> trace'[x]],
         \A j \in Keys : trace'[j] = trace[j]
  PROVE  IInv'
<1>1. task' = [task EXCEPT ![v] = Idle] /\ Moves(v)
  BY DEF Finish, Moves
<1>2. task'[v] = Idle
  BY <1>1, TaskStep DEF IInv
<1>3. Shape(v)' /\ Knows(v)'
  BY <1>2, IdleKnows
<1>4. QED
  BY <1>1, <1>3, Looking

\* The same of steps that leave every row as it is.
LEMMA RowsShape ==
  ASSUME IInv, UNCHANGED rows
  PROVE  /\ UNCHANGED <<account, claim, ledger, quarantine, logged>>
         /\ trace' = [x \in Keys \cup Workers |-> trace'[x]]
         /\ \A j \in Keys : trace'[j] = trace[j]
BY DEF IInv, Shapes, rows

LEMMA Refusing ==
  ASSUME IInv, NEW w \in Workers, Refuse(w)
  PROVE  IInv'
<1>1. UNCHANGED <<rows, request, effects, told>> /\ lock' = Released(w) /\ GoOn(w, "refused")
  BY DEF Refuse, history
<1>2. Shapes /\ TaskShape(task[w])
  BY DEF IInv, Shape
<1>3. PICK k : task' = [task EXCEPT ![w] = k] /\ TaskShape(k) /\ k.pc = "refused"
  BY <1>1, <1>2, GoingOn
<1>4. task'[w] = k
  BY <1>2, <1>3, TaskStep
<1>5. Shape(w)' /\ Knows(w)'
  BY <1>3, <1>4 DEF Shape, Knows
<1>6. Moves(w) /\ Told
  BY <1>1, NothingTold DEF Moves
<1>7. QED
  BY <1>1, <1>3, <1>5, <1>6, RowsShape, Looking

-----------------------------------------------------------------------------
(* The console, up to the commit.                                          *)

\* One local replaced leaves the others.
LEMMA Who ==
  ASSUME NEW t, TaskShape(t), NEW x, NEW k, k = [t EXCEPT !.who = x]
  PROVE  TaskShape(k)
BY DEF TaskShape

LEMMA Pc ==
  ASSUME NEW t, TaskShape(t), NEW x, NEW k, k = [t EXCEPT !.pc = x]
  PROVE  TaskShape(k) /\ k.pc = x
BY DEF TaskShape

LEMMA Target ==
  ASSUME NEW t, TaskShape(t), NEW x, NEW k, k = [t EXCEPT !.target = x]
  PROVE  TaskShape(k) /\ k.target = x /\ k.pc = t.pc
BY DEF TaskShape

LEMMA Delta ==
  ASSUME NEW t, TaskShape(t), NEW x, NEW k, k = [t EXCEPT !.delta = x]
  PROVE  TaskShape(k) /\ k.target = t.target /\ k.pc = t.pc
BY DEF TaskShape

Admitted(t, who, pc, target, delta) ==
  [t EXCEPT !.who = who, !.pc = pc, !.target = target, !.delta = delta]

LEMMA AdmittedShape ==
  ASSUME NEW t, TaskShape(t), NEW who, NEW pc, NEW target, NEW delta
  PROVE  LET k == Admitted(t, who, pc, target, delta)
         IN  TaskShape(k) /\ k.pc = pc /\ k.target = target
<1>. DEFINE k == Admitted(t, who, pc, target, delta)
<1>1. PICK a : a = [t EXCEPT !.who = who]
  OBVIOUS
<1>2. PICK b : b = [a EXCEPT !.pc = pc]
  OBVIOUS
<1>3. PICK c : c = [b EXCEPT !.target = target]
  OBVIOUS
<1>4. k = [c EXCEPT !.delta = delta]
  BY <1>1, <1>2, <1>3 DEF Admitted
<1>. HIDE DEF k
<1>5. TaskShape(a)
  BY <1>1, Who
<1>6. TaskShape(b) /\ b.pc = pc
  BY <1>2, <1>5, Pc
<1>7. TaskShape(c) /\ c.pc = pc /\ c.target = target
  BY <1>3, <1>6, Target
<1>8. TaskShape(k) /\ k.target = c.target /\ k.pc = c.pc
  <2>1. TaskShape(c) /\ k = [c EXCEPT !.delta = delta]
    BY <1>4, <1>7
  <2>2. QED
    BY ONLY <2>1, Delta
<1>9. QED
  BY <1>7, <1>8 DEF k

\* An admitted request has its target from the request.
LEMMA AdmitAdminStep ==
  ASSUME IInv, NEW w \in Workers, AdmitAdmin(w)
  PROVE  IInv'
<1>. DEFINE r == request[w]
            pc == IF Identity(r.by) = "USER" THEN "refused"
                  ELSE IF r.action = "QUOTA_REVERSE" THEN "lookup"
                  ELSE IF r.action \in Writes THEN "claim" ELSE "admitted"
            u == IF r.on \in Users THEN r.on ELSE Nobody
            k == Admitted(task[w], Identity(r.by), pc, u, r.delta)
<1>1. Shapes /\ TaskShape(task[w])
  BY DEF IInv, Shape
<1>2. /\ task' = [task EXCEPT ![w] = k]
      /\ UNCHANGED <<rows, request, effects, told>> /\ lock' = lock
  BY <1>1 DEF AdmitAdmin, Admitted, Shapes, history
<1>3. /\ TaskShape(k) /\ k.pc = pc
      /\ k.target = IF r.on \in Users THEN r.on ELSE Nobody
  BY <1>1, AdmittedShape
<1>4. r \in Requests
  BY <1>1, Named
<1>5. pc = "lookup" => r.action = "QUOTA_REVERSE"
  OBVIOUS
<1>6. pc = "claim" =>
        /\ r.action \in Writes
        /\ IF r.action \in Targeted THEN k.target \in Users ELSE k.target = Nobody
  <2>1. SUFFICES ASSUME pc = "claim"
                 PROVE  /\ r.action \in Writes
                        /\ IF r.action \in Targeted THEN k.target \in Users
                                                    ELSE k.target = Nobody
    OBVIOUS
  <2>2. r.action \in Writes /\ r.action # "QUOTA_REVERSE"
    BY <2>1
  <2>3. r.action \in Targeted => r.on \in Users
    BY <1>4, <2>2, AccountsAssumption DEF Targeted, QuotaActions
  <2>4. r.action \notin Targeted => r.on \notin Users
    BY <1>4, <2>2, AccountsAssumption DEF Targeted, Writes
  <2>5. QED
    BY <1>3, <2>2, <2>3, <2>4
<1>7. pc \in {"refused", "lookup", "claim", "admitted"}
  OBVIOUS
<1>. HIDE DEF k, pc
<1>8. task'[w] = k /\ request'[w] = r
  BY <1>1, <1>2, TaskStep
<1>9. Shape(w)' /\ Knows(w)'
  BY <1>3, <1>5, <1>6, <1>7, <1>8 DEF Shape, Knows
<1>10. Moves(w) /\ Told
  BY <1>2, NothingTold DEF Moves
<1>11. QED
  BY <1>2, <1>9, <1>10, RowsShape, Looking

LEMMA RecordRefusalStep ==
  ASSUME IInv, NEW w \in Workers, RecordRefusal(w)
  PROVE  IInv'
<1>1. /\ trace' = [x \in Keys \cup Workers |-> trace'[x]]
      /\ \A j \in Keys : trace'[j] = trace[j]
  BY AccountsAssumption DEF RecordRefusal, IInv, Shapes
<1>2. QED
  BY <1>1, NothingTold, Ending DEF RecordRefusal, history

LEMMA RevealStep ==
  ASSUME IInv, NEW w \in Workers, Reveal(w)
  PROVE  IInv'
<1>1. /\ trace' = [x \in Keys \cup Workers |-> trace'[x]]
      /\ \A j \in Keys : trace'[j] = trace[j]
  BY AccountsAssumption DEF Reveal, IInv, Shapes
<1>2. QED
  BY <1>1, NothingTold, Ending DEF Reveal, history

LEMMA CrashStep ==
  ASSUME IInv, NEW w \in Workers, Crash(w)
  PROVE  IInv'
BY RowsShape, NothingTold, Ending DEF Crash, history

\* A reading that goes on to the reading of secrets.
LEMMA Revealing ==
  ASSUME IInv, NEW w \in Workers, GoOn(w, "revealed"), UNCHANGED <<rows, lock, request, history>>
  PROVE  IInv'
<1>1. Shapes /\ TaskShape(task[w])
  BY DEF IInv, Shape
<1>2. PICK k : task' = [task EXCEPT ![w] = k] /\ TaskShape(k) /\ k.pc = "revealed"
  BY <1>1, GoingOn
<1>3. task'[w] = k
  BY <1>1, <1>2, TaskStep
<1>4. Shape(w)' /\ Knows(w)'
  BY <1>2, <1>3 DEF Shape, Knows
<1>5. Moves(w) /\ Told
  BY NothingTold DEF Moves, history
<1>6. QED
  BY <1>2, <1>4, <1>5, RowsShape, Looking DEF history

LEMMA LookUpRevealedStep ==
  ASSUME IInv, NEW w \in Workers, LookUpRevealed(w)
  PROVE  IInv'
<1>1. CASE Finish(w)
  BY <1>1, RowsShape, NothingTold, Ending DEF LookUpRevealed, history
<1>2. CASE GoOn(w, "revealed") /\ UNCHANGED lock
  BY <1>2, Revealing DEF LookUpRevealed
<1>3. QED
  BY <1>1, <1>2 DEF LookUpRevealed

LEMMA LookUpCodeStep ==
  ASSUME IInv, NEW w \in Workers, LookUpCode(w)
  PROVE  IInv'
BY Refusing, Revealing DEF LookUpCode

\* A new key is locked, a key of the same request is answered from its claim.
LEMMA ClaimKeyStep ==
  ASSUME IInv, NEW w \in Workers, ClaimKey(w)
  PROVE  IInv'
<1>1. Shapes /\ TaskShape(task[w]) /\ Shape(w)
  BY DEF IInv, Shape
<1>2. task[w].pc = "claim" /\ request[w].action \in Writes
  BY <1>1 DEF ClaimKey, Shape
<1>3. PICK key \in Keys : key = request[w].key
  BY <1>1, <1>2, Named
<1>4. CASE ~claim[key].made
  <2>1. /\ lock' = [lock EXCEPT ![key] = w] /\ Free(w, key) /\ GoOn(w, "target")
        /\ UNCHANGED <<rows, request, history>>
    BY <1>3, <1>4 DEF ClaimKey, KeyFree
  <2>2. PICK k : /\ task' = [task EXCEPT ![w] = k] /\ TaskShape(k) /\ k.pc = "target"
                 /\ k.target = task[w].target
    BY <1>1, <2>1, GoingOn
  <2>3. task'[w] = k
    BY <1>1, <2>2, TaskStep
  <2>4. Shape(w)'
    BY <1>1, <1>2, <2>1, <2>2, <2>3 DEF Shape
  <2>5. lock'[key] = w /\ key \in Lockable
    BY <1>1, <2>1, Named DEF Shapes
  <2>6. Knows(w)'
    BY <1>3, <1>4, <2>1, <2>2, <2>3, <2>5 DEF Knows, rows
  <2>7. Moves(w) /\ Told
    BY <2>1, <2>5, NothingTold DEF Moves, history
  <2>8. QED
    BY <2>1, <2>2, <2>4, <2>6, <2>7, RowsShape, Looking DEF history
<1>5. CASE claim[key].made /\ Refuse(w)
  BY <1>5, Refusing
<1>6. CASE claim[key].made /\ Answer(key, claim[key].answer, claim[key].codes) /\ Finish(w)
           /\ UNCHANGED <<rows, request, effects>>
  <2>1. /\ told' = [k \in Keys |-> told'[k]]
        /\ told'[key].said = told[key].said \cup {claim[key].answer}
        /\ told'[key].disclosed = told[key].disclosed + (IF claim[key].codes THEN 1 ELSE 0)
        /\ \A k \in Keys \ {key} : told'[k] = told[k]
    BY <1>1, <1>6, Answering
  <2>2. Told
    <3>1. ASSUME NEW k \in Keys
          PROVE  AnswersFit(claim[k], told'[k])
      <4>1. AnswersFit(claim[k], told[k])
        BY DEF IInv, Fit, KeyFits
      <4>2. CASE k = key
        BY <1>6, <2>1, <4>1, <4>2 DEF AnswersFit
      <4>3. CASE k # key
        BY <2>1, <4>1, <4>3
      <4>4. QED
        BY <4>2, <4>3
    <3>2. QED
      BY <2>1, <3>1 DEF Told
  <2>3. QED
    BY <1>6, <2>2, RowsShape, Ending
<1>7. QED
  BY <1>3, <1>4, <1>5, <1>6 DEF ClaimKey

LookedUp(t, target, delta) == [t EXCEPT !.pc = "claim", !.target = target, !.delta = delta]
Readied(t, view) == [t EXCEPT !.pc = "apply", !.seen = view]

LEMMA LookedUpShape ==
  ASSUME NEW t, TaskShape(t), NEW target, NEW delta
  PROVE  LET k == LookedUp(t, target, delta)
         IN  TaskShape(k) /\ k.pc = "claim" /\ k.target = target
<1>. DEFINE k == LookedUp(t, target, delta)
<1>1. PICK b : b = [t EXCEPT !.pc = "claim"]
  OBVIOUS
<1>2. PICK c : c = [b EXCEPT !.target = target]
  OBVIOUS
<1>3. k = [c EXCEPT !.delta = delta]
  BY <1>1, <1>2 DEF LookedUp
<1>. HIDE DEF k
<1>4. TaskShape(b) /\ b.pc = "claim"
  BY <1>1, Pc
<1>5. TaskShape(c) /\ c.pc = "claim" /\ c.target = target
  BY <1>2, <1>4, Target
<1>6. TaskShape(k) /\ k.target = c.target /\ k.pc = c.pc
  <2>1. TaskShape(c) /\ k = [c EXCEPT !.delta = delta]
    BY <1>3, <1>5
  <2>2. QED
    BY ONLY <2>1, Delta
<1>7. QED
  BY <1>5, <1>6 DEF k

LEMMA ReadiedShape ==
  ASSUME NEW t, TaskShape(t), NEW view
  PROVE  LET k == Readied(t, view)
         IN  /\ TaskShape(k) /\ k.pc = "apply" /\ k.seen = view
             /\ k.target = t.target /\ k.who = t.who
<1>1. PICK b : b = [t EXCEPT !.pc = "apply"]
  OBVIOUS
<1>2. TaskShape(b) /\ b.pc = "apply" /\ b.target = t.target /\ b.who = t.who
  BY <1>1 DEF TaskShape
<1>3. Readied(t, view) = [b EXCEPT !.seen = view]
  BY <1>1 DEF Readied
<1>4. QED
  BY <1>2, <1>3 DEF TaskShape

\* A reversal has its target from the adjustment, which names a user.
LEMMA LookUpAdjustmentStep ==
  ASSUME IInv, NEW w \in Workers, LookUpAdjustment(w)
  PROVE  IInv'
<1>. DEFINE r == request[w]
            e == ledger[r.on]
            k == LookedUp(task[w], e.target, -e.delta)
<1>1. /\ Shapes /\ TaskShape(task[w]) /\ r \in Requests
      /\ r.action = "QUOTA_REVERSE" /\ r.on \in Keys
  <2>1. Shapes /\ TaskShape(task[w]) /\ Shape(w)
    BY DEF IInv, Shape
  <2>2. r.action = "QUOTA_REVERSE"
    BY <2>1 DEF LookUpAdjustment, Shape
  <2>3. QED
    BY <2>1, <2>2, Named, AccountsAssumption
<1>2. CASE Refuse(w)
  BY <1>2, Refusing
<1>3. CASE /\ e.target # Nobody
           /\ task' = [task EXCEPT ![w].pc = "claim", ![w].target = e.target,
                                   ![w].delta = -e.delta]
           /\ UNCHANGED <<rows, lock, request, history>>
  <2>1. task' = [task EXCEPT ![w] = k]
    BY <1>1, <1>3 DEF LookedUp, Shapes
  <2>2. TaskShape(k) /\ k.pc = "claim" /\ k.target = e.target
    BY <1>1, LookedUpShape
  <2>3. e.target \in Users
    BY <1>1, <1>3 DEF IInv, Fit, KeyFits, Remembered
  <2>. HIDE DEF k
  <2>4. task'[w] = k /\ request'[w] = r
    BY <1>1, <1>3, <2>1, TaskStep
  <2>5. Shape(w)' /\ Knows(w)'
    BY <1>1, <2>2, <2>3, <2>4 DEF Shape, Knows, Writes, Targeted, QuotaActions
  <2>6. Moves(w) /\ Told
    BY <1>3, NothingTold DEF Moves, history
  <2>7. QED
    BY <1>3, <2>1, <2>5, <2>6, RowsShape, Looking DEF history
<1>4. QED
  BY <1>2, <1>3 DEF LookUpAdjustment

\* The target is read under its lock, and is what the actor may write.
LEMMA LockUserTargetStep ==
  ASSUME IInv, NEW w \in Workers, LockUserTarget(w)
  PROVE  IInv'
<1>. DEFINE r == request[w]
<1>0. PICK u : u = task[w].target
  OBVIOUS
<1>. DEFINE k == Readied(task[w], View(u))
<1>1. /\ Shapes /\ TaskShape(task[w]) /\ r \in Requests
      /\ r.action \in Targeted /\ r.action \in Writes /\ task[w].pc = "target"
      /\ u \in Users /\ u \in Lockable /\ r.key \in Lockable /\ r.key \in Keys
  BY <1>0, Named DEF IInv, Shape, LockUserTarget, Targeted
<1>2. lock[r.key] = w /\ ~claim[r.key].made
  BY <1>1 DEF IInv, Knows
<1>3. CASE Refuse(w)
  BY <1>3, Refusing
<1>4. CASE /\ Free(w, u) /\ Exists(u) /\ Allowed(w)
           /\ lock' = [lock EXCEPT ![u] = w]
           /\ task' = [task EXCEPT ![w].pc = "apply", ![w].seen = View(u)]
           /\ UNCHANGED <<rows, request, history>>
  <2>1. task' = [task EXCEPT ![w] = k]
    BY <1>1, <1>4 DEF Readied, Shapes
  <2>2. /\ TaskShape(k) /\ k.pc = "apply" /\ k.seen = View(u)
        /\ k.target = u /\ k.who = task[w].who
    BY <1>0, <1>1, ReadiedShape
  <2>3. account[u].role \in {"USER", "ADMIN"}
    BY <1>1 DEF Shapes, Accounts, Roles
  <2>4. task[w].who # "OWNER" => account[u].role = "USER" /\ u \notin {Owner, r.by}
    BY <1>0, <1>4, <2>3 DEF Allowed
  <2>5. k.seen = [user |-> u, status |-> account[u].status, role |-> account[u].role,
                  left |-> k.seen.left]
    BY <2>2 DEF View
  <2>6. lock'[u] = w /\ lock'[r.key] = w
    BY <1>1, <1>2, <1>4 DEF Shapes
  <2>. HIDE DEF k
  <2>7. /\ task'[w] = k /\ request'[w] = r
        /\ account' = account /\ claim' = claim
    BY <1>1, <1>4, <2>1, TaskStep DEF rows
  <2>8. Shape(w)'
    BY <1>1, <2>2, <2>7 DEF Shape
  <2>9. Knows(w)'
    <3>1. Exists(u)'
      BY <1>4, <2>7 DEF Exists
    <3>2. QED
      BY <1>2, <2>2, <2>4, <2>5, <2>6, <2>7, <3>1 DEF Knows
  <2>10. Moves(w) /\ Told
    BY <1>1, <1>4, NothingTold DEF Moves, history
  <2>11. QED
    BY <1>4, <2>1, <2>8, <2>9, <2>10, RowsShape, Looking DEF history
<1>5. QED
  BY <1>0, <1>3, <1>4 DEF LockUserTarget, LockTarget

LEMMA LockInvitationsStep ==
  ASSUME IInv, NEW w \in Workers, LockInvitations(w)
  PROVE  IInv'
<1>. DEFINE r == request[w]
<1>1. /\ Shapes /\ TaskShape(task[w]) /\ Shape(w) /\ r \in Requests
      /\ r.action \in BatchActions /\ r.action \in Writes /\ task[w].pc = "target"
      /\ r.on \in Batches /\ r.on \in Lockable /\ r.key \in Lockable /\ r.key \in Keys
  BY Named, AccountsAssumption DEF IInv, Shape, LockInvitations
<1>2. r.action \notin Targeted
  BY <1>1 DEF BatchActions, Targeted, UserActions, QuotaActions
<1>3. lock[r.key] = w /\ ~claim[r.key].made
  BY <1>1 DEF IInv, Knows
<1>4. CASE Refuse(w)
  BY <1>4, Refusing
<1>5. CASE /\ Free(w, r.on)
           /\ lock' = [lock EXCEPT ![r.on] = w] /\ GoOn(w, "apply")
           /\ UNCHANGED <<rows, request, history>>
  <2>1. PICK k : /\ task' = [task EXCEPT ![w] = k] /\ TaskShape(k) /\ k.pc = "apply"
                 /\ k.target = task[w].target
    BY <1>1, <1>5, GoingOn
  <2>2. task'[w] = k /\ request'[w] = r /\ claim' = claim
    BY <1>1, <1>5, <2>1, TaskStep DEF rows
  <2>3. lock'[r.key] = w
    BY <1>1, <1>3, <1>5 DEF Shapes
  <2>4. Shape(w)'
    BY <1>1, <1>2, <2>1, <2>2 DEF Shape
  <2>5. Knows(w)'
    BY <1>2, <1>3, <2>1, <2>2, <2>3 DEF Knows
  <2>6. Moves(w) /\ Told
    BY <1>1, <1>5, NothingTold DEF Moves, history
  <2>7. QED
    BY <1>5, <2>1, <2>4, <2>5, <2>6, RowsShape, Looking DEF history
<1>6. QED
  BY <1>4, <1>5 DEF LockInvitations, LockTarget

-----------------------------------------------------------------------------
(* Names.                                                                  *)

RenameTask(t, name, barred) == [t EXCEPT !.pc = "self", !.name = name, !.barred = barred]
Seeking(t, pc, name) == [t EXCEPT !.pc = pc, !.name = name]

LEMMA SeekingShape ==
  ASSUME NEW t, TaskShape(t), NEW pc, NEW name
  PROVE  LET k == Seeking(t, pc, name)
         IN  TaskShape(k) /\ k.pc = pc /\ k.name = name
<1>1. PICK b : b = [t EXCEPT !.pc = pc]
  OBVIOUS
<1>2. TaskShape(b) /\ b.pc = pc
  BY <1>1 DEF TaskShape
<1>3. PICK c : c = [b EXCEPT !.name = name]
  OBVIOUS
<1>4. TaskShape(c) /\ c.pc = pc /\ c.name = name
  BY <1>2, <1>3 DEF TaskShape
<1>5. c = Seeking(t, pc, name)
  BY <1>1, <1>3 DEF Seeking
<1>6. QED
  BY <1>4, <1>5

LEMMA RenameTaskShape ==
  ASSUME NEW t, TaskShape(t), NEW name, NEW barred
  PROVE  LET k == RenameTask(t, name, barred)
         IN  TaskShape(k) /\ k.pc = "self" /\ k.name = name /\ k.barred = barred
<1>1. PICK b : b = Seeking(t, "self", name)
  OBVIOUS
<1>2. TaskShape(b) /\ b.pc = "self" /\ b.name = name
  BY <1>1, SeekingShape
<1>3. RenameTask(t, name, barred) = [b EXCEPT !.barred = barred]
  BY <1>1 DEF RenameTask, Seeking
<1>4. QED
  BY <1>2, <1>3 DEF TaskShape

\* A rename is barred when the name is somebody's, or in quarantine.
LEMMA AdmitRenameStep ==
  ASSUME IInv, NEW w \in Workers, AdmitRename(w)
  PROVE  IInv'
<1>. DEFINE r == request[w]
<1>1. PICK barred : barred = (/\ r.name # account[r.by].name
                              /\ Held(r.name) \/ r.name \in quarantine)
  OBVIOUS
<1>2. PICK n : n = r.name
  OBVIOUS
<1>3. Shapes /\ TaskShape(task[w]) /\ r \in Requests
  BY Named DEF IInv, Shape
<1>4. n \in Names
  BY <1>2, <1>3, AccountsAssumption DEF AdmitRename
<1>5. /\ task' = [task EXCEPT ![w] = RenameTask(task[w], n, barred)]
      /\ UNCHANGED <<rows, lock, request, history>>
  BY <1>1, <1>2, <1>3 DEF AdmitRename, RenameTask, Shapes
<1>6. PICK k : k = RenameTask(task[w], n, barred)
  OBVIOUS
<1>7. TaskShape(k) /\ k.pc = "self" /\ k.name = n /\ k.barred = barred
  BY <1>3, <1>6, RenameTaskShape
<1>8. task' = [task EXCEPT ![w] = k] /\ task'[w] = k
  BY <1>3, <1>5, <1>6, TaskStep
<1>9. Shape(w)'
  BY <1>4, <1>7, <1>8 DEF Shape
<1>10. barred => Held(n)' \/ n \in quarantine'
  BY <1>1, <1>2, <1>5 DEF Held, rows
<1>11. barred => Held(task[w].name)' \/ task'[w].name \in quarantine'
  BY <1>7, <1>8, <1>10 DEF Held
<1>12. Knows(w)'
  BY <1>7, <1>8, <1>11 DEF Knows
<1>13. Moves(w) /\ Told
  BY <1>5, NothingTold DEF Moves, history
<1>14. QED
  BY <1>5, <1>8, <1>9, <1>12, <1>13, RowsShape, Looking DEF history

\* The row is locked and active; a name that is the user's own is nobody else's.
LEMMA ReadSelfStep ==
  ASSUME IInv, NEW w \in Workers, ReadSelf(w)
  PROVE  IInv'
<1>1. PICK u \in Users : u = request[w].by /\ u \in Lockable
  BY Named DEF IInv
<1>2. PICK n : n = task[w].name
  OBVIOUS
<1>3. Shapes /\ TaskShape(task[w]) /\ Shape(w) /\ Knows(w)
  BY DEF IInv, Shape
<1>4. n \in Names
  BY <1>2, <1>3 DEF Shape, ReadSelf
<1>5. UNCHANGED <<rows, request, history>>
  BY DEF ReadSelf
<1>6. CASE Finish(w)
  BY <1>5, <1>6, RowsShape, NothingTold, Ending DEF history
<1>7. CASE /\ account[u].status = "ACTIVE" /\ Free(w, u)
           /\ lock' = [lock EXCEPT ![u] = w]
           /\ GoOn(w, IF account[u].name = n THEN "looked" ELSE "looking")
  <2>1. PICK pc : pc = IF account[u].name = n THEN "looked" ELSE "looking"
    OBVIOUS
  <2>2. PICK k : /\ task' = [task EXCEPT ![w] = k] /\ TaskShape(k) /\ k.pc = pc
                 /\ k.name = n /\ k.barred = task[w].barred
    BY <1>2, <1>3, <1>7, <2>1, GoingOn
  <2>3. task'[w] = k
    BY <1>3, <2>2, TaskStep
  <2>4. lock'[u] = w
    BY <1>1, <1>3, <1>7 DEF Shapes
  <2>5. Shape(w)'
    BY <1>4, <2>1, <2>2, <2>3 DEF Shape
  <2>6. k.barred => Held(n) \/ n \in quarantine
    BY <1>2, <1>3, <2>2 DEF Knows, ReadSelf
  <2>7. k.barred => Held(n)' \/ n \in quarantine'
    BY <1>5, <2>6 DEF Held, rows
  <2>8. k.barred => Held(task[w].name)' \/ task'[w].name \in quarantine'
    BY <2>2, <2>3, <2>7 DEF Held
  <2>9. /\ lock'[request'[w].by] = w
        /\ account'[request'[w].by].status = "ACTIVE"
        /\ pc = "looked" => account'[request'[w].by].name = n
    BY <1>1, <1>5, <1>7, <2>1, <2>4 DEF rows
  <2>10. Knows(w)'
    BY <2>1, <2>2, <2>3, <2>8, <2>9 DEF Knows
  <2>11. Moves(w) /\ Told
    BY <1>1, <1>5, <1>7, NothingTold DEF Moves, history
  <2>12. QED
    BY <1>5, <2>2, <2>5, <2>10, <2>11, RowsShape, Looking DEF history
<1>8. QED
  BY <1>1, <1>2, <1>6, <1>7 DEF ReadSelf, LockSelf

\* What was somebody's and is nobody's now is in quarantine.
LEMMA LookForOwnerStep ==
  ASSUME IInv, NEW w \in Workers, LookForOwner(w)
  PROVE  IInv'
<1>1. PICK n : n = task[w].name
  OBVIOUS
<1>2. Shapes /\ TaskShape(task[w]) /\ Shape(w) /\ Knows(w)
  BY DEF IInv, Shape
<1>3. n \in Names /\ task[w].pc = "looking" /\ UNCHANGED <<rows, request, history>>
  BY <1>1, <1>2 DEF Shape, LookForOwner
<1>4. CASE Finish(w)
  BY <1>3, <1>4, RowsShape, NothingTold, Ending DEF history
<1>5. CASE ~Held(n) /\ GoOn(w, "looked") /\ UNCHANGED lock
  <2>1. PICK k : /\ task' = [task EXCEPT ![w] = k] /\ TaskShape(k) /\ k.pc = "looked"
                 /\ k.name = n /\ k.barred = task[w].barred
    BY <1>1, <1>2, <1>5, GoingOn
  <2>2. task'[w] = k
    BY <1>2, <2>1, TaskStep
  <2>3. Shape(w)'
    BY <1>3, <2>1, <2>2 DEF Shape
  <2>4. k.barred => n \in quarantine
    BY <1>1, <1>2, <1>3, <1>5, <2>1 DEF Knows
  <2>5. lock[request[w].by] = w /\ account[request[w].by].status = "ACTIVE"
    BY <1>2, <1>3 DEF Knows
  <2>6. Knows(w)'
    BY <1>3, <1>5, <2>1, <2>2, <2>4, <2>5 DEF Knows, rows
  <2>7. Moves(w) /\ Told
    BY <1>3, <1>5, NothingTold DEF Moves, history
  <2>8. QED
    BY <1>3, <2>1, <2>3, <2>6, <2>7, RowsShape, Looking DEF history
<1>6. QED
  BY <1>1, <1>4, <1>5 DEF LookForOwner, Available

LEMMA PickDefaultStep ==
  ASSUME IInv, NEW w \in Workers, NEW n \in Names, PickDefault(w, n)
  PROVE  IInv'
<1>1. Shapes /\ TaskShape(task[w])
  BY DEF IInv, Shape
<1>2. PICK k : k = Seeking(task[w], "insert", n)
  OBVIOUS
<1>3. task' = [task EXCEPT ![w] = k] /\ UNCHANGED <<rows, lock, request, history>>
  BY <1>1, <1>2 DEF PickDefault, Seeking, Shapes
<1>4. TaskShape(k) /\ k.pc = "insert" /\ k.name = n
  BY <1>1, <1>2, SeekingShape
<1>5. task'[w] = k
  BY <1>1, <1>3, TaskStep
<1>6. Shape(w)' /\ Knows(w)'
  BY <1>4, <1>5 DEF Shape, Knows
<1>7. Moves(w) /\ Told
  BY <1>3, NothingTold DEF Moves, history
<1>8. QED
  BY <1>3, <1>6, <1>7, RowsShape, Looking DEF history

LEMMA AdmitClosureStep ==
  ASSUME IInv, NEW w \in Workers, AdmitClosure(w)
  PROVE  IInv'
<1>1. Shapes /\ TaskShape(task[w])
  BY DEF IInv, Shape
<1>2. GoOn(w, "admitted") /\ UNCHANGED <<rows, lock, request, history>>
  BY DEF AdmitClosure
<1>3. PICK k : task' = [task EXCEPT ![w] = k] /\ TaskShape(k) /\ k.pc = "admitted"
  BY <1>1, <1>2, GoingOn
<1>4. task'[w] = k
  BY <1>1, <1>3, TaskStep
<1>5. Shape(w)' /\ Knows(w)'
  BY <1>3, <1>4 DEF Shape, Knows
<1>6. Moves(w) /\ Told
  BY <1>2, NothingTold DEF Moves, history
<1>7. QED
  BY <1>2, <1>3, <1>5, <1>6, RowsShape, Looking DEF history

-----------------------------------------------------------------------------
(* Writing users and names.                                                *)

\* A step of v that writes users, audit of users or quarantine, and no row
\* under a key; users that exist stay.
LEMMA Writing ==
  ASSUME IInv, NEW v, UNCHANGED <<claim, ledger, trace, request, effects, told>>,
         account' \in [Users -> Accounts], logged' = [u \in Users |-> logged'[u]],
         lock' \in [Lockable -> Workers \cup {Nobody}], task' = [w \in Workers |-> task'[w]],
         Keeps(v), \A w \in Workers : w = v => Shape(w)' /\ Knows(w)',
         \A u \in Users : Exists(u) => Exists(u)',
         \A u \in Users : UserFits(u)'
  PROVE  IInv'
<1>1. Shapes'
  BY DEF IInv, Shapes
<1>2. ASSUME NEW k \in Keys PROVE KeyFits(k)'
  <2>1. KeyFits(k)
    BY DEF IInv, Fit
  <2>2. \A x : Remembered(x) => Remembered(x)'
    BY DEF Remembered
  <2>3. QED
    BY <2>1, <2>2 DEF KeyFits, EntryShape
<1>3. ReversedOnce'
  BY DEF IInv, Fit, ReversedOnce
<1>4. Fit'
  BY <1>2, <1>3 DEF Fit
<1>5. QED
  BY <1>1, <1>4, Together

\* A step of nobody in particular.
LEMMA Outside ==
  ASSUME IInv, UNCHANGED <<claim, ledger, trace, lock, request, task, effects, told>>,
         account' \in [Users -> Accounts], logged' = [u \in Users |-> logged'[u]],
         \A u \in Users : Exists(u) => Exists(u)',
         \A u \in Users : UserFits(u)',
         \A u \in Users : account'[u].name = account[u].name,
         \A u \in Users : lock[u] # Nobody /\ Exists(u) =>
           account'[u].status = account[u].status /\ account'[u].role = account[u].role,
         \A w \in Workers, n \in Names :
           n = task[w].name /\ n \in quarantine => n \in quarantine'
  PROVE  IInv'
<1>1. Nobody \notin Workers
  BY AccountsAssumption
<1>2. \A n : Held(n) => Held(n)'
  BY DEF Held
<1>3. Keeps(Nobody)
  BY <1>1, <1>2 DEF Keeps
<1>4. /\ lock' \in [Lockable -> Workers \cup {Nobody}]
      /\ task' = [w \in Workers |-> task'[w]]
  BY DEF IInv, Shapes
<1>5. QED
  BY <1>1, <1>3, <1>4, Writing

\* An update of one account by fields.
LEMMA AccountUpdate ==
  ASSUME Shapes, NEW u \in Users, NEW b \in Accounts, account' = [account EXCEPT ![u] = b]
  PROVE  /\ account' \in [Users -> Accounts] /\ account'[u] = b
         /\ \A x \in Users \ {u} : account'[x] = account[x]
BY DEF Shapes

LEMMA FittingUser ==
  ASSUME IInv, NEW u \in Users, logged'[u] = logged[u],
         account'[u].status = account[u].status, account'[u].role = account[u].role,
         account'[u].name = account[u].name
  PROVE  UserFits(u)' /\ (Exists(u) => Exists(u)')
BY DEF IInv, Fit, UserFits, Exists

LEMMA SpendStep ==
  ASSUME IInv, NEW u \in Users, Spend(u)
  PROVE  IInv'
<1>1. UNCHANGED <<account, claim, ledger, trace, lock, request, task, effects, told, logged, quarantine>>
  BY DEF Spend, history
<1>2. account' \in [Users -> Accounts] /\ logged' = [x \in Users |-> logged'[x]]
  BY <1>1 DEF IInv, Shapes
<1>3. \A x \in Users : UserFits(x)' /\ (Exists(x) => Exists(x)')
  BY <1>1, FittingUser
<1>4. QED
  BY <1>1, <1>2, <1>3, Outside

LEMMA OpenSessionStep ==
  ASSUME IInv, NEW u \in Users, OpenSession(u)
  PROVE  IInv'
<1>. DEFINE b == [account[u] EXCEPT !.session = TRUE]
<1>1. /\ UNCHANGED <<claim, ledger, trace, lock, request, task, effects, told, logged, quarantine>>
      /\ Shapes
  BY DEF OpenSession, history, IInv
<1>2. /\ b \in Accounts /\ b.status = account[u].status /\ b.role = account[u].role
      /\ b.name = account[u].name
  BY <1>1 DEF Shapes, Accounts
<1>3. account' = [account EXCEPT ![u] = b]
  BY <1>1 DEF OpenSession, Shapes
<1>. HIDE DEF b
<1>4. /\ account' \in [Users -> Accounts]
      /\ \A x \in Users : /\ account'[x].status = account[x].status
                          /\ account'[x].role = account[x].role
                          /\ account'[x].name = account[x].name
  BY <1>1, <1>2, <1>3, AccountUpdate
<1>5. logged' = [x \in Users |-> logged'[x]]
  BY <1>1 DEF Shapes
<1>6. \A x \in Users : UserFits(x)' /\ (Exists(x) => Exists(x)')
  BY <1>1, <1>4, FittingUser
<1>7. QED
  BY <1>1, <1>4, <1>5, <1>6, Outside

LEMMA EndCooldownStep ==
  ASSUME IInv, NEW u \in Users, EndCooldown(u)
  PROVE  IInv'
<1>. DEFINE b == [account[u] EXCEPT !.cooling = FALSE]
<1>1. /\ UNCHANGED <<claim, ledger, trace, lock, request, task, effects, told, logged, quarantine>>
      /\ Shapes
  BY DEF EndCooldown, Others, history, IInv
<1>2. /\ b \in Accounts /\ b.status = account[u].status /\ b.role = account[u].role
      /\ b.name = account[u].name
  BY <1>1 DEF Shapes, Accounts
<1>3. account' = [account EXCEPT ![u] = b]
  BY <1>1 DEF EndCooldown, Shapes
<1>. HIDE DEF b
<1>4. /\ account' \in [Users -> Accounts]
      /\ \A x \in Users : /\ account'[x].status = account[x].status
                          /\ account'[x].role = account[x].role
                          /\ account'[x].name = account[x].name
  BY <1>1, <1>2, <1>3, AccountUpdate
<1>5. logged' = [x \in Users |-> logged'[x]]
  BY <1>1 DEF Shapes
<1>6. \A x \in Users : UserFits(x)' /\ (Exists(x) => Exists(x)')
  BY <1>1, <1>4, FittingUser
<1>7. QED
  BY <1>1, <1>4, <1>5, <1>6, Outside

\* Only names that no request asks for leave the quarantine.
LEMMA EndQuarantineStep ==
  ASSUME IInv, NEW n \in Names, EndQuarantine(n)
  PROVE  IInv'
<1>1. UNCHANGED <<account, claim, ledger, trace, lock, request, task, effects, told, logged>>
  BY DEF EndQuarantine, Others, history
<1>2. account' \in [Users -> Accounts] /\ logged' = [x \in Users |-> logged'[x]]
  BY <1>1 DEF IInv, Shapes
<1>3. \A x \in Users : UserFits(x)' /\ (Exists(x) => Exists(x)')
  BY <1>1, FittingUser
<1>4. \A w \in Workers, m \in Names : m = task[w].name /\ m \in quarantine => m \in quarantine'
  BY DEF EndQuarantine
<1>5. QED
  BY <1>1, <1>2, <1>3, <1>4, Outside

LEMMA RedeemCodeStep ==
  ASSUME IInv, NEW b \in Batches, RedeemCode(b)
  PROVE  IInv'
<1>1. UNCHANGED <<account, claim, ledger, trace, lock, request, task, effects, told, logged, quarantine>>
  BY DEF RedeemCode, history
<1>2. account' \in [Users -> Accounts] /\ logged' = [x \in Users |-> logged'[x]]
  BY <1>1 DEF IInv, Shapes
<1>3. \A x \in Users : UserFits(x)' /\ (Exists(x) => Exists(x)')
  BY <1>1, FittingUser
<1>4. QED
  BY <1>1, <1>2, <1>3, Outside

\* The bootstrap waits for whoever holds the row of the owner.
LEMMA BootstrapOwnerStep ==
  ASSUME IInv, BootstrapOwner
  PROVE  IInv'
<1>. DEFINE b == [account[Owner] EXCEPT !.role = "ADMIN", !.session = FALSE]
<1>1. /\ UNCHANGED <<claim, ledger, trace, lock, request, task, effects, told, quarantine>>
      /\ Shapes /\ account[Owner].status = "ACTIVE" /\ lock[Owner] = Nobody /\ Owner \in Users
  BY AccountsAssumption DEF BootstrapOwner, history, IInv
<1>2. /\ b \in Accounts /\ b.status = "ACTIVE" /\ b.role = "ADMIN"
      /\ b.name = account[Owner].name
  BY <1>1, ZenonT(30) DEF Shapes, Accounts, Roles
<1>3. account' = [account EXCEPT ![Owner] = b]
  BY <1>1 DEF BootstrapOwner, Shapes
<1>. HIDE DEF b
<1>4. /\ account' \in [Users -> Accounts] /\ account'[Owner] = b
      /\ \A x \in Users \ {Owner} : account'[x] = account[x]
  BY <1>1, <1>2, <1>3, AccountUpdate
<1>5. /\ logged' = [x \in Users |-> logged'[x]]
      /\ logged'[Owner] = [status |-> "ACTIVE", role |-> "ADMIN"]
      /\ \A x \in Users \ {Owner} : logged'[x] = logged[x]
  BY <1>1 DEF BootstrapOwner, Shapes
<1>6. ASSUME NEW x \in Users PROVE UserFits(x)' /\ (Exists(x) => Exists(x)')
  <2>1. CASE x = Owner
    BY <1>2, <1>4, <1>5, <2>1 DEF UserFits, Exists
  <2>2. CASE x # Owner
    BY <1>4, <1>5, <2>2, FittingUser
  <2>3. QED
    BY <2>1, <2>2
<1>7. \A x \in Users : account'[x].name = account[x].name
  BY <1>2, <1>4
<1>8. \A x \in Users : lock[x] # Nobody => account'[x] = account[x]
  BY <1>1, <1>4
<1>9. QED
  BY <1>1, <1>4, <1>5, <1>6, <1>7, <1>8, Outside

\* The end of the request of v leaves the locks and locals of others.
LEMMA Finishing ==
  ASSUME Shapes, NEW v \in Workers, Finish(v)
  PROVE  /\ lock' \in [Lockable -> Workers \cup {Nobody}]
         /\ \A w \in Workers \ {v}, x \in Lockable : lock[x] = w => lock'[x] = w
         /\ task' = [w \in Workers |-> task'[w]]
         /\ \A w \in Workers \ {v} : task'[w] = task[w]
         /\ Shape(v)' /\ Knows(v)'
<1>1. task' = [task EXCEPT ![v] = Idle] /\ Moves(v)
  BY DEF Finish, Moves
<1>2. QED
  BY <1>1, TaskStep, LocksKept, IdleKnows

\* The former name goes to quarantine as the new one is written.
LEMMA RenameStep ==
  ASSUME IInv, NEW w \in Workers, Rename(w)
  PROVE  IInv'
<1>1. Shapes /\ Shape(w) /\ Knows(w) /\ Finish(w)
  BY DEF IInv, Rename
<1>2. PICK u \in Users : u = request[w].by /\ u \in Lockable
  BY <1>1, Named
<1>3. PICK n \in Names : n = task[w].name
  BY <1>1 DEF Shape, Rename
<1>4. lock[u] = w /\ account[u].status = "ACTIVE"
  BY <1>1, <1>2 DEF Knows, Rename
<1>5. UNCHANGED <<claim, ledger, trace, logged, request, effects, told>>
  BY DEF Rename, Others, history
<1>6. CASE UNCHANGED <<account, quarantine>>
  <2>1. trace' = [x \in Keys \cup Workers |-> trace'[x]] /\ \A j \in Keys : trace'[j] = trace[j]
    BY <1>1, <1>5 DEF Shapes
  <2>2. QED
    BY <1>1, <1>5, <1>6, <2>1, NothingTold, Ending
<1>7. CASE /\ account' = [account EXCEPT ![u].name = n, ![u].cooling = TRUE]
           /\ quarantine' = IF n = account[u].name THEN quarantine
                            ELSE Quarantined(account[u].name)
  <2>. DEFINE b == [account[u] EXCEPT !.name = n, !.cooling = TRUE]
  <2>1. /\ b \in Accounts /\ b.status = account[u].status /\ b.role = account[u].role
        /\ b.name = n
    BY <1>1 DEF Shapes, Accounts, Optional
  <2>2. account' = [account EXCEPT ![u] = b]
    BY <1>1, <1>7 DEF Shapes
  <2>. HIDE DEF b
  <2>3. /\ account' \in [Users -> Accounts] /\ account'[u] = b
        /\ \A x \in Users \ {u} : account'[x] = account[x]
    BY <1>1, <2>1, <2>2, AccountUpdate
  <2>4. \A m : m \in quarantine => m \in quarantine'
    BY <1>7 DEF Quarantined
  <2>5. ASSUME NEW m \in Names, Held(m) PROVE Held(m)' \/ m \in quarantine'
    <3>1. PICK x \in Users : account[x].name = m
      BY <2>5 DEF Held
    <3>2. CASE x # u
      BY <2>3, <3>1, <3>2 DEF Held
    <3>3. CASE x = u
      BY <1>7, <2>1, <2>3, <3>1, <3>3 DEF Held, Quarantined
    <3>4. QED
      BY <3>2, <3>3
  <2>6. Keeps(w)
    <3>1. \A v \in Workers \ {w}, x \in Users : lock[x] = v => account'[x] = account[x]
      BY <1>4, <2>3
    <3>2. QED
      BY <1>1, <1>5, <2>4, <2>5, <3>1, Finishing DEF Keeps
  <2>7. logged' = [x \in Users |-> logged'[x]]
    BY <1>1, <1>5 DEF Shapes
  <2>8. ASSUME NEW x \in Users PROVE UserFits(x)' /\ (Exists(x) => Exists(x)')
    <3>1. CASE x = u
      BY <1>4, <1>5, <2>1, <2>3, <3>1 DEF IInv, Fit, UserFits, Exists
    <3>2. CASE x # u
      BY <1>5, <2>3, <3>2, FittingUser
    <3>3. QED
      BY <3>1, <3>2
  <2>9. QED
    BY <1>1, <1>5, <2>3, <2>6, <2>7, <2>8, Finishing, Writing
<1>8. QED
  BY <1>2, <1>3, <1>6, <1>7 DEF Rename

\* A new user is what a registration gives, and nobody has locked it.
LEMMA CreateUserStep ==
  ASSUME IInv, NEW w \in Workers, CreateUser(w)
  PROVE  IInv'
<1>1. Shapes /\ Shape(w) /\ TaskShape(task[w])
  BY DEF IInv, Shape
<1>2. PICK u \in Users : u = request[w].by /\ u \in Lockable
  BY <1>1, Named
<1>3. PICK n : n = task[w].name
  OBVIOUS
<1>4. UNCHANGED <<claim, ledger, trace, logged, request, effects, told, quarantine>>
  BY DEF CreateUser, Others, history
<1>5. trace' = [x \in Keys \cup Workers |-> trace'[x]] /\ \A j \in Keys : trace'[j] = trace[j]
  BY <1>1, <1>4 DEF Shapes
<1>6. CASE /\ task' = [task EXCEPT ![w].pc = "pick", ![w].name = Nobody]
           /\ UNCHANGED <<account, lock>>
  <2>1. PICK k : k = Seeking(task[w], "pick", Nobody)
    OBVIOUS
  <2>2. task' = [task EXCEPT ![w] = k]
    BY <1>1, <1>6, <2>1 DEF Seeking, Shapes
  <2>3. TaskShape(k) /\ k.pc = "pick"
    BY <1>1, <2>1, SeekingShape
  <2>4. task'[w] = k
    BY <1>1, <2>2, TaskStep
  <2>5. Shape(w)' /\ Knows(w)'
    BY <2>3, <2>4 DEF Shape, Knows
  <2>6. Moves(w) /\ Told
    BY <1>4, <1>6, NothingTold DEF Moves
  <2>7. QED
    BY <1>4, <1>5, <1>6, <2>2, <2>5, <2>6, Looking
<1>7. CASE /\ account[u].status = "ABSENT"
           /\ account' = [account EXCEPT ![u] = [NoAccount EXCEPT !.status = "ACTIVE",
                                                   !.name = n, !.session = TRUE]]
           /\ Finish(w)
           /\ n \in Names
  <2>. DEFINE b == [NoAccount EXCEPT !.status = "ACTIVE", !.name = n, !.session = TRUE]
  <2>1. b \in Accounts /\ b.status = "ACTIVE" /\ b.role = "USER" /\ b.name = n
    BY <1>7 DEF NoAccount, Accounts, Optional, Statuses, Roles
  <2>2. account' = [account EXCEPT ![u] = b]
    BY <1>7
  <2>. HIDE DEF b
  <2>3. /\ account' \in [Users -> Accounts] /\ account'[u] = b
        /\ \A x \in Users \ {u} : account'[x] = account[x]
    BY <1>1, <2>1, <2>2, AccountUpdate
  <2>4. ~Exists(u) /\ account[u].name = Nobody /\ Nobody \notin Names
        /\ logged[u].status = "ACTIVE" /\ logged[u].role = "USER"
    BY <1>7, AccountsAssumption DEF IInv, Fit, UserFits, Exists
  <2>5. \A m \in Names : Held(m) => Held(m)'
    BY <2>3, <2>4 DEF Held
  <2>6. Keeps(w)
    <3>1. \A x \in Users : Exists(x) => account'[x] = account[x]
      BY <2>3, <2>4
    <3>2. QED
      BY <1>1, <1>4, <1>7, <2>5, <3>1, Finishing DEF Keeps
  <2>7. logged' = [x \in Users |-> logged'[x]]
    BY <1>1, <1>4 DEF Shapes
  <2>8. ASSUME NEW x \in Users PROVE UserFits(x)' /\ (Exists(x) => Exists(x)')
    <3>1. CASE x = u
      BY <1>4, <2>1, <2>3, <2>4, <3>1 DEF UserFits, Exists
    <3>2. CASE x # u
      BY <1>4, <2>3, <3>2, FittingUser
    <3>3. QED
      BY <3>1, <3>2
  <2>9. QED
    BY <1>1, <1>4, <1>7, <2>3, <2>6, <2>7, <2>8, Finishing, Writing
<1>8. n \in Names
  BY <1>1, <1>3 DEF CreateUser, Shape
<1>9. QED
  BY <1>2, <1>3, <1>6, <1>7, <1>8 DEF CreateUser

\* An adjustment whose target is erased is otherwise what it was.
LEMMA EntryErased ==
  ASSUME NEW e, EntryShape(e), NEW f, f = [e EXCEPT !.target = Nobody]
  PROVE  EntryShape(f) /\ f.target = Nobody /\ f.reverses = e.reverses
BY DEF EntryShape

\* The closure erases its user from every row that names it as a target.
LEMMA CloseAccountStep ==
  ASSUME IInv, NEW w \in Workers, CloseAccount(w)
  PROVE  IInv'
<1>1. Shapes /\ Finish(w) /\ UNCHANGED <<claim, request, effects, told>>
  BY DEF IInv, CloseAccount, history
<1>2. PICK u \in Users : u = request[w].by /\ u \in Lockable
  BY <1>1, Named
<1>3. CASE UNCHANGED <<account, quarantine, trace, ledger, logged>>
  <2>1. trace' = [x \in Keys \cup Workers |-> trace'[x]] /\ \A j \in Keys : trace'[j] = trace[j]
    BY <1>1, <1>3 DEF Shapes
  <2>2. QED
    BY <1>1, <1>3, <2>1, NothingTold, Ending
<1>4. CASE /\ Free(w, u)
           /\ account' = [account EXCEPT ![u] = [NoAccount EXCEPT !.status = "CLOSED"]]
           /\ quarantine' = Quarantined(account[u].name)
           /\ trace' = [x \in Keys \cup Workers |-> Erased(trace[x], u)]
           /\ ErasedFromLedger(u)
           /\ logged' = [logged EXCEPT ![u] = [status |-> "CLOSED", role |-> "USER"]]
  <2>. DEFINE b == [NoAccount EXCEPT !.status = "CLOSED"]
  <2>1. b \in Accounts /\ b.status = "CLOSED" /\ b.role = "USER" /\ b.name = Nobody
    BY DEF NoAccount, Accounts, Optional, Statuses, Roles
  <2>2. account' = [account EXCEPT ![u] = b]
    BY <1>4
  <2>. HIDE DEF b
  <2>3. /\ account' \in [Users -> Accounts] /\ account'[u] = b
        /\ \A x \in Users \ {u} : account'[x] = account[x]
    BY <1>1, <2>1, <2>2, AccountUpdate
  <2>4. \A x : x # u /\ Remembered(x) => Remembered(x)'
    BY <2>3 DEF Remembered, Exists
  <2>5. ASSUME NEW k \in Keys
        PROVE  /\ EntryShape(ledger'[k]) /\ Remembered(ledger[k].target)'
               /\ ledger'[k].reverses = ledger[k].reverses
    <3>1. EntryShape(ledger[k]) /\ Remembered(ledger[k].target)
      BY DEF IInv, Fit, KeyFits
    <3>2. CASE ledger[k].target = u
      <4>1. ledger'[k] = [ledger[k] EXCEPT !.target = Nobody]
        BY <1>4, <3>2 DEF ErasedFromLedger
      <4>2. /\ EntryShape(ledger'[k]) /\ ledger'[k].target = Nobody
            /\ ledger'[k].reverses = ledger[k].reverses
        BY <3>1, <4>1, EntryErased
      <4>3. QED
        BY <4>2 DEF Remembered
    <3>3. CASE ledger[k].target # u
      <4>1. ledger'[k] = ledger[k]
        BY <1>4, <3>3 DEF ErasedFromLedger
      <4>2. PICK x : x = ledger[k].target
        OBVIOUS
      <4>3. Remembered(x)'
        BY <2>4, <3>1, <3>3, <4>2
      <4>4. QED
        BY <3>1, <4>1, <4>2, <4>3 DEF Remembered, Exists
    <3>4. QED
      BY <3>2, <3>3
  <2>6. ASSUME NEW k \in Keys PROVE Remembered(trace[k].target)'
    <3>1. Remembered(trace[k].target)
      BY DEF IInv, Fit, KeyFits
    <3>2. trace'[k].target = IF trace[k].target = u THEN Nobody ELSE trace[k].target
      BY <1>4 DEF Erased
    <3>3. PICK x : x = trace'[k].target
      OBVIOUS
    <3>4. x = Nobody \/ (x # u /\ Remembered(x))
      BY <3>1, <3>2, <3>3 DEF Remembered
    <3>5. Remembered(x)'
      BY <2>4, <3>4 DEF Remembered
    <3>6. QED
      BY <3>3, <3>5 DEF Remembered, Exists
  <2>7. ASSUME NEW k \in Keys PROVE KeyFits(k)'
    <3>1. KeyFits(k)
      BY DEF IInv, Fit
    <3>2. /\ effects'[k] = IF claim'[k].made THEN 1 ELSE 0
          /\ AnswersFit(claim'[k], told'[k])
      BY <1>1, <3>1 DEF KeyFits
    <3>3. EntryShape(ledger[k])'
      BY <2>5 DEF EntryShape
    <3>4. QED
      BY <2>5, <2>6, <3>2, <3>3 DEF KeyFits
  <2>8. ReversedOnce'
    BY <2>5 DEF IInv, Fit, ReversedOnce
  <2>9. /\ logged' = [x \in Users |-> logged'[x]]
        /\ \A x \in Users \ {u} : logged'[x] = logged[x]
    BY <1>1, <1>4 DEF Shapes
  <2>10. ASSUME NEW x \in Users PROVE UserFits(x)'
    <3>1. CASE x = u
      BY <2>1, <2>3, <3>1 DEF UserFits, Exists
    <3>2. CASE x # u
      BY <2>3, <2>9, <3>2, FittingUser
    <3>3. QED
      BY <3>1, <3>2
  <2>11. Fit'
    BY <2>7, <2>8, <2>10 DEF Fit
  <2>12. Shapes'
    <3>1. ledger' = [k \in Keys |-> ledger'[k]]
      BY <1>4 DEF ErasedFromLedger
    <3>2. trace' = [x \in Keys \cup Workers |-> trace'[x]]
      BY <1>4
    <3>3. /\ claim' = [k \in Keys |-> claim'[k]] /\ request' \in [Workers -> Requests]
          /\ effects' \in [Keys -> Nat] /\ told' = [k \in Keys |-> told'[k]]
      BY <1>1 DEF Shapes
    <3>4. QED
      BY <1>1, <2>3, <2>9, <3>1, <3>2, <3>3, Finishing DEF Shapes
  <2>13. Keeps(w)
    <3>1. \A n \in Names : Held(n) => Held(n)' \/ n \in quarantine'
      BY <1>4, <2>3 DEF Held, Quarantined
    <3>2. \A n : n \in quarantine => n \in quarantine'
      BY <1>4 DEF Quarantined
    <3>3. \A v \in Workers \ {w}, x \in Users : lock[x] = v => account'[x] = account[x]
      BY <1>4, <2>3, AccountsAssumption DEF Free
    <3>4. QED
      BY <1>1, <3>1, <3>2, <3>3, Finishing DEF Keeps
  <2>14. QED
    BY <1>1, <2>11, <2>12, <2>13, Finishing, Together
<1>5. QED
  BY <1>2, <1>3, <1>4 DEF CloseAccount

-----------------------------------------------------------------------------
(* Committing a write.                                                     *)

\* The claim is made, answered and counted once; only rows that the request
\* has locked change.
LEMMA Completing ==
  ASSUME IInv, NEW w \in Workers, NEW key \in Keys, key = request[w].key, NEW answer,
         NEW codes, Complete(w, answer, codes), ~claim[key].made, lock[key] = w,
         Remembered(task[w].target),
         account' \in [Users -> Accounts],
         \A u \in Users : account'[u].name = account[u].name,
         \A u \in Users : Exists(u) => Exists(u)',
         \A u \in Users : lock[u] # w =>
           account'[u].status = account[u].status /\ account'[u].role = account[u].role,
         ledger' = [k \in Keys |-> ledger'[k]],
         \A k \in Keys : EntryShape(ledger'[k]) /\ Remembered(ledger'[k].target),
         ReversedOnce',
         logged' = [u \in Users |-> logged'[u]], \A u \in Users : UserFits(u)'
  PROVE  IInv'
<1>1. /\ Shapes /\ Finish(w) /\ UNCHANGED <<quarantine, request>>
      /\ claim' = [claim EXCEPT ![key] = [made |-> TRUE, asks |-> request[w], answer |-> answer,
                                           codes |-> FALSE]]
      /\ trace' = [trace EXCEPT ![key] = [actor |-> request[w].by, target |-> task[w].target,
                                           path |-> Nobody]]
      /\ effects' = [effects EXCEPT ![key] = @ + 1]
      /\ Answer(key, answer, codes)
  BY DEF IInv, Complete, Stored
<1>2. /\ claim' = [k \in Keys |-> claim'[k]]
      /\ claim'[key].made /\ claim'[key].answer = answer /\ ~claim'[key].codes
      /\ \A k \in Keys \ {key} : claim'[k] = claim[k]
  BY <1>1 DEF Shapes
<1>3. /\ trace' = [x \in Keys \cup Workers |-> trace'[x]]
      /\ trace'[key].target = task[w].target
      /\ \A k \in Keys \ {key} : trace'[k] = trace[k]
  BY <1>1 DEF Shapes
<1>4. /\ effects' \in [Keys -> Nat] /\ effects'[key] = 1
      /\ \A k \in Keys \ {key} : effects'[k] = effects[k]
  <2>1. effects[key] = 0 /\ effects \in [Keys -> Nat]
    BY <1>1 DEF IInv, Fit, KeyFits, Shapes
  <2>2. QED
    BY <1>1, <2>1
<1>5. /\ told' = [k \in Keys |-> told'[k]]
      /\ told'[key].said = {answer} /\ told'[key].disclosed \in {0, 1}
      /\ \A k \in Keys \ {key} : told'[k] = told[k]
  <2>1. told[key].said = {} /\ told[key].disclosed = 0
    BY DEF IInv, Fit, KeyFits, AnswersFit
  <2>2. QED
    BY <1>1, <2>1, Answering
<1>6. \A x : Remembered(x) => Remembered(x)'
  BY DEF Remembered
<1>7. ASSUME NEW k \in Keys PROVE KeyFits(k)'
  <2>1. KeyFits(k)
    BY DEF IInv, Fit
  <2>2. /\ effects'[k] = IF claim'[k].made THEN 1 ELSE 0
        /\ AnswersFit(claim'[k], told'[k])
    <3>1. CASE k = key
      BY <1>2, <1>4, <1>5, <3>1 DEF AnswersFit
    <3>2. CASE k # key
      BY <1>2, <1>4, <1>5, <2>1, <3>2 DEF KeyFits
    <3>3. QED
      BY <3>1, <3>2
  <2>3. EntryShape(ledger[k])'
    BY DEF EntryShape
  <2>4. Remembered(ledger[k].target)'
    <3>1. PICK x : x = ledger'[k].target
      OBVIOUS
    <3>2. Remembered(x)'
      BY <1>6, <3>1
    <3>3. QED
      BY <3>1, <3>2 DEF Remembered, Exists
  <2>5. Remembered(trace[k].target)'
    <3>1. PICK x : x = trace'[k].target
      OBVIOUS
    <3>2. Remembered(x)
      BY <1>3, <2>1, <3>1 DEF KeyFits
    <3>3. Remembered(x)'
      BY <1>6, <3>2
    <3>4. QED
      BY <3>1, <3>3 DEF Remembered, Exists
  <2>6. QED
    BY <2>2, <2>3, <2>4, <2>5 DEF KeyFits
<1>8. Fit'
  BY <1>7 DEF Fit
<1>9. Shapes'
  <2>1. request' \in [Workers -> Requests]
    BY <1>1 DEF Shapes
  <2>2. QED
    BY <1>1, <1>2, <1>3, <1>4, <1>5, <2>1, Finishing DEF Shapes
<1>10. Keeps(w)
  <2>1. \A n : Held(n) => Held(n)'
    BY DEF Held
  <2>2. \A v \in Workers \ {w}, k \in Keys : lock[k] = v => claim'[k] = claim[k]
    BY <1>2
  <2>3. QED
    BY <1>1, <2>1, <2>2, Finishing, ZenonT(30) DEF Keeps
<1>11. QED
  BY <1>1, <1>8, <1>9, <1>10, Finishing, Together

\* What a request that is about to commit a write holds.
LEMMA AboutToWrite ==
  ASSUME IInv, NEW w \in Workers, task[w].pc \in {"target", "apply"}
  PROVE  /\ request[w].action \in Writes /\ request[w].key \in Keys
         /\ lock[request[w].key] = w /\ ~claim[request[w].key].made
         /\ request[w].action \notin Targeted => task[w].target = Nobody
         /\ task[w].pc = "apply" /\ request[w].action \in Targeted =>
              /\ task[w].target \in Users /\ lock[task[w].target] = w /\ Exists(task[w].target)
              /\ task[w].seen = [user |-> task[w].target,
                                 status |-> account[task[w].target].status,
                                 role |-> account[task[w].target].role,
                                 left |-> task[w].seen.left]
<1>1. Shapes /\ Shape(w) /\ Knows(w)
  BY DEF IInv
<1>2. request[w].action \in Writes
  BY <1>1 DEF Shape
<1>3. QED
  BY <1>1, <1>2, Named DEF Shape, Knows

\* The same users, ledger and audit of users: batches only.
LEMMA BatchWrite ==
  ASSUME IInv, NEW w \in Workers, task[w].pc \in {"target", "apply"},
         request[w].action \notin Targeted, NEW codes, Complete(w, NoView, codes),
         UNCHANGED <<account, ledger, logged>>
  PROVE  IInv'
<1>1. PICK key \in Keys : key = request[w].key
  BY AboutToWrite
<1>2. lock[key] = w /\ ~claim[key].made /\ Remembered(task[w].target)
  BY <1>1, AboutToWrite DEF Remembered
<1>3. /\ account' \in [Users -> Accounts] /\ ledger' = [k \in Keys |-> ledger'[k]]
      /\ logged' = [u \in Users |-> logged'[u]]
  BY DEF IInv, Shapes
<1>4. \A u \in Users : UserFits(u)' /\ (Exists(u) => Exists(u)')
  BY FittingUser
<1>5. \A k \in Keys : EntryShape(ledger'[k]) /\ Remembered(ledger'[k].target)
  BY DEF IInv, Fit, KeyFits
<1>6. ReversedOnce'
  BY DEF IInv, Fit, ReversedOnce
<1>7. QED
  BY <1>1, <1>2, <1>3, <1>4, <1>5, <1>6, Completing

LEMMA CreateBatchStep ==
  ASSUME IInv, NEW w \in Workers, CreateBatch(w)
  PROVE  IInv'
<1>1. request[w].action \notin Targeted
  BY DEF CreateBatch, Targeted, UserActions, QuotaActions
<1>2. QED
  BY <1>1, BatchWrite DEF CreateBatch

LEMMA DisableInvitationsStep ==
  ASSUME IInv, NEW w \in Workers, DisableInvitations(w)
  PROVE  IInv'
<1>1. request[w].action \notin Targeted
  BY DEF DisableInvitations, Targeted, UserActions, QuotaActions, BatchActions
<1>2. QED
  BY <1>1, BatchWrite DEF DisableInvitations

\* The adjustment reverses what nothing reverses yet.
LEMMA AdjustQuotaStep ==
  ASSUME IInv, NEW w \in Workers, AdjustQuota(w)
  PROVE  IInv'
<1>1. PICK r : r = request[w]
  OBVIOUS
<1>2. PICK key \in Keys : key = r.key
  BY <1>1, AboutToWrite DEF AdjustQuota
<1>3. PICK u \in Users : u = task[w].target
  BY AboutToWrite DEF AdjustQuota, Targeted
<1>4. /\ lock[key] = w /\ ~claim[key].made /\ lock[u] = w /\ Exists(u) /\ Remembered(task[w].target)
      /\ r \in Requests /\ r.action \in QuotaActions
  BY <1>1, <1>2, <1>3, AboutToWrite, Named DEF AdjustQuota, Targeted, Remembered, IInv
<1>5. PICK e : e = [made |-> TRUE, target |-> u, delta |-> task[w].delta,
                    after |-> [task[w].seen EXCEPT !.left = @ + task[w].delta].left,
                    reverses |-> IF r.action = "QUOTA_REVERSE" THEN r.on ELSE Nobody]
  OBVIOUS
<1>6. /\ ledger' = [ledger EXCEPT ![key] = e]
      /\ r.action = "QUOTA_REVERSE" => ~Reversed(r.on)
  BY <1>1, <1>2, <1>3, <1>5 DEF AdjustQuota
<1>7. EntryShape(e) /\ e.target = u
      /\ e.reverses = IF r.action = "QUOTA_REVERSE" THEN r.on ELSE Nobody
  BY <1>5 DEF EntryShape
<1>8. /\ ledger' = [k \in Keys |-> ledger'[k]] /\ ledger'[key] = e
      /\ \A k \in Keys \ {key} : ledger'[k] = ledger[k]
  BY <1>6 DEF IInv, Shapes
<1>9. ASSUME NEW k \in Keys PROVE EntryShape(ledger'[k]) /\ Remembered(ledger'[k].target)
  <2>1. CASE k = key
    BY <1>3, <1>4, <1>7, <1>8, <2>1
  <2>2. CASE k # key
    BY <1>8, <2>2 DEF IInv, Fit, KeyFits
  <2>3. QED
    BY <2>1, <2>2
<1>10. ReversedOnce'
  <2>1. e.reverses \in Keys => \A k \in Keys : ledger[k].reverses # e.reverses
    BY <1>6, <1>7, AccountsAssumption DEF Reversed
  <2>2. QED
    BY <1>8, <2>1 DEF IInv, Fit, ReversedOnce
<1>11. /\ UNCHANGED <<account, logged>>
       /\ account' \in [Users -> Accounts] /\ logged' = [x \in Users |-> logged'[x]]
  BY DEF AdjustQuota, IInv, Shapes
<1>12. \A x \in Users : UserFits(x)' /\ (Exists(x) => Exists(x)')
  BY <1>11, FittingUser
<1>13. PICK answer : Complete(w, answer, FALSE)
  BY DEF AdjustQuota
<1>14. QED
  BY <1>1, <1>2, <1>4, <1>8, <1>9, <1>10, <1>11, <1>12, <1>13, Completing

\* What a mutation makes of what it read.
LEMMA MutatedView ==
  ASSUME NEW u, NEW s, NEW o, NEW l, NEW v, NEW action,
         v = [user |-> u, status |-> s, role |-> o, left |-> l]
  PROVE  /\ Mutated(v, action).status \in {s, "ACTIVE", "DISABLED"}
         /\ Mutated(v, action).role \in {o, "USER", "ADMIN"}
BY DEF Mutated

\* The columns that change are written from the row as it is: seen is no older.
LEMMA MutateUserStep ==
  ASSUME IInv, NEW w \in Workers, MutateUser(w)
  PROVE  IInv'
<1>1. PICK action : action = request[w].action
  OBVIOUS
<1>2. PICK key \in Keys : key = request[w].key
  BY AboutToWrite DEF MutateUser
<1>3. PICK u \in Users : u = task[w].target
  BY AboutToWrite DEF MutateUser, Targeted
<1>4. PICK seen : seen = task[w].seen
  OBVIOUS
<1>5. PICK after : after = Mutated(seen, action)
  OBVIOUS
<1>6. /\ lock[key] = w /\ ~claim[key].made /\ lock[u] = w /\ Exists(u) /\ Remembered(task[w].target)
      /\ seen = [user |-> u, status |-> account[u].status, role |-> account[u].role,
                 left |-> seen.left]
  BY <1>2, <1>3, <1>4, AboutToWrite DEF MutateUser, Targeted, Remembered
<1>7. /\ account' = [account EXCEPT
             ![u].status = IF after.status = seen.status THEN @ ELSE after.status,
             ![u].role = IF after.role = seen.role THEN @ ELSE after.role,
             ![u].session = @ /\ action = "RESTORE_USER"]
      /\ logged' = [logged EXCEPT ![u] = [status |-> after.status, role |-> after.role]]
      /\ Complete(w, after, FALSE)
      /\ UNCHANGED <<ledger, batch>>
  BY <1>1, <1>3, <1>4, <1>5 DEF MutateUser
<1>8. Shapes /\ account[u] \in Accounts
  BY DEF IInv, Shapes
<1>9. seen.status = account[u].status /\ seen.role = account[u].role
  BY <1>6
<1>10. /\ after.status \in {account[u].status, "ACTIVE", "DISABLED"}
       /\ after.role \in {account[u].role, "USER", "ADMIN"}
  BY <1>5, <1>6, MutatedView
<1>. DEFINE b == [account[u] EXCEPT
                    !.status = IF after.status = seen.status THEN @ ELSE after.status,
                    !.role = IF after.role = seen.role THEN @ ELSE after.role,
                    !.session = @ /\ action = "RESTORE_USER"]
<1>11. /\ b \in Accounts /\ b.status = after.status /\ b.role = after.role
       /\ b.name = account[u].name
  BY <1>8, <1>9, <1>10 DEF Accounts, Statuses, Roles
<1>12. account' = [account EXCEPT ![u] = b]
  BY <1>7, <1>8 DEF Shapes
<1>. HIDE DEF b
<1>13. /\ account' \in [Users -> Accounts] /\ account'[u] = b
       /\ \A x \in Users \ {u} : account'[x] = account[x]
  BY <1>8, <1>11, <1>12, AccountUpdate
<1>14. /\ logged' = [x \in Users |-> logged'[x]]
       /\ logged'[u] = [status |-> after.status, role |-> after.role]
       /\ \A x \in Users \ {u} : logged'[x] = logged[x]
  BY <1>7, <1>8 DEF Shapes
<1>15. Exists(u)' /\ account'[u].status # "ABSENT"
  BY <1>6, <1>10, <1>11, <1>13 DEF Exists
<1>16. ASSUME NEW x \in Users PROVE UserFits(x)' /\ (Exists(x) => Exists(x)')
  <2>1. CASE x = u
    BY <1>11, <1>13, <1>14, <1>15, <2>1 DEF UserFits, Exists
  <2>2. CASE x # u
    BY <1>13, <1>14, <2>2, FittingUser
  <2>3. QED
    BY <2>1, <2>2
<1>17. /\ \A x \in Users : account'[x].name = account[x].name
       /\ \A x \in Users : lock[x] # w => account'[x] = account[x]
  BY <1>6, <1>11, <1>13
<1>18. /\ ledger' = [k \in Keys |-> ledger'[k]]
       /\ \A k \in Keys : EntryShape(ledger'[k]) /\ Remembered(ledger'[k].target)
       /\ ReversedOnce'
  BY <1>7, <1>8 DEF IInv, Shapes, Fit, KeyFits, ReversedOnce
<1>19. QED
  BY <1>2, <1>6, <1>7, <1>13, <1>14, <1>16, <1>17, <1>18, Completing

-----------------------------------------------------------------------------
(* The invariant.                                                          *)

LEMMA InitIInv ==
  ASSUME Init
  PROVE  IInv
<1>1. account \in [Users -> Accounts]
  <2>1. NoAccount \in Accounts /\ Registered \subseteq Accounts
    BY DEF Registered, NoAccount, Accounts, Optional, Statuses, Roles
  <2>2. QED
    BY <2>1 DEF Init
<1>2. Shapes
  BY <1>1 DEF Init, Shapes
<1>3. ASSUME NEW w \in Workers PROVE Shape(w) /\ Knows(w)
  <2>1. task[w] = Idle
    BY DEF Init
  <2>2. QED
    BY <2>1, IdleShape DEF Shape, Knows
<1>4. ASSUME NEW k \in Keys PROVE KeyFits(k)
  <2>1. /\ claim[k] = NoClaim /\ ledger[k] = NoEntry /\ effects[k] = 0
        /\ told[k] = [said |-> {}, disclosed |-> 0] /\ trace[k] = NoTrace
    BY DEF Init
  <2>2. QED
    BY <2>1 DEF KeyFits, AnswersFit, NoClaim, NoEntry, NoTrace, EntryShape, Remembered
<1>5. ASSUME NEW u \in Users PROVE UserFits(u)
  <2>1. /\ account[u] \in {NoAccount} \cup Registered
        /\ logged[u] = [status |-> "ACTIVE", role |-> account[u].role]
    BY DEF Init
  <2>2. QED
    BY <2>1 DEF UserFits, Exists, NoAccount, Registered
<1>6. ReversedOnce
  BY AccountsAssumption DEF Init, NoEntry, ReversedOnce
<1>7. QED
  BY <1>2, <1>3, <1>4, <1>5, <1>6 DEF IInv, Fit

LEMMA StepIInv ==
  ASSUME IInv, [Next]_vars
  PROVE  IInv'
<1>1. ASSUME NEW w \in Workers, ConsoleStep(w) PROVE IInv'
  BY <1>1, AdmitAdminStep, RecordRefusalStep, ClaimKeyStep, LookUpAdjustmentStep,
     LockUserTargetStep, MutateUserStep, AdjustQuotaStep, CreateBatchStep, LockInvitationsStep,
     DisableInvitationsStep, LookUpRevealedStep, LookUpCodeStep, RevealStep DEF ConsoleStep
<1>2. ASSUME NEW w \in Workers, NamesStep(w) PROVE IInv'
  BY <1>2, AdmitRenameStep, ReadSelfStep, LookForOwnerStep, RenameStep, PickDefaultStep,
     CreateUserStep DEF NamesStep
<1>3. ASSUME NEW w \in Workers, AdmitClosure(w) \/ CloseAccount(w) \/ Crash(w) PROVE IInv'
  BY <1>3, AdmitClosureStep, CloseAccountStep, CrashStep
<1>4. ASSUME NEW u \in Users, Spend(u) \/ OpenSession(u) \/ EndCooldown(u) PROVE IInv'
  BY <1>4, SpendStep, OpenSessionStep, EndCooldownStep
<1>5. ASSUME NEW n \in Names, EndQuarantine(n) PROVE IInv'
  BY <1>5, EndQuarantineStep
<1>6. ASSUME NEW b \in Batches, RedeemCode(b) PROVE IInv'
  BY <1>6, RedeemCodeStep
<1>7. CASE UNCHANGED vars
  <2>1. /\ UNCHANGED <<account, claim, ledger, trace, lock, request, task, effects, told>>
        /\ UNCHANGED <<logged, quarantine>>
    BY <1>7 DEF vars
  <2>2. account' \in [Users -> Accounts] /\ logged' = [x \in Users |-> logged'[x]]
    BY <2>1 DEF IInv, Shapes
  <2>3. \A x \in Users : UserFits(x)' /\ (Exists(x) => Exists(x)')
    BY <2>1, FittingUser
  <2>4. QED
    BY <2>1, <2>2, <2>3, Outside
<1>8. QED
  BY <1>1, <1>2, <1>3, <1>4, <1>5, <1>6, <1>7, BootstrapOwnerStep DEF Next

-----------------------------------------------------------------------------
(* Theorems.                                                               *)

\* The requests rely on locked rows only, whatever the others do: the
\* invariant that everything below rests on.
THEOREM LockedRowsAreKnown == Spec => []IInv
<1>1. IInv /\ [Next]_vars => IInv'
  BY StepIInv
<1>2. QED
  BY <1>1, InitIInv, PTL DEF Spec

LEMMA AtMostOne ==
  ASSUME NEW S, \A x, y \in S : x = y
  PROVE  Cardinality(S) <= 1
<1>1. CASE S = {}
  BY <1>1, FS_EmptySet
<1>2. CASE S # {}
  <2>1. PICK x : x \in S
    BY <1>2
  <2>2. S = {x}
    BY <2>1
  <2>3. QED
    BY <2>2, FS_Singleton
<1>3. QED
  BY <1>1, <1>2

\* claim_admin_idempotency and the unique reversal: however often and by
\* whomever a request is sent again, its key applies at most once, its successes
\* say the same of its target, its raw codes are disclosed at most once (create_batch
\* answers with them and stores none), and an adjustment is reversed at most once.
THEOREM KeyAppliesOnceAlways == Spec => []KeyAppliesOnce
<1>1. IInv => KeyAppliesOnce
  <2>1. ASSUME IInv, NEW k \in Keys
        PROVE  /\ effects[k] <= 1
               /\ Cardinality(told[k].said) <= 1 /\ told[k].disclosed <= 1
               /\ Cardinality({j \in Keys : ledger[j].reverses = k}) <= 1
    <3>1. effects[k] <= 1
      BY <2>1 DEF IInv, Fit, KeyFits
    <3>2. (\A x, y \in told[k].said : x = y) /\ told[k].disclosed <= 1
      BY <2>1 DEF IInv, Fit, KeyFits, AnswersFit
    <3>3. \A x, y \in {j \in Keys : ledger[j].reverses = k} : x = y
      BY <2>1 DEF IInv, Fit, ReversedOnce
    <3>4. QED
      BY <3>1, <3>2, <3>3, AtMostOne
  <2>2. QED
    BY <2>1 DEF KeyAppliesOnce
<1>2. QED
  BY <1>1, LockedRowsAreKnown, PTL

\* append_audit in the transaction of the change: the last audit row about a
\* user tells the status and the role that the user has.
THEOREM AuditIsTrue == Spec => []AuditTellsTheTruth
<1>1. IInv => AuditTellsTheTruth
  BY DEF IInv, Fit, UserFits, AuditTellsTheTruth
<1>2. QED
  BY <1>1, LockedRowsAreKnown, PTL

\* close_account: no adjustment and no audit row under a key names a closed
\* user as its target, also where the write was in flight during the closure.
THEOREM ClosedIsForgotten == Spec => []ClosedTargetIsForgotten
<1>1. IInv => ClosedTargetIsForgotten
  <2>1. ASSUME IInv, NEW u \in Users, NEW k \in Keys, account[u].status = "CLOSED"
        PROVE  ledger[k].target # u /\ trace[k].target # u
    <3>1. ~Exists(u) /\ u # Nobody
      BY <2>1, AccountsAssumption DEF Exists
    <3>2. Remembered(ledger[k].target) /\ Remembered(trace[k].target)
      BY <2>1 DEF IInv, Fit, KeyFits
    <3>3. QED
      BY <3>1, <3>2 DEF Remembered
  <2>2. QED
    BY <2>1 DEF ClosedTargetIsForgotten
<1>2. QED
  BY <1>1, LockedRowsAreKnown, PTL

\* assert_target_allowed, judged when the target is locked, still holds when
\* the write commits: an administrator who is not the owner writes neither
\* the owner, nor an administrator, nor itself.
THEOREM AdminsTouchOnlyUsersAlways == Spec => AdminsTouchOnlyUsers
<1>1. ASSUME IInv, NEW w \in Workers, task[w].who = "ADMIN", MutateUser(w) \/ AdjustQuota(w)
      PROVE  /\ account[task[w].target].role = "USER"
             /\ task[w].target \notin {Owner, request[w].by}
  <2>1. task[w].pc = "apply" /\ request[w].action \in Targeted
    BY <1>1 DEF MutateUser, AdjustQuota, Targeted
  <2>2. QED
    BY <1>1, <2>1 DEF IInv, Knows
<1>. DEFINE A == \A w \in Workers :
                   task[w].who = "ADMIN" /\ (MutateUser(w) \/ AdjustQuota(w))
                     => /\ account[task[w].target].role = "USER"
                        /\ task[w].target \notin {Owner, request[w].by}
<1>2. IInv => A
  BY <1>1
<1>. HIDE DEF A
<1>3. Spec => [][A]_vars
  BY <1>2, LockedRowsAreKnown, PTL
<1>4. QED
  BY <1>3 DEF A, AdminsTouchOnlyUsers

\* update_profile looks for an owner of the name first and at the quarantine
\* second, so that a name given up in between is found in one of them.
THEOREM NamesAreNotInheritedAlways == Spec => NamesAreNotInherited
<1>1. ASSUME IInv, NEW w \in Workers, NEW u \in Users, Rename(w), request[w].by = u,
             account'[u].name # account[u].name
      PROVE  ~task[w].barred
  <2>1. PICK n : n = task[w].name
    OBVIOUS
  <2>2. /\ account' = [account EXCEPT ![u].name = n, ![u].cooling = TRUE]
        /\ n = account[u].name \/ n \notin quarantine
    BY <1>1, <2>1 DEF Rename, Available
  <2>3. account'[u].name = n
    BY <1>1, <2>2 DEF IInv, Shapes, Accounts
  <2>4. task[w].barred => n \in quarantine \/ account[u].name = n
    BY <1>1, <2>1 DEF IInv, Knows, Rename
  <2>5. QED
    BY <1>1, <2>2, <2>3, <2>4
<1>. DEFINE A == \A w \in Workers, u \in Users :
                   Rename(w) /\ request[w].by = u /\ account'[u].name # account[u].name
                     => ~task[w].barred
<1>2. IInv => A
  BY <1>1
<1>. HIDE DEF A
<1>3. Spec => [][A]_vars
  BY <1>2, LockedRowsAreKnown, PTL
<1>4. QED
  BY <1>3 DEF A, NamesAreNotInherited

\* Who writes names: renaming, the first name of a user, and the closure.
LEMMA DisabledNameStays ==
  ASSUME IInv, [Next]_vars, NEW u \in Users, account[u].status = "DISABLED",
         account'[u].status \in {"ACTIVE", "DISABLED"}
  PROVE  account'[u].name = account[u].name
<1>1. Shapes /\ account[u] \in Accounts
  BY DEF IInv, Shapes
<1>2. ASSUME NEW w \in Workers, ConsoleStep(w) PROVE account'[u].name = account[u].name
  <2>1. CASE MutateUser(w)
    <3>1. PICK x : x = task[w].target
      OBVIOUS
    <3>2. PICK after : after = Mutated(task[w].seen, request[w].action)
      OBVIOUS
    <3>3. PICK restores : restores = (request[w].action = "RESTORE_USER")
      OBVIOUS
    <3>4. account' = [account EXCEPT
            ![x].status = IF after.status = task[w].seen.status THEN @ ELSE after.status,
            ![x].role = IF after.role = task[w].seen.role THEN @ ELSE after.role,
            ![x].session = @ /\ restores]
      BY <2>1, <3>1, <3>2, <3>3 DEF MutateUser
    <3>5. QED
      BY <1>1, <3>4 DEF Shapes, Accounts
  <2>2. CASE AdmitAdmin(w) \/ RecordRefusal(w) \/ AdjustQuota(w) \/ CreateBatch(w)
             \/ DisableInvitations(w) \/ LookUpRevealed(w) \/ Reveal(w)
    BY <2>2 DEF AdmitAdmin, RecordRefusal, AdjustQuota, CreateBatch, DisableInvitations,
                LookUpRevealed, Reveal, rows
  <2>3. CASE ClaimKey(w)
    BY <2>3 DEF ClaimKey, Refuse, rows
  <2>4. CASE LookUpAdjustment(w) \/ LockUserTarget(w) \/ LockInvitations(w) \/ LookUpCode(w)
    BY <2>4 DEF LookUpAdjustment, LockUserTarget, LockInvitations, LookUpCode, Refuse, rows
  <2>5. QED
    BY <1>2, <2>1, <2>2, <2>3, <2>4 DEF ConsoleStep
<1>3. ASSUME NEW w \in Workers, NamesStep(w) PROVE account'[u].name = account[u].name
  <2>1. CASE Rename(w)
    <3>1. account[request[w].by].status = "ACTIVE"
      BY <2>1 DEF IInv, Knows, Rename
    <3>2. PICK x : x = request[w].by
      OBVIOUS
    <3>3. PICK n : n = task[w].name
      OBVIOUS
    <3>4. account' = [account EXCEPT ![x].name = n, ![x].cooling = TRUE] \/ account' = account
      BY <2>1, <3>2, <3>3 DEF Rename
    <3>5. QED
      BY <1>1, <3>1, <3>2, <3>4 DEF Shapes
  <2>2. CASE CreateUser(w)
    <3>1. PICK x : x = request[w].by
      OBVIOUS
    <3>2. \/ account' = account
          \/ account[x].status = "ABSENT" /\ \E b : account' = [account EXCEPT ![x] = b]
      BY <2>2, <3>1 DEF CreateUser
    <3>3. QED
      BY <1>1, <3>2 DEF Shapes
  <2>3. CASE AdmitRename(w) \/ ReadSelf(w) \/ LookForOwner(w) \/ \E n \in Names : PickDefault(w, n)
    BY <2>3 DEF AdmitRename, ReadSelf, LookForOwner, PickDefault, rows
  <2>4. QED
    BY <1>3, <2>1, <2>2, <2>3 DEF NamesStep
<1>4. ASSUME NEW w \in Workers, CloseAccount(w) PROVE account'[u].name = account[u].name
  <2>1. PICK x : x = request[w].by
    OBVIOUS
  <2>2. PICK b : b = [NoAccount EXCEPT !.status = "CLOSED"]
    OBVIOUS
  <2>3. b.status = "CLOSED"
    BY <2>2 DEF NoAccount
  <2>4. account' = account \/ account' = [account EXCEPT ![x] = b]
    BY <1>4, <2>1, <2>2 DEF CloseAccount
  <2>5. QED
    BY <1>1, <2>3, <2>4 DEF Shapes
<1>5. ASSUME NEW w \in Workers, AdmitClosure(w) \/ Crash(w) PROVE account'[u].name = account[u].name
  BY <1>5 DEF AdmitClosure, Crash, rows
<1>6. ASSUME NEW x \in Users, Spend(x) \/ OpenSession(x) \/ EndCooldown(x)
      PROVE  account'[u].name = account[u].name
  BY <1>1, <1>6 DEF Spend, OpenSession, EndCooldown, Shapes, Accounts
<1>7. CASE BootstrapOwner
  BY <1>1, <1>7 DEF BootstrapOwner, Shapes, Accounts
<1>8. CASE \/ \E n \in Names : EndQuarantine(n)
           \/ \E b \in Batches : RedeemCode(b)
           \/ UNCHANGED vars
  BY <1>8 DEF EndQuarantine, RedeemCode, vars
<1>9. QED
  BY <1>2, <1>3, <1>4, <1>5, <1>6, <1>7, <1>8 DEF Next

\* mutate_user changes status and role: the name of a disabled user stays
\* its own, so that a restored user has the name it had.
THEOREM DisabledKeepsNameAlways == Spec => DisabledKeepsName
<1>. DEFINE A == \A u \in Users :
                   account[u].status = "DISABLED" /\ account'[u].status \in {"ACTIVE", "DISABLED"}
                     => account'[u].name = account[u].name
<1>1. IInv /\ [Next]_vars => A
  BY DisabledNameStays
<1>. HIDE DEF A
<1>2. Spec => [][A]_vars
  BY <1>1, LockedRowsAreKnown, PTL DEF Spec
<1>3. QED
  BY <1>2 DEF A, DisabledKeepsName
=============================================================================
