---------------------------- MODULE JobLinksProofs ----------------------------
(***************************************************************************)
(* What TLAPS proves of JobLinks, for any users, trips, workers, versions  *)
(* and page size: that the row of a job says nothing of an owner that the  *)
(* trip does not say, that the backfill leaves no gap behind it, and that  *)
(* an erased row stays erased.                                             *)
(*                                                                         *)
(* The invariant has three parts.  A worker relies on what it has locked   *)
(* and on what it read under those locks (Knows); the rows of a trip, of   *)
(* its job and of the checkpoint fit together (Fit); and everything has    *)
(* its type, which needs Fit, because the version of a trip counts its     *)
(* binding and its erasure.  A step that writes no row has only its own    *)
(* task to keep right (Reading); a step that does write ends its           *)
(* transaction (Writing); of both, no other worker notices anything that   *)
(* it relies on (Keeps, OthersKnow).                                       *)
(***************************************************************************)
EXTENDS JobLinks, TLAPS

\* The transactions that apply snapshots.
Applying == {"event", "page", "repair"}

\* What a task names, and the jobs it may apply.
Shape(w) ==
  LET k == task[w] IN
  /\ k.pc = "idle" => k = Idle
  /\ k.pc \in {"bind", "accept"} => k.about \in Trips
  /\ k.pc \in {"close", "erase"} => k.about \in Users
  /\ k.pc \in {"trip", "link", "commit"} => k.kind \in Applying
  /\ k.pc = "commit" => k.todo = {}
  /\ k.pc \in {"fetch", "page"} => k.kind = "page"
  /\ k.kind = "page" => k.pc \in {"fetch", "page", "trip", "link", "commit"}
  /\ k.pc = "compare" => k.kind = "repair" /\ \A t \in Trips : k.snap[t] <= job[t]
  /\ \A t \in k.todo : job[t] > 0

\* What a task has locked: rows of jobs only where it may write them, the trip
\* it is about to bind, the user it is about to erase and that user's trips.
Holds(w) ==
  LET k == task[w] IN
  /\ \A t \in Trips : lock[LinkLock(t)] = w =>
       /\ k.pc \in {"trip", "link", "commit", "accept"}
       /\ k.pc = "accept" => t = k.about /\ link[t].made
       /\ job[t] > 0
  /\ k.pc \in {"bind", "accept"} =>
       /\ lock[TripLock(k.about)] = w
       /\ trip[k.about].status = "ACTIVE"
       /\ job[k.about] > 0
  /\ k.pc \in {"close", "erase"} =>
       /\ lock[UserLock(k.about)] = w
       /\ user[k.about]
       /\ \A t \in TripsOf(k.about) : /\ trip[t].status # "ACTIVE"
                                      /\ k.pc = "erase" => lock[TripLock(t)] = w

\* What a task has read of a trip is what the trip is, because it is locked; of
\* a trip that was not bound it has read nothing.
Informed(w) ==
  \A t \in Trips :
    LET p == task[w].facts[t] IN
    IF p.bound THEN lock[TripLock(t)] = w /\ p = trip[t] ELSE p = NoTrip

\* The jobs of the page a backfill asked for.
InPage(k, t) == k.last < source[t] /\ source[t] <= k.max /\ source[t] <= k.last + PageSize

\* What a backfill has before it is covered, and all its page is to be applied
\* or is locked; its checkpoint is locked and of the same snapshot.
Paging(w) ==
  LET k == task[w] IN
  k.kind = "page" =>
    /\ k.last <= issued /\ k.max <= issued
    /\ \A t \in Trips : 0 < source[t] /\ source[t] <= k.last => link[t].made
    /\ k.last > 0 \/ k.pc # "fetch" => k.max >= 0
    /\ k.pc # "fetch" =>
         \A t \in Trips : InPage(k, t) => t \in k.todo \/ lock[LinkLock(t)] = w
    /\ k.pc \in {"trip", "link", "commit"} =>
         lock[PageLock] = w /\ checkpoint.max \in {-1, k.max}

Knows(w) == Shape(w) /\ Holds(w) /\ Informed(w) /\ Paging(w)

\* A trip, its owner and its job.
TripFits(t) ==
  LET p == trip[t] IN
  /\ p.status = "ABSENT" => p = NoTrip /\ job[t] = 0
  /\ p.status # "ABSENT" =>
       /\ p.version = 1 + (IF p.bound THEN 1 ELSE 0) + (IF p.erased THEN 1 ELSE 0)
       /\ p.erased <=> p.user = Nobody
  /\ p.erased => p.status = "ENDED"
  /\ p.user # Nobody => user[p.user]
  /\ source[t] > 0 <=> job[t] > 0
  /\ source[t] <= issued

\* The row r of the job of a trip says at most what the trip's row p says.
RowFits(r, t, p) ==
  /\ ~r.made => r = NoLink
  /\ r.version <= p.version
  /\ r.erased <=> r.state = "de-identified"
  /\ r.state = "linked" => p.bound /\ ~p.erased /\ r.trip = t /\ r.user = p.user
  /\ r.erased => p.erased
  /\ r.state # "unlinked" => r.version = p.version
  /\ r.user # Nobody => r.state = "linked"

LinkFits(t) == RowFits(link[t], t, trip[t]) /\ (link[t].made => job[t] > 0)

CheckpointFits ==
  /\ checkpoint.done \/ checkpoint.last > 0 => checkpoint.max >= 0
  /\ checkpoint.last <= issued /\ checkpoint.max <= issued
  /\ BackfillCovers

Fit == (\A t \in Trips : TripFits(t) /\ LinkFits(t)) /\ CheckpointFits

\* The inductive invariant.
IInv == TypeOK /\ (\A w \in Workers : Knows(w)) /\ Fit

\* How a step of v moves the locks.
Moves(v) ==
  \/ lock' = lock
  \/ lock' = [x \in Lockable |-> IF lock[x] = v THEN Nobody ELSE lock[x]]
  \/ \E S \in SUBSET Lockable : (\A x \in S : Free(v, x)) /\ lock' = Holding(v, S)

\* What a step of v, or of nobody in particular, leaves of the rows: those that
\* others have locked, and what is only ever added.
KeepsRows(v) ==
  /\ \A w \in Workers \ {v} :
       /\ \A t \in Trips : lock[TripLock(t)] = w /\ trip[t].status # "ABSENT" => trip'[t] = trip[t]
       /\ \A u \in Users : lock[UserLock(u)] = w =>
            /\ user'[u] = user[u]
            /\ \A t \in Trips : trip'[t].user = u =>
                 trip[t].user = u /\ (trip'[t].status = "ACTIVE" => trip[t].status = "ACTIVE")
       /\ lock[PageLock] = w => checkpoint' = checkpoint
  /\ \A t \in Trips :
       /\ link[t].made => link'[t].made
       /\ job'[t] >= job[t]
       /\ source'[t] = source[t] \/ source'[t] > issued
  /\ issued' >= issued

\* And of the tasks of others: their locals and their locks.
Keeps(v) ==
  /\ \A w \in Workers \ {v} :
       task'[w] = task[w] /\ \A x \in Lockable : lock'[x] = w <=> lock[x] = w
  /\ KeepsRows(v)

-----------------------------------------------------------------------------
(* Locks.                                                                  *)

\* The names of the locks are distinct.
LEMMA LockNames ==
  /\ \A t \in Trips : TripLock(t) \in Lockable /\ LinkLock(t) \in Lockable
  /\ \A u \in Users : UserLock(u) \in Lockable
  /\ StreamLock \in Lockable /\ PageLock \in Lockable
  /\ \A s, t \in Trips : /\ TripLock(s) = TripLock(t) => s = t
                         /\ LinkLock(s) = LinkLock(t) => s = t
                         /\ TripLock(s) # LinkLock(t)
  /\ \A u, v \in Users : UserLock(u) = UserLock(v) => u = v
  /\ \A t \in Trips, u \in Users : UserLock(u) \notin {TripLock(t), LinkLock(t)}
  /\ \A t \in Trips : {StreamLock, PageLock} \cap {TripLock(t), LinkLock(t)} = {}
  /\ \A u \in Users : UserLock(u) \notin {StreamLock, PageLock}
  /\ StreamLock # PageLock
BY DEF TripLock, LinkLock, UserLock, StreamLock, PageLock, Lockable

\* Locking and releasing leave the locks of everybody else alone.
LEMMA LocksKept ==
  ASSUME TypeOK, NEW v \in Workers, Moves(v)
  PROVE  /\ lock' \in [Lockable -> Workers \cup {Nobody}]
         /\ \A w \in Workers \ {v}, x \in Lockable : lock'[x] = w <=> lock[x] = w
<1>1. lock \in [Lockable -> Workers \cup {Nobody}] /\ Nobody \notin Workers
  BY LinksAssumption DEF TypeOK
<1>2. CASE lock' = lock
  BY <1>1, <1>2
<1>3. CASE lock' = [x \in Lockable |-> IF lock[x] = v THEN Nobody ELSE lock[x]]
  BY <1>1, <1>3
<1>4. CASE \E S \in SUBSET Lockable : (\A x \in S : Free(v, x)) /\ lock' = Holding(v, S)
  BY <1>1, <1>4 DEF Free, Holding
<1>5. QED
  BY <1>2, <1>3, <1>4 DEF Moves

\* A transaction that ends holds nothing.
LEMMA Ended ==
  ASSUME TypeOK, NEW v \in Workers, Finish(v)
  PROVE  /\ Moves(v) /\ task' = [task EXCEPT ![v] = Idle] /\ task'[v] = Idle
         /\ \A x \in Lockable : lock'[x] # v
<1>1. lock \in [Lockable -> Workers \cup {Nobody}] /\ Nobody \notin Workers
  BY LinksAssumption DEF TypeOK
<1>2. task \in [Workers -> Tasks]
  BY DEF TypeOK
<1>3. QED
  BY <1>1, <1>2 DEF Finish, Moves

LEMMA IdleIsTask == Idle \in Tasks
<1>1. NoTrip \in TripRows
  BY DEF NoTrip, TripRows
<1>2. QED
  BY <1>1 DEF Idle, Tasks, Versions

\* An idle worker, without a row of a job, knows nothing that could be wrong.
LEMMA IdleKnows ==
  ASSUME NEW w \in Workers, task'[w] = Idle, \A t \in Trips : lock'[LinkLock(t)] # w
  PROVE  Knows(w)'
<1>1. Shape(w)'
  BY DEF Shape, Idle, Applying
<1>2. Holds(w)'
  BY LockNames DEF Holds, Idle
<1>3. Informed(w)'
  BY DEF Informed, Idle, NoTrip
<1>4. Paging(w)'
  BY DEF Paging, Idle
<1>5. QED
  BY <1>1, <1>2, <1>3, <1>4 DEF Knows

-----------------------------------------------------------------------------
(* What a step leaves to the others.                                       *)

\* Nobody's step disturbs what another worker knows: it leaves alone what that
\* worker has locked, and what is not locked only grows.
LEMMA OthersKnow ==
  ASSUME IInv, NEW v, Keeps(v), TypeOK', NEW w \in Workers \ {v}
  PROVE  Knows(w)'
<1>. DEFINE k == task[w]
<1>1. /\ task'[w] = k /\ k \in Tasks /\ Knows(w)
      /\ \A x \in Lockable : lock'[x] = w <=> lock[x] = w
      /\ \A t \in Trips : /\ link[t].made => link'[t].made
                          /\ job'[t] >= job[t]
                          /\ source'[t] = source[t] \/ source'[t] > issued
      /\ issued' >= issued
  BY DEF Keeps, KeepsRows, IInv, TypeOK
<1>2. /\ job \in [Trips -> Nat] /\ source \in [Trips -> Nat] /\ issued \in Nat
      /\ job' \in [Trips -> Nat] /\ source' \in [Trips -> Nat] /\ issued' \in Nat
      /\ trip \in [Trips -> TripRows]
      /\ k \in Tasks /\ k.todo \subseteq Trips /\ k.snap \in [Trips -> Nat]
  BY <1>1 DEF IInv, TypeOK, Versions, Tasks
<1>3. Shape(w)'
  <2>1. Shape(w)
    BY <1>1 DEF Knows
  <2>2. \A t \in k.todo : job'[t] > 0
    BY <1>1, <1>2, <2>1 DEF Shape
  <2>3. k.pc = "compare" => k.kind = "repair" /\ \A t \in Trips : k.snap[t] <= job'[t]
    BY <1>1, <1>2, <2>1 DEF Shape
  <2>4. QED
    BY <1>1, <2>1, <2>2, <2>3 DEF Shape
<1>4. \A t \in Trips : lock[TripLock(t)] = w /\ trip[t].status # "ABSENT" => trip'[t] = trip[t]
  BY DEF Keeps, KeepsRows
<1>5. Holds(w)'
  <2>1. ASSUME NEW t \in Trips, lock'[LinkLock(t)] = w
        PROVE  /\ k.pc \in {"trip", "link", "commit", "accept"}
               /\ k.pc = "accept" => t = k.about /\ link'[t].made
               /\ job'[t] > 0
    <3>1. lock[LinkLock(t)] = w
      BY <1>1, <2>1, LockNames
    <3>2. QED
      BY <1>1, <1>2, <3>1 DEF Knows, Holds
  <2>2. ASSUME k.pc \in {"bind", "accept"}
        PROVE  /\ lock'[TripLock(k.about)] = w /\ trip'[k.about].status = "ACTIVE"
               /\ job'[k.about] > 0
    <3>1. k.about \in Trips /\ lock[TripLock(k.about)] = w /\ trip[k.about].status = "ACTIVE"
          /\ job[k.about] > 0
      BY <1>1, <2>2 DEF Knows, Shape, Holds
    <3>2. QED
      BY <1>1, <1>2, <1>4, <3>1, LockNames
  <2>3. ASSUME k.pc \in {"close", "erase"}
        PROVE  /\ lock'[UserLock(k.about)] = w /\ user'[k.about]
               /\ \A t \in TripsOf(k.about)' : /\ trip'[t].status # "ACTIVE"
                                               /\ k.pc = "erase" => lock'[TripLock(t)] = w
    <3>1. /\ k.about \in Users /\ lock[UserLock(k.about)] = w /\ user[k.about]
          /\ \A t \in TripsOf(k.about) : /\ trip[t].status # "ACTIVE"
                                         /\ k.pc = "erase" => lock[TripLock(t)] = w
      BY <1>1, <2>3 DEF Knows, Shape, Holds
    <3>2. /\ user'[k.about]
          /\ \A t \in Trips : trip'[t].user = k.about =>
               trip[t].user = k.about /\ (trip'[t].status = "ACTIVE" => trip[t].status = "ACTIVE")
      BY <3>1 DEF Keeps, KeepsRows
    <3>3. lock'[UserLock(k.about)] = w
      BY <1>1, <3>1, LockNames
    <3>4. QED
      BY <1>1, <3>1, <3>2, <3>3, LockNames DEF TripsOf
  <2>4. QED
    BY <1>1, <2>1, <2>2, <2>3 DEF Holds
<1>6. Informed(w)'
  <2>1. ASSUME NEW t \in Trips, k.facts[t].bound
        PROVE  lock'[TripLock(t)] = w /\ k.facts[t] = trip'[t]
    <3>1. lock[TripLock(t)] = w /\ k.facts[t] = trip[t]
      BY <1>1, <2>1 DEF Knows, Informed
    <3>2. trip[t].status # "ABSENT"
      BY <2>1, <3>1 DEF IInv, Fit, TripFits, NoTrip
    <3>3. QED
      BY <1>1, <1>4, <3>1, <3>2, LockNames
  <2>2. QED
    BY <1>1, <2>1 DEF Knows, Informed
<1>7. Paging(w)'
  <2>. SUFFICES ASSUME k.kind = "page"
                PROVE  Paging(w)'
    BY <1>1 DEF Paging
  <2>1. /\ k.last \in Nat /\ k.max \in Nat \cup {-1} /\ PageSize \in Nat
    BY <1>1, LinksAssumption DEF Tasks
  <2>2. /\ k.last <= issued /\ k.max <= issued
        /\ \A t \in Trips : 0 < source[t] /\ source[t] <= k.last => link[t].made
        /\ k.last > 0 \/ k.pc # "fetch" => k.max >= 0
        /\ k.pc # "fetch" =>
             \A t \in Trips : InPage(k, t) => t \in k.todo \/ lock[LinkLock(t)] = w
        /\ k.pc \in {"trip", "link", "commit"} =>
             lock[PageLock] = w /\ checkpoint.max \in {-1, k.max}
    BY <1>1 DEF Knows, Paging
  <2>3. k.last <= issued' /\ k.max <= issued'
    BY <1>1, <1>2, <2>1, <2>2
  <2>4. \A t \in Trips : source'[t] = source[t] \/ (source'[t] > k.last /\ source'[t] > k.max)
    BY <1>1, <1>2, <2>1, <2>2
  <2>5. ASSUME NEW t \in Trips, 0 < source'[t], source'[t] <= k.last PROVE link'[t].made
    BY <1>1, <1>2, <2>1, <2>2, <2>4, <2>5
  <2>6. ASSUME NEW t \in Trips, InPage(k, t)', k.pc # "fetch"
        PROVE  t \in k.todo \/ lock'[LinkLock(t)] = w
    <3>1. InPage(k, t)
      BY <1>1, <1>2, <2>1, <2>4, <2>6 DEF InPage
    <3>2. QED
      BY <1>1, <2>2, <2>6, <3>1, LockNames
  <2>7. k.pc \in {"trip", "link", "commit"} =>
             lock'[PageLock] = w /\ checkpoint'.max \in {-1, k.max}
    <3>1. PageLock \in Lockable
      BY LockNames
    <3>2. lock[PageLock] = w => checkpoint' = checkpoint
      BY DEF Keeps, KeepsRows
    <3>3. QED
      BY <1>1, <2>2, <3>1, <3>2
  <2>8. QED
    BY <1>1, <2>2, <2>3, <2>5, <2>6, <2>7 DEF Paging, InPage
<1>8. QED
  BY <1>3, <1>5, <1>6, <1>7 DEF Knows

-----------------------------------------------------------------------------
(* What the operators make of a row.                                       *)

LEMMA VersionedRow ==
  ASSUME NEW r \in LinkRows, NEW n \in 0..3
  PROVE  LET q == [r EXCEPT !.version = n]
         IN  /\ q \in LinkRows /\ q.version = n /\ q.made = r.made
             /\ q.state = r.state /\ q.erased = r.erased /\ q.trip = r.trip /\ q.user = r.user
BY SMT DEF LinkRows

\* A row that has seen version v of its job, before its association is set.
Renewed(r, v, n) == [r EXCEPT !.made = TRUE, !.seen = v, !.version = n]

LEMMA RenewedRow ==
  ASSUME NEW r \in LinkRows, NEW v \in Nat, NEW n \in 0..3
  PROVE  LET q == Renewed(r, v, n)
         IN  /\ q \in LinkRows /\ q.version = n /\ q.made
             /\ q.state = r.state /\ q.erased = r.erased /\ q.trip = r.trip /\ q.user = r.user
<1>. DEFINE q == [r EXCEPT !.made = TRUE, !.seen = v, !.version = n]
<1>1. ASSUME NEW b \in BOOLEAN
      PROVE  [r EXCEPT !.made = b, !.seen = v, !.version = n] \in LinkRows
  BY ZenonT(20) DEF LinkRows, Versions
<1>2. q \in LinkRows
  BY <1>1
<1>3. /\ q.version = n /\ q.made = TRUE
      /\ q.state = r.state /\ q.erased = r.erased /\ q.trip = r.trip /\ q.user = r.user
  BY SMT DEF LinkRows
<1>4. QED
  BY <1>2, <1>3 DEF Renewed

LEMMA LinkedRow ==
  ASSUME NEW r \in LinkRows, NEW t \in Trips, NEW u \in Users
  PROVE  LET q == Linked(r, t, u)
         IN  /\ q \in LinkRows /\ q.version = r.version /\ q.made = r.made
             /\ q.state = "linked" /\ q.erased = r.erased /\ q.trip = t /\ q.user = u
<1>. DEFINE q == [r EXCEPT !.state = "linked", !.trip = t, !.user = u]
<1>1. q \in LinkRows
  BY ZenonT(20) DEF LinkRows
<1>2. /\ q.version = r.version /\ q.made = r.made
      /\ q.state = "linked" /\ q.erased = r.erased /\ q.trip = t /\ q.user = u
  BY SMT DEF LinkRows
<1>3. QED
  BY <1>1, <1>2 DEF Linked

LEMMA UnlinkedRow ==
  ASSUME NEW r \in LinkRows, NEW x \in Trips \cup {Nobody}
  PROVE  LET q == [Unlinked(r) EXCEPT !.trip = x]
         IN  /\ q \in LinkRows /\ q.version = r.version /\ q.made = r.made
             /\ q.state = "unlinked" /\ q.erased = r.erased /\ q.user = Nobody
<1>. DEFINE q == [r EXCEPT !.state = "unlinked", !.user = Nobody, !.trip = x]
<1>1. q \in LinkRows
  BY ZenonT(20) DEF LinkRows
<1>2. /\ q.version = r.version /\ q.made = r.made
      /\ q.state = "unlinked" /\ q.erased = r.erased /\ q.user = Nobody
  BY SMT DEF LinkRows
<1>3. QED
  BY <1>1, <1>2 DEF Unlinked

LEMMA DeidentifiedRow ==
  ASSUME NEW r \in LinkRows
  PROVE  LET q == Deidentified(r)
         IN  /\ q \in LinkRows /\ q.version = r.version /\ q.made = r.made
             /\ q.state = "de-identified" /\ q.erased /\ q.user = Nobody
<1>. DEFINE q == [r EXCEPT !.state = "de-identified", !.erased = TRUE,
                           !.trip = Nobody, !.user = Nobody]
<1>1. ASSUME NEW b \in BOOLEAN
      PROVE  [r EXCEPT !.state = "de-identified", !.erased = b,
                       !.trip = Nobody, !.user = Nobody] \in LinkRows
  BY ZenonT(20) DEF LinkRows
<1>2. q \in LinkRows
  BY <1>1
<1>3. /\ q.version = r.version /\ q.made = r.made
      /\ q.state = "de-identified" /\ q.erased = TRUE /\ q.user = Nobody
  BY SMT DEF LinkRows
<1>4. QED
  BY <1>2, <1>3 DEF Deidentified

LEMMA BoundRow ==
  ASSUME NEW p \in TripRows, p.version = 1 + (IF p.bound THEN 1 ELSE 0)
  PROVE  LET q == Bound(p)
         IN  /\ q \in TripRows /\ q.status = p.status /\ q.bound /\ q.user = p.user
             /\ q.version = 2 /\ q.erased = p.erased
<1>. DEFINE q == [p EXCEPT !.bound = TRUE, !.version = 2]
<1>1. Bound(p) = q
  <2>1. (IF p.bound THEN p.version ELSE p.version + 1) = 2
    OBVIOUS
  <2>2. QED
    BY <2>1 DEF Bound
<1>2. ASSUME NEW b \in BOOLEAN, NEW n \in 0..3
      PROVE  [p EXCEPT !.bound = b, !.version = n] \in TripRows
  BY Zenon DEF TripRows
<1>3. TRUE \in BOOLEAN /\ 2 \in 0..3
  OBVIOUS
<1>4. q \in TripRows
  BY <1>2, <1>3
<1>5. /\ q.status = p.status /\ q.bound = TRUE /\ q.user = p.user
      /\ q.version = 2 /\ q.erased = p.erased
  BY SMT DEF TripRows
<1>6. QED
  BY <1>1, <1>4, <1>5

LEMMA ErasedTrip ==
  ASSUME NEW p \in TripRows, p.version + 1 \in 0..3
  PROVE  LET q == [p EXCEPT !.user = Nobody, !.version = @ + 1, !.erased = TRUE]
         IN  /\ q \in TripRows /\ q.status = p.status /\ q.bound = p.bound /\ q.user = Nobody
             /\ q.version = p.version + 1 /\ q.erased
<1>. DEFINE q == [p EXCEPT !.user = Nobody, !.version = p.version + 1, !.erased = TRUE]
<1>1. ASSUME NEW b \in BOOLEAN, NEW n \in 0..3
      PROVE  [p EXCEPT !.user = Nobody, !.version = n, !.erased = b] \in TripRows
  BY ZenonT(20) DEF TripRows
<1>2. q \in TripRows
  BY <1>1
<1>3. /\ q.status = p.status /\ q.bound = p.bound /\ q.user = Nobody
      /\ q.version = p.version + 1 /\ q.erased = TRUE
  BY SMT DEF TripRows
<1>4. QED
  BY <1>2, <1>3

\* A step keeps the invariant that keeps its own task and the rows right.
LEMMA Together ==
  ASSUME IInv, NEW v, Keeps(v), TypeOK', Fit', v \in Workers => Knows(v)'
  PROVE  IInv'
<1>1. ASSUME NEW w \in Workers PROVE Knows(w)'
  BY <1>1, OthersKnow
<1>2. QED
  BY <1>1 DEF IInv

\* A step that writes no row has only its own task to keep right.
LEMMA Reading ==
  ASSUME IInv, NEW v \in Workers, NEW k \in Tasks, Moves(v),
         task' = [task EXCEPT ![v] = k], UNCHANGED <<rows, hermes>>, Knows(v)'
  PROVE  IInv'
<1>1. TypeOK
  BY DEF IInv
<1>2. /\ lock' \in [Lockable -> Workers \cup {Nobody}]
      /\ \A w \in Workers \ {v}, x \in Lockable : lock'[x] = w <=> lock[x] = w
  BY <1>1, LocksKept
<1>3. /\ task \in [Workers -> Tasks]
      /\ UNCHANGED <<user, trip, link, applied, checkpoint, job, source, issued>>
  BY <1>1 DEF TypeOK, rows, hermes
<1>4. TypeOK'
  BY <1>1, <1>2, <1>3 DEF TypeOK
<1>5. Keeps(v)
  <2>1. job \in [Trips -> Nat] /\ issued \in Nat
    BY <1>1 DEF TypeOK, Versions
  <2>2. ASSUME NEW w \in Workers \ {v}
        PROVE  task'[w] = task[w] /\ \A x \in Lockable : lock'[x] = w <=> lock[x] = w
    BY <1>2, <1>3
  <2>3. QED
    BY <1>3, <2>1, <2>2 DEF Keeps, KeepsRows
<1>6. Fit'
  <2>1. Fit
    BY DEF IInv
  <2>2. QED
    BY <1>3, <2>1 DEF Fit, TripFits, LinkFits, RowFits, CheckpointFits, BackfillCovers
<1>7. QED
  BY <1>4, <1>5, <1>6, Together

\* Neither has a transaction that ends without having written a row.
LEMMA Ending ==
  ASSUME IInv, NEW v \in Workers, Finish(v), UNCHANGED <<rows, hermes>>
  PROVE  IInv'
<1>1. TypeOK
  BY DEF IInv
<1>2. /\ Moves(v) /\ task' = [task EXCEPT ![v] = Idle] /\ task'[v] = Idle
      /\ \A x \in Lockable : lock'[x] # v
  BY <1>1, Ended
<1>3. Knows(v)'
  BY <1>2, IdleKnows, LockNames
<1>4. QED
  BY <1>2, <1>3, IdleIsTask, Reading

\* What v has locked after it has locked S as well.
LEMMA Locking ==
  ASSUME TypeOK, NEW v \in Workers, NEW S \in SUBSET Lockable, \A x \in S : Free(v, x),
         lock' = Holding(v, S)
  PROVE  Moves(v) /\ \A x \in Lockable : lock'[x] = v <=> lock[x] = v \/ x \in S
<1>1. lock \in [Lockable -> Workers \cup {Nobody}]
  BY DEF TypeOK
<1>2. QED
  BY <1>1 DEF Holding, Moves

\* What the invariant says of the task of a worker, and of the types it uses.
LEMMA TaskFacts ==
  ASSUME IInv, NEW w \in Workers
  PROVE  /\ TypeOK /\ Knows(w) /\ task \in [Workers -> Tasks] /\ task[w] \in Tasks
         /\ job \in [Trips -> Nat] /\ source \in [Trips -> Nat] /\ issued \in Nat
         /\ trip \in [Trips -> TripRows] /\ link \in [Trips -> LinkRows]
         /\ applied \in [Trips -> Nat] /\ checkpoint \in Checkpoints
         /\ user \in [Users -> BOOLEAN]
BY DEF IInv, TypeOK, Versions

\* An idle worker has no row of a job locked.
LEMMA IdleHolds ==
  ASSUME IInv, NEW w \in Workers, task[w].pc = "idle"
  PROVE  task[w] = Idle /\ \A t \in Trips : lock[LinkLock(t)] # w
BY TaskFacts DEF Knows, Shape, Holds

\* A task that has read no trip.
LEMMA NothingRead ==
  ASSUME NEW w \in Workers, task'[w].facts = [t \in Trips |-> NoTrip]
  PROVE  Informed(w)'
BY DEF Informed, NoTrip

-----------------------------------------------------------------------------
(* The steps that only lock and read.                                      *)

\* save_upstream_acceptance has locked the trip it will bind, which is active.
LEMMA AcceptTripStep ==
  ASSUME IInv, NEW w \in Workers, NEW t \in Trips, AcceptTrip(w, t)
  PROVE  IInv'
<1>. DEFINE k == [Idle EXCEPT !.pc = "bind", !.kind = "accept", !.about = t]
<1>1. /\ TypeOK /\ task \in [Workers -> Tasks]
      /\ task[w] = Idle /\ \A s \in Trips : lock[LinkLock(s)] # w
      /\ job[t] > 0 /\ trip[t].status = "ACTIVE" /\ Free(w, TripLock(t))
      /\ lock' = Holding(w, {TripLock(t)}) /\ UNCHANGED <<rows, hermes>>
  BY TaskFacts, IdleHolds DEF AcceptTrip
<1>2. /\ Moves(w)
      /\ \A x \in Lockable : lock'[x] = w <=> lock[x] = w \/ x \in {TripLock(t)}
  <2>1. {TripLock(t)} \in SUBSET Lockable /\ \A x \in {TripLock(t)} : Free(w, x)
    BY <1>1, LockNames
  <2>2. QED
    BY <1>1, <2>1, Locking
<1>3. k \in Tasks /\ task' = [task EXCEPT ![w] = k] /\ task'[w] = k
  <2>1. k \in Tasks
    BY IdleIsTask DEF Tasks
  <2>2. QED
    BY <1>1, <2>1 DEF AcceptTrip, Idle
<1>4. /\ k.pc = "bind" /\ k.kind = "accept" /\ k.about = t /\ k.todo = {}
      /\ k.facts = [s \in Trips |-> NoTrip]
  BY DEF Idle
<1>5. Shape(w)'
  BY <1>3, <1>4 DEF Shape
<1>6. Holds(w)'
  <2>1. lock'[TripLock(t)] = w /\ \A s \in Trips : lock'[LinkLock(s)] # w
    BY <1>1, <1>2, LockNames
  <2>2. trip' = trip /\ job' = job
    BY <1>1 DEF rows, hermes
  <2>3. QED
    BY <1>1, <1>3, <1>4, <2>1, <2>2 DEF Holds
<1>7. Informed(w)' /\ Paging(w)'
  <2>1. Informed(w)'
    BY <1>3, <1>4, NothingRead
  <2>2. QED
    BY <1>3, <1>4, <2>1 DEF Paging
<1>8. QED
  BY <1>1, <1>2, <1>3, <1>5, <1>6, <1>7, Reading DEF Knows

\* It has locked the row of the job too, if there is one.
LEMMA AcceptLinkStep ==
  ASSUME IInv, NEW w \in Workers, AcceptLink(w)
  PROVE  IInv'
<1>. DEFINE t == task[w].about
            k == [task[w] EXCEPT !.pc = "accept"]
<1>1. /\ TypeOK /\ Knows(w) /\ task \in [Workers -> Tasks] /\ task[w] \in Tasks
      /\ task[w].pc = "bind" /\ UNCHANGED <<rows, hermes>>
      /\ IF link[t].made
         THEN Free(w, LinkLock(t)) /\ lock' = Holding(w, {LinkLock(t)})
         ELSE UNCHANGED lock
  BY TaskFacts DEF AcceptLink
<1>2. k \in Tasks /\ task' = [task EXCEPT ![w] = k] /\ task'[w] = k
  BY <1>1 DEF AcceptLink, Tasks
<1>3. /\ k.pc = "accept" /\ k.kind = task[w].kind /\ k.about = t /\ k.todo = task[w].todo
      /\ k.facts = task[w].facts
  BY <1>1 DEF Tasks
<1>4. t \in Trips /\ lock[TripLock(t)] = w /\ trip[t].status = "ACTIVE" /\ job[t] > 0
  BY <1>1 DEF Knows, Shape, Holds
<1>5. /\ Moves(w)
      /\ \A x \in Lockable : lock[x] = w => lock'[x] = w
      /\ \A x \in Lockable : lock'[x] = w => lock[x] = w \/ (x = LinkLock(t) /\ link[t].made)
  <2>1. CASE link[t].made
    <3>1. {LinkLock(t)} \in SUBSET Lockable /\ \A x \in {LinkLock(t)} : Free(w, x)
      BY <1>1, <1>4, <2>1, LockNames
    <3>2. Moves(w) /\ \A x \in Lockable : lock'[x] = w <=> lock[x] = w \/ x \in {LinkLock(t)}
      BY <1>1, <2>1, <3>1, Locking
    <3>3. QED
      BY <2>1, <3>2
  <2>2. CASE ~link[t].made
    BY <1>1, <2>2 DEF Moves
  <2>3. QED
    BY <2>1, <2>2
<1>6. Shape(w)'
  BY <1>1, <1>2, <1>3, <1>4 DEF Knows, Shape, rows, hermes
<1>7. Holds(w)'
  <2>1. trip' = trip /\ job' = job /\ link' = link
    BY <1>1 DEF rows, hermes
  <2>2. ASSUME NEW s \in Trips, lock'[LinkLock(s)] = w PROVE s = t /\ link[t].made
    <3>1. lock[LinkLock(s)] # w
      BY <1>1 DEF Knows, Holds
    <3>2. QED
      BY <1>4, <1>5, <2>2, <3>1, LockNames
  <2>3. lock'[TripLock(t)] = w
    BY <1>4, <1>5, LockNames
  <2>4. QED
    BY <1>2, <1>3, <1>4, <2>1, <2>2, <2>3 DEF Holds
<1>8. Informed(w)'
  BY <1>1, <1>2, <1>3, <1>5, LockNames DEF Knows, Informed, rows
<1>9. Paging(w)'
  BY <1>1, <1>2, <1>3 DEF Knows, Shape, Paging
<1>10. QED
  BY <1>1, <1>2, <1>5, <1>6, <1>7, <1>8, <1>9, Reading DEF Knows

\* An event is about a job that exists.
LEMMA ConsumeStep ==
  ASSUME IInv, NEW w \in Workers, NEW t \in Trips, Consume(w, t)
  PROVE  IInv'
<1>. DEFINE k == [Idle EXCEPT !.pc = "trip", !.kind = "event", !.todo = {t},
                              !.snap[t] = applied[t] + 1]
<1>1. /\ TypeOK /\ task \in [Workers -> Tasks]
      /\ task[w] = Idle /\ \A s \in Trips : lock[LinkLock(s)] # w
      /\ applied \in [Trips -> Nat] /\ job \in [Trips -> Nat]
      /\ applied[t] < job[t] /\ Free(w, StreamLock)
      /\ lock' = Holding(w, {StreamLock}) /\ UNCHANGED <<rows, hermes>>
  BY TaskFacts, IdleHolds DEF Consume
<1>2. /\ Moves(w)
      /\ \A x \in Lockable : lock'[x] = w <=> lock[x] = w \/ x \in {StreamLock}
  <2>1. {StreamLock} \in SUBSET Lockable /\ \A x \in {StreamLock} : Free(w, x)
    BY <1>1, LockNames
  <2>2. QED
    BY <1>1, <2>1, Locking
<1>3. k \in Tasks /\ task' = [task EXCEPT ![w] = k] /\ task'[w] = k
  <2>1. Idle.snap = [s \in Trips |-> 0]
    BY DEF Idle
  <2>2. [Idle.snap EXCEPT ![t] = applied[t] + 1] \in [Trips -> Nat]
    BY <1>1, <2>1
  <2>3. k = [Idle EXCEPT !.pc = "trip", !.kind = "event", !.todo = {t},
                         !.snap = [Idle.snap EXCEPT ![t] = applied[t] + 1]]
    BY DEF Idle
  <2>4. k \in Tasks
    BY <2>2, <2>3, IdleIsTask DEF Tasks, Versions
  <2>5. task' = [task EXCEPT ![w] = k]
    BY <1>1 DEF Consume, Idle
  <2>6. QED
    BY <1>1, <2>4, <2>5
<1>4. /\ k.pc = "trip" /\ k.kind = "event" /\ k.todo = {t}
      /\ k.facts = [s \in Trips |-> NoTrip]
  BY DEF Idle
<1>5. Shape(w)'
  <2>1. job' = job /\ job[t] > 0
    BY <1>1 DEF hermes
  <2>2. QED
    BY <1>3, <1>4, <2>1 DEF Shape, Applying
<1>6. Holds(w)'
  <2>. HIDE DEF k
  <2>1. ASSUME NEW s \in Trips PROVE lock'[LinkLock(s)] # w
    <3>1. LinkLock(s) \in Lockable /\ LinkLock(s) # StreamLock
      BY LockNames
    <3>2. QED
      BY <1>1, <1>2, <3>1
  <2>2. QED
    BY <1>3, <1>4, <2>1 DEF Holds
<1>7. Informed(w)' /\ Paging(w)'
  <2>1. Informed(w)'
    BY <1>3, <1>4, NothingRead
  <2>2. QED
    BY <1>3, <1>4, <2>1 DEF Paging
<1>8. QED
  BY <1>1, <1>2, <1>3, <1>5, <1>6, <1>7, Reading DEF Knows

\* A bound trip is read under its lock; of another nothing is read.
LEMMA ApplyTripStep ==
  ASSUME IInv, NEW w \in Workers, NEW t \in Trips, ApplyTrip(w, t)
  PROVE  IInv'
<1>. DEFINE k == [task[w] EXCEPT !.pc = "link", !.facts = [task[w].facts EXCEPT ![t] = FactOf(t)]]
<1>1. /\ TypeOK /\ Knows(w) /\ task \in [Workers -> Tasks] /\ task[w] \in Tasks
      /\ trip \in [Trips -> TripRows]
      /\ task[w].pc = "trip" /\ UNCHANGED <<rows, hermes>>
      /\ IF trip[t].bound
         THEN Free(w, TripLock(t)) /\ lock' = Holding(w, {TripLock(t)})
         ELSE UNCHANGED lock
  BY TaskFacts DEF ApplyTrip
<1>2. task[w].facts \in [Trips -> TripRows] /\ FactOf(t) \in TripRows /\ NoTrip.bound = FALSE
  BY <1>1 DEF Tasks, FactOf, NoTrip, TripRows
<1>3. k \in Tasks /\ task' = [task EXCEPT ![w] = k] /\ task'[w] = k
  <2>1. k \in Tasks
    <3>1. [task[w].facts EXCEPT ![t] = FactOf(t)] \in [Trips -> TripRows]
      BY <1>2
    <3>2. QED
      BY <1>1, <3>1 DEF Tasks
  <2>2. task' = [task EXCEPT ![w] = k]
    BY <1>1 DEF ApplyTrip, Tasks
  <2>3. QED
    BY <1>1, <2>1, <2>2
<1>4. /\ k.pc = "link" /\ k.kind = task[w].kind /\ k.todo = task[w].todo
      /\ k.last = task[w].last /\ k.max = task[w].max
      /\ k.facts = [task[w].facts EXCEPT ![t] = FactOf(t)]
  BY <1>1 DEF Tasks
<1>5. /\ Moves(w)
      /\ \A x \in Lockable : lock[x] = w => lock'[x] = w
      /\ \A s \in Trips : lock'[LinkLock(s)] = w <=> lock[LinkLock(s)] = w
      /\ trip[t].bound => lock'[TripLock(t)] = w
  <2>1. CASE trip[t].bound
    <3>1. {TripLock(t)} \in SUBSET Lockable /\ \A x \in {TripLock(t)} : Free(w, x)
      BY <1>1, <2>1, LockNames
    <3>2. Moves(w) /\ \A x \in Lockable : lock'[x] = w <=> lock[x] = w \/ x \in {TripLock(t)}
      BY <1>1, <2>1, <3>1, Locking
    <3>3. QED
      BY <3>2, LockNames
  <2>2. CASE ~trip[t].bound
    BY <1>1, <2>2 DEF Moves
  <2>3. QED
    BY <2>1, <2>2
<1>6. UNCHANGED <<trip, link, checkpoint, job, source, issued>>
  BY <1>1 DEF rows, hermes
<1>7. Shape(w)'
  BY <1>1, <1>3, <1>4, <1>6 DEF Knows, Shape
<1>8. Holds(w)'
  BY <1>1, <1>3, <1>4, <1>5, <1>6 DEF Knows, Holds
<1>9. Informed(w)'
  <2>1. ASSUME NEW s \in Trips, k.facts[s].bound
        PROVE  lock'[TripLock(s)] = w /\ k.facts[s] = trip[s]
    <3>1. CASE s = t
      BY <1>2, <1>4, <1>5, <2>1, <3>1 DEF FactOf
    <3>2. CASE s # t
      BY <1>1, <1>2, <1>4, <1>5, <2>1, <3>2, LockNames DEF Knows, Informed
    <3>3. QED
      BY <3>1, <3>2
  <2>2. ASSUME NEW s \in Trips, ~k.facts[s].bound PROVE k.facts[s] = NoTrip
    BY <1>1, <1>2, <1>4, <2>2 DEF FactOf, Knows, Informed
  <2>3. QED
    BY <1>3, <1>6, <2>1, <2>2 DEF Informed
<1>10. Paging(w)'
  <2>1. Paging(w) /\ PageLock \in Lockable
    BY <1>1, LockNames DEF Knows
  <2>2. QED
    BY <1>1, <1>3, <1>4, <1>5, <1>6, <2>1 DEF Paging, InPage
<1>11. QED
  BY <1>1, <1>3, <1>5, <1>7, <1>8, <1>9, <1>10, Reading DEF Knows

\* A job leaves the page to be applied for the rows that are locked.
LEMMA ApplyLinkStep ==
  ASSUME IInv, NEW w \in Workers, NEW t \in Trips, ApplyLink(w, t)
  PROVE  IInv'
<1>. DEFINE rest == task[w].todo \ {t}
            u == task[w].facts[t].user
            names == u # Nobody /\ ~link[t].erased /\ link[t].user # u
            k == [task[w] EXCEPT !.pc = GoOn(rest), !.todo = rest,
                                 !.keys = IF names THEN @ \cup {u} ELSE @]
<1>1. /\ TypeOK /\ Knows(w) /\ task \in [Workers -> Tasks] /\ task[w] \in Tasks
      /\ job \in [Trips -> Nat]
      /\ task[w].pc = "link" /\ t \in task[w].todo /\ UNCHANGED <<rows, hermes>>
      /\ Free(w, LinkLock(t)) /\ lock' = Holding(w, {LinkLock(t)})
  BY TaskFacts DEF ApplyLink, Turn
<1>2. /\ Moves(w)
      /\ \A x \in Lockable : lock'[x] = w <=> lock[x] = w \/ x \in {LinkLock(t)}
  <2>1. {LinkLock(t)} \in SUBSET Lockable /\ \A x \in {LinkLock(t)} : Free(w, x)
    BY <1>1, LockNames
  <2>2. QED
    BY <1>1, <2>1, Locking
<1>3. k \in Tasks /\ task' = [task EXCEPT ![w] = k] /\ task'[w] = k
  <2>1. rest \subseteq Trips /\ GoOn(rest) \in {"trip", "commit"}
    BY <1>1 DEF Tasks, GoOn
  <2>2. (IF names THEN task[w].keys \cup {u} ELSE task[w].keys) \subseteq Users
    <3>1. task[w].facts[t] \in TripRows /\ task[w].keys \subseteq Users
      BY <1>1 DEF Tasks
    <3>2. u \in Users \cup {Nobody}
      BY <3>1 DEF TripRows
    <3>3. QED
      BY <3>1, <3>2
  <2>3. k \in Tasks
    BY <1>1, <2>1, <2>2 DEF Tasks
  <2>4. task' = [task EXCEPT ![w] = k]
    BY <1>1 DEF ApplyLink, Tasks
  <2>5. QED
    BY <1>1, <2>3, <2>4
<1>4. /\ k.pc = GoOn(rest) /\ k.kind = task[w].kind /\ k.todo = rest
      /\ k.last = task[w].last /\ k.max = task[w].max /\ k.facts = task[w].facts
  BY <1>1 DEF Tasks
<1>5. UNCHANGED <<trip, link, checkpoint, job, source, issued>>
  BY <1>1 DEF rows, hermes
<1>6. k.pc \in {"trip", "commit"} /\ (k.pc = "commit" => k.todo = {})
  BY <1>4 DEF GoOn
<1>7. Shape(w)'
  <2>1. Shape(w) /\ k.kind \in Applying /\ \A s \in k.todo : job[s] > 0
    BY <1>1, <1>4 DEF Knows, Shape
  <2>2. QED
    BY <1>3, <1>4, <1>5, <1>6, <2>1 DEF Shape
<1>8. Holds(w)'
  <2>1. ASSUME NEW s \in Trips, lock'[LinkLock(s)] = w PROVE job[s] > 0
    <3>1. CASE s = t
      BY <1>1, <3>1 DEF Knows, Shape
    <3>2. CASE s # t
      BY <1>1, <1>2, <2>1, <3>2, LockNames DEF Knows, Holds
    <3>3. QED
      BY <3>1, <3>2
  <2>2. QED
    BY <1>3, <1>5, <1>6, <2>1 DEF Holds
<1>9. Informed(w)'
  BY <1>1, <1>2, <1>3, <1>4, <1>5, LockNames DEF Knows, Informed
<1>10. Paging(w)'
  <2>. SUFFICES ASSUME k.kind = "page"
                PROVE  Paging(w)'
    BY <1>3 DEF Paging
  <2>1. /\ k.last <= issued /\ k.max <= issued
        /\ \A s \in Trips : 0 < source[s] /\ source[s] <= k.last => link[s].made
        /\ k.max >= 0
        /\ \A s \in Trips : InPage(task[w], s) => s \in task[w].todo \/ lock[LinkLock(s)] = w
        /\ lock[PageLock] = w /\ checkpoint.max \in {-1, k.max}
    BY <1>1, <1>4 DEF Knows, Paging
  <2>2. ASSUME NEW s \in Trips, InPage(task[w], s)' PROVE s \in k.todo \/ lock'[LinkLock(s)] = w
    <3>1. InPage(task[w], s)
      BY <1>3, <1>4, <1>5, <2>2 DEF InPage
    <3>2. QED
      BY <1>2, <1>4, <2>1, <3>1, LockNames
  <2>3. lock'[PageLock] = w
    BY <1>2, <2>1, LockNames
  <2>4. QED
    BY <1>3, <1>5, <2>1, <2>2, <2>3 DEF Paging, InPage
<1>11. QED
  BY <1>1, <1>2, <1>3, <1>7, <1>8, <1>9, <1>10, Reading DEF Knows

\* What is before the checkpoint is covered.
LEMMA ReadCheckpointStep ==
  ASSUME IInv, NEW w \in Workers, ReadCheckpoint(w)
  PROVE  IInv'
<1>. DEFINE k == [Idle EXCEPT !.pc = "fetch", !.kind = "page",
                              !.last = checkpoint.last, !.max = checkpoint.max]
<1>1. /\ TypeOK /\ task \in [Workers -> Tasks]
      /\ task[w] = Idle /\ \A s \in Trips : lock[LinkLock(s)] # w
      /\ checkpoint.last \in Nat /\ checkpoint.max \in Nat \cup {-1} /\ ~checkpoint.done
      /\ lock' = lock /\ UNCHANGED <<rows, hermes>>
  BY TaskFacts, IdleHolds DEF ReadCheckpoint, Checkpoints
<1>2. k \in Tasks /\ task' = [task EXCEPT ![w] = k] /\ task'[w] = k
  <2>1. k \in Tasks
    BY <1>1, IdleIsTask DEF Tasks
  <2>2. QED
    BY <1>1, <2>1 DEF ReadCheckpoint, Idle
<1>3. /\ k.pc = "fetch" /\ k.kind = "page" /\ k.todo = {}
      /\ k.last = checkpoint.last /\ k.max = checkpoint.max
      /\ k.facts = [s \in Trips |-> NoTrip]
  BY DEF Idle
<1>4. UNCHANGED <<link, source, issued>>
  BY <1>1 DEF rows, hermes
<1>5. Shape(w)' /\ Holds(w)' /\ Informed(w)'
  <2>1. Shape(w)'
    BY <1>2, <1>3 DEF Shape
  <2>2. Holds(w)'
    BY <1>1, <1>2, <1>3 DEF Holds
  <2>3. QED
    BY <1>2, <1>3, <2>1, <2>2, NothingRead
<1>6. Paging(w)'
  <2>1. CheckpointFits
    BY DEF IInv, Fit
  <2>2. /\ k.last <= issued /\ k.max <= issued /\ (k.last > 0 => k.max >= 0)
        /\ \A t \in Trips : 0 < source[t] /\ source[t] <= k.last => link[t].made
    BY <1>1, <1>3, <2>1 DEF CheckpointFits, BackfillCovers
  <2>3. QED
    BY <1>2, <1>3, <1>4, <2>2 DEF Paging
<1>7. QED
  BY <1>1, <1>2, <1>5, <1>6, Reading DEF Knows, Moves

\* The page has every job of the snapshot up to its end, and only jobs.
LEMMA FetchPageStep ==
  ASSUME IInv, NEW w \in Workers, FetchPage(w)
  PROVE  IInv'
<1>. DEFINE max == IF task[w].last > 0 THEN task[w].max ELSE issued
            page == {t \in Trips : /\ task[w].last < source[t] /\ source[t] <= max
                                   /\ source[t] <= task[w].last + PageSize}
            k == [task[w] EXCEPT !.pc = "page", !.max = max, !.todo = page,
                    !.snap = [t \in Trips |-> IF t \in page THEN job[t] ELSE 0]]
<1>1. /\ TypeOK /\ Knows(w) /\ task \in [Workers -> Tasks] /\ task[w] \in Tasks
      /\ job \in [Trips -> Nat] /\ source \in [Trips -> Nat] /\ issued \in Nat
      /\ task[w].last \in Nat /\ task[w].max \in Nat \cup {-1}
      /\ task[w].pc = "fetch" /\ lock' = lock /\ UNCHANGED <<rows, hermes>>
  BY TaskFacts DEF FetchPage, Tasks
<1>2. k \in Tasks /\ task' = [task EXCEPT ![w] = k] /\ task'[w] = k
  <2>1. max \in Nat \cup {-1}
    BY <1>1
  <2>2. k \in Tasks
    BY <1>1, <2>1 DEF Tasks, Versions
  <2>3. QED
    BY <1>1, <2>2 DEF FetchPage
<1>3. /\ k.pc = "page" /\ k.kind = task[w].kind /\ k.todo = page
      /\ k.last = task[w].last /\ k.max = max /\ k.facts = task[w].facts
  BY <1>1 DEF Tasks
<1>4. UNCHANGED <<trip, link, job, source, issued>>
  BY <1>1 DEF rows, hermes
<1>5. Shape(w)'
  <2>1. \A t \in Trips : source[t] > 0 <=> job[t] > 0
    BY DEF IInv, Fit, TripFits
  <2>2. \A t \in page : job[t] > 0
    BY <1>1, <2>1
  <2>3. task[w].kind = "page"
    BY <1>1 DEF Knows, Shape
  <2>4. QED
    BY <1>2, <1>3, <1>4, <2>2, <2>3 DEF Shape
<1>6. Holds(w)'
  BY <1>1, <1>2, <1>3 DEF Knows, Holds
<1>7. Informed(w)'
  BY <1>1, <1>2, <1>3, <1>4 DEF Knows, Informed
<1>8. Paging(w)'
  <2>1. Paging(w) /\ task[w].kind = "page"
    BY <1>1 DEF Knows, Shape
  <2>2. /\ k.last <= issued /\ k.max <= issued /\ k.max >= 0
        /\ \A t \in Trips : 0 < source[t] /\ source[t] <= k.last => link[t].made
    BY <1>1, <1>3, <2>1 DEF Paging
  <2>3. \A t \in Trips : InPage(k, t) => t \in k.todo
    BY <1>3 DEF InPage
  <2>4. QED
    BY <1>2, <1>3, <1>4, <2>2, <2>3 DEF Paging, InPage
<1>9. QED
  BY <1>1, <1>2, <1>5, <1>6, <1>7, <1>8, Reading DEF Knows, Moves

\* A page goes on only with the checkpoint locked, of the same snapshot.
LEMMA OpenPageStep ==
  ASSUME IInv, NEW w \in Workers, OpenPage(w)
  PROVE  IInv'
<1>. DEFINE k == [task[w] EXCEPT !.pc = GoOn(task[w].todo)]
<1>1. /\ TypeOK /\ Knows(w) /\ task \in [Workers -> Tasks] /\ task[w] \in Tasks
      /\ task[w].pc = "page" /\ Free(w, PageLock) /\ UNCHANGED <<rows, hermes>>
  BY TaskFacts DEF OpenPage
<1>2. CASE SameSnapshot(w)
  <2>1. lock' = Holding(w, {PageLock}) /\ task' = [task EXCEPT ![w] = k]
    BY <1>1, <1>2 DEF OpenPage
  <2>2. /\ Moves(w)
        /\ \A x \in Lockable : lock'[x] = w <=> lock[x] = w \/ x \in {PageLock}
    <3>1. {PageLock} \in SUBSET Lockable /\ \A x \in {PageLock} : Free(w, x)
      BY <1>1, LockNames
    <3>2. QED
      BY <1>1, <2>1, <3>1, Locking
  <2>3. /\ k.pc = GoOn(k.todo) /\ k.kind = task[w].kind /\ k.todo = task[w].todo
        /\ k.last = task[w].last /\ k.max = task[w].max /\ k.facts = task[w].facts
    BY <1>1 DEF Tasks
  <2>4. k.pc \in {"trip", "commit"} /\ (k.pc = "commit" => k.todo = {})
    BY <2>3 DEF GoOn
  <2>5. k \in Tasks /\ task'[w] = k
    BY <1>1, <2>1, <2>4 DEF Tasks
  <2>6. UNCHANGED <<trip, link, checkpoint, job, source, issued>>
    BY <1>1 DEF rows, hermes
  <2>7. Shape(w)'
    BY <1>1, <2>3, <2>4, <2>5, <2>6 DEF Knows, Shape, Applying
  <2>8. Holds(w)'
    <3>1. \A t \in Trips : lock'[LinkLock(t)] # w
      BY <1>1, <2>2, LockNames DEF Knows, Holds
    <3>2. QED
      BY <2>4, <2>5, <3>1 DEF Holds
  <2>9. Informed(w)'
    BY <1>1, <2>2, <2>3, <2>5, <2>6, LockNames DEF Knows, Informed
  <2>10. Paging(w)'
    <3>1. /\ k.last <= issued /\ k.max <= issued
          /\ \A t \in Trips : 0 < source[t] /\ source[t] <= k.last => link[t].made
          /\ k.max >= 0
          /\ \A t \in Trips : InPage(task[w], t) => t \in k.todo \/ lock[LinkLock(t)] = w
      BY <1>1, <2>3 DEF Knows, Shape, Paging
    <3>2. ASSUME NEW t \in Trips, InPage(task[w], t)' PROVE t \in k.todo \/ lock'[LinkLock(t)] = w
      <4>1. InPage(task[w], t)
        BY <2>3, <2>5, <2>6, <3>2 DEF InPage
      <4>2. QED
        BY <2>2, <3>1, <4>1, LockNames
    <3>3. lock'[PageLock] = w /\ checkpoint.max \in {-1, k.max}
      BY <1>2, <2>2, <2>3, LockNames DEF SameSnapshot
    <3>4. QED
      BY <2>5, <2>6, <3>1, <3>2, <3>3 DEF Paging, InPage
  <2>11. QED
    BY <1>1, <2>1, <2>2, <2>5, <2>7, <2>8, <2>9, <2>10, Reading DEF Knows
<1>3. CASE ~SameSnapshot(w)
  BY <1>1, <1>3, Ending DEF OpenPage
<1>4. QED
  BY <1>2, <1>3

\* The versions a reconciliation has read are versions jobs had.
LEMMA FetchSourceStep ==
  ASSUME IInv, NEW w \in Workers, FetchSource(w)
  PROVE  IInv'
<1>. DEFINE k == [Idle EXCEPT !.pc = "compare", !.kind = "repair", !.snap = job]
<1>1. /\ TypeOK /\ task \in [Workers -> Tasks] /\ job \in [Trips -> Nat]
      /\ task[w] = Idle /\ \A s \in Trips : lock[LinkLock(s)] # w
      /\ lock' = lock /\ UNCHANGED <<rows, hermes>>
  BY TaskFacts, IdleHolds DEF FetchSource
<1>2. k \in Tasks /\ task' = [task EXCEPT ![w] = k] /\ task'[w] = k
  <2>1. k \in Tasks
    BY <1>1, IdleIsTask DEF Tasks, Versions
  <2>2. QED
    BY <1>1, <2>1 DEF FetchSource, Idle
<1>3. /\ k.pc = "compare" /\ k.kind = "repair" /\ k.todo = {} /\ k.snap = job
      /\ k.facts = [s \in Trips |-> NoTrip]
  BY DEF Idle
<1>4. Shape(w)'
  BY <1>1, <1>2, <1>3 DEF Shape, hermes
<1>5. Holds(w)'
  BY <1>1, <1>2, <1>3 DEF Holds
<1>6. Informed(w)' /\ Paging(w)'
  <2>1. Informed(w)'
    BY <1>2, <1>3, NothingRead
  <2>2. QED
    BY <1>2, <1>3, <2>1 DEF Paging
<1>7. QED
  BY <1>1, <1>2, <1>4, <1>5, <1>6, Reading DEF Knows, Moves

\* So what it repairs are jobs.
LEMMA CompareRowsStep ==
  ASSUME IInv, NEW w \in Workers, CompareRows(w)
  PROVE  IInv'
<1>. DEFINE missing == {t \in Trips : task[w].snap[t] > 0 /\ ~link[t].made}
            stale == {t \in Trips : task[w].snap[t] > 0 /\ link[t].seen # task[w].snap[t]}
            k == [task[w] EXCEPT !.pc = "trip", !.todo = missing \cup stale, !.first = missing]
<1>1. /\ TypeOK /\ Knows(w) /\ task \in [Workers -> Tasks] /\ task[w] \in Tasks
      /\ job \in [Trips -> Nat] /\ task[w].snap \in [Trips -> Nat]
      /\ task[w].pc = "compare" /\ lock' = lock /\ UNCHANGED <<rows, hermes>>
  BY TaskFacts DEF CompareRows, Tasks, Versions
<1>2. \A t \in Trips : lock'[LinkLock(t)] # w
  BY <1>1 DEF Knows, Holds
<1>3. CASE missing \cup stale = {}
  <2>1. task' = [task EXCEPT ![w] = Idle] /\ task'[w] = Idle
    BY <1>1, <1>3 DEF CompareRows
  <2>2. Knows(w)'
    BY <1>2, <2>1, IdleKnows
  <2>3. QED
    BY <1>1, <2>1, <2>2, IdleIsTask, Reading DEF Moves
<1>4. CASE missing \cup stale # {}
  <2>1. k \in Tasks /\ task' = [task EXCEPT ![w] = k] /\ task'[w] = k
    <3>1. k \in Tasks
      BY <1>1 DEF Tasks
    <3>2. QED
      BY <1>1, <1>4, <3>1 DEF CompareRows
  <2>2. /\ k.pc = "trip" /\ k.kind = task[w].kind /\ k.todo = missing \cup stale
        /\ k.facts = task[w].facts
    BY <1>1 DEF Tasks
  <2>3. UNCHANGED <<trip, link, job>>
    BY <1>1 DEF rows, hermes
  <2>4. Shape(w)'
    <3>1. task[w].kind = "repair" /\ \A t \in Trips : task[w].snap[t] <= job[t]
      BY <1>1 DEF Knows, Shape
    <3>2. \A t \in k.todo : job[t] > 0
      BY <1>1, <2>2, <3>1
    <3>3. QED
      BY <2>1, <2>2, <2>3, <3>1, <3>2 DEF Shape, Applying
  <2>5. Holds(w)'
    BY <1>2, <2>1, <2>2 DEF Holds
  <2>6. Informed(w)'
    BY <1>1, <2>1, <2>2, <2>3 DEF Knows, Informed
  <2>7. Paging(w)'
    BY <1>1, <2>1, <2>2 DEF Knows, Shape, Paging
  <2>8. QED
    BY <1>1, <2>1, <2>4, <2>5, <2>6, <2>7, Reading DEF Knows, Moves
<1>5. QED
  BY <1>3, <1>4

\* close_account has locked a user without active trips ...
LEMMA CloseUserStep ==
  ASSUME IInv, NEW w \in Workers, NEW u \in Users, CloseUser(w, u)
  PROVE  IInv'
<1>. DEFINE k == [Idle EXCEPT !.pc = "close", !.kind = "close", !.about = u]
<1>1. /\ TypeOK /\ task \in [Workers -> Tasks]
      /\ task[w] = Idle /\ \A s \in Trips : lock[LinkLock(s)] # w
      /\ user[u] /\ Free(w, UserLock(u)) /\ \A t \in TripsOf(u) : trip[t].status # "ACTIVE"
      /\ lock' = Holding(w, {UserLock(u)}) /\ UNCHANGED <<rows, hermes>>
  BY TaskFacts, IdleHolds DEF CloseUser, Unreferred
<1>2. /\ Moves(w)
      /\ \A x \in Lockable : lock'[x] = w <=> lock[x] = w \/ x \in {UserLock(u)}
  <2>1. {UserLock(u)} \in SUBSET Lockable /\ \A x \in {UserLock(u)} : Free(w, x)
    BY <1>1, LockNames
  <2>2. QED
    BY <1>1, <2>1, Locking
<1>3. k \in Tasks /\ task' = [task EXCEPT ![w] = k] /\ task'[w] = k
  <2>1. k \in Tasks
    BY IdleIsTask DEF Tasks
  <2>2. QED
    BY <1>1, <2>1 DEF CloseUser, Idle
<1>4. /\ k.pc = "close" /\ k.kind = "close" /\ k.about = u /\ k.todo = {}
      /\ k.facts = [s \in Trips |-> NoTrip]
  BY DEF Idle
<1>5. Shape(w)'
  BY <1>3, <1>4 DEF Shape
<1>6. Holds(w)'
  <2>1. lock'[UserLock(u)] = w /\ \A s \in Trips : lock'[LinkLock(s)] # w
    BY <1>1, <1>2, LockNames
  <2>2. trip' = trip /\ user' = user
    BY <1>1 DEF rows
  <2>3. user'[u] /\ \A t \in Trips : trip'[t].user = u => trip'[t].status # "ACTIVE"
    BY <1>1, <2>2 DEF TripsOf
  <2>4. task'[w].pc = "close" /\ task'[w].about = u
    BY <1>3, <1>4
  <2>5. QED
    BY <2>1, <2>3, <2>4 DEF Holds, TripsOf
<1>7. Informed(w)' /\ Paging(w)'
  <2>1. Informed(w)'
    BY <1>3, <1>4, NothingRead
  <2>2. QED
    BY <1>3, <1>4, <2>1 DEF Paging
<1>8. QED
  BY <1>1, <1>2, <1>3, <1>5, <1>6, <1>7, Reading DEF Knows

\* ... and then all trips of the user.
LEMMA CloseTripsStep ==
  ASSUME IInv, NEW w \in Workers, CloseTrips(w)
  PROVE  IInv'
<1>. DEFINE u == task[w].about
            own == {TripLock(t) : t \in TripsOf(u)}
            k == [task[w] EXCEPT !.pc = "erase"]
<1>1. /\ TypeOK /\ Knows(w) /\ task \in [Workers -> Tasks] /\ task[w] \in Tasks
      /\ task[w].pc = "close" /\ \A x \in own : Free(w, x)
      /\ lock' = Holding(w, own) /\ UNCHANGED <<rows, hermes>>
  BY TaskFacts DEF CloseTrips
<1>2. /\ Moves(w)
      /\ \A x \in Lockable : lock'[x] = w <=> lock[x] = w \/ x \in own
  <2>1. own \in SUBSET Lockable
    BY LockNames DEF TripsOf
  <2>2. QED
    BY <1>1, <2>1, Locking
<1>3. k \in Tasks /\ task' = [task EXCEPT ![w] = k] /\ task'[w] = k
  BY <1>1 DEF CloseTrips, Tasks
<1>4. /\ k.pc = "erase" /\ k.kind = task[w].kind /\ k.about = u /\ k.todo = task[w].todo
      /\ k.facts = task[w].facts
  BY <1>1 DEF Tasks
<1>5. UNCHANGED <<user, trip, job>>
  BY <1>1 DEF rows, hermes
<1>6. u \in Users /\ lock[UserLock(u)] = w /\ user[u]
      /\ \A t \in TripsOf(u) : trip[t].status # "ACTIVE"
  BY <1>1 DEF Knows, Shape, Holds
<1>7. Shape(w)'
  BY <1>1, <1>3, <1>4, <1>5, <1>6 DEF Knows, Shape
<1>8. Holds(w)'
  <2>1. \A t \in Trips : lock[LinkLock(t)] # w
    BY <1>1 DEF Knows, Holds
  <2>2. \A t \in Trips : lock'[LinkLock(t)] # w
    BY <1>2, <2>1, LockNames DEF TripsOf
  <2>3. lock'[UserLock(u)] = w
    BY <1>2, <1>6, LockNames
  <2>4. \A t \in TripsOf(u) : lock'[TripLock(t)] = w
    BY <1>2, LockNames DEF TripsOf
  <2>5. PICK v \in Users : v = u
    BY <1>6
  <2>6. TripsOf(v)' = TripsOf(v)
    BY <1>5 DEF TripsOf
  <2>7. task'[w].pc = "erase" /\ task'[w].about = v
    BY <1>3, <1>4, <2>5
  <2>8. lock'[UserLock(v)] = w /\ user'[v]
    BY <1>5, <1>6, <2>3, <2>5
  <2>9. \A t \in TripsOf(v)' : trip'[t].status # "ACTIVE" /\ lock'[TripLock(t)] = w
    BY <1>5, <1>6, <2>4, <2>5, <2>6
  <2>10. QED
    BY <2>2, <2>7, <2>8, <2>9 DEF Holds, TripLock
<1>9. Informed(w)'
  BY <1>1, <1>2, <1>3, <1>4, <1>5, LockNames DEF Knows, Informed
<1>10. Paging(w)'
  BY <1>1, <1>3, <1>4 DEF Knows, Shape, Paging
<1>11. QED
  BY <1>1, <1>2, <1>3, <1>7, <1>8, <1>9, <1>10, Reading DEF Knows

-----------------------------------------------------------------------------
(* The steps that write rows.                                              *)

\* A transaction that ends with its writes has only the rows to keep right.
LEMMA Writing ==
  ASSUME IInv, NEW v \in Workers, Finish(v), KeepsRows(v), UNCHANGED hermes, Fit',
         user' \in [Users -> BOOLEAN], trip' \in [Trips -> TripRows],
         link' \in [Trips -> LinkRows], applied' \in [Trips -> Nat],
         checkpoint' \in Checkpoints
  PROVE  IInv'
<1>1. TypeOK
  BY DEF IInv
<1>2. /\ Moves(v) /\ task' = [task EXCEPT ![v] = Idle] /\ task'[v] = Idle
      /\ \A x \in Lockable : lock'[x] # v
  BY <1>1, Ended
<1>3. /\ lock' \in [Lockable -> Workers \cup {Nobody}]
      /\ \A w \in Workers \ {v}, x \in Lockable : lock'[x] = w <=> lock[x] = w
  BY <1>1, <1>2, LocksKept
<1>4. TypeOK'
  BY <1>1, <1>2, <1>3, IdleIsTask DEF TypeOK, hermes, Versions
<1>5. Keeps(v)
  <2>1. ASSUME NEW w \in Workers \ {v}
        PROVE  task'[w] = task[w] /\ \A x \in Lockable : lock'[x] = w <=> lock[x] = w
    BY <1>1, <1>2, <1>3 DEF TypeOK
  <2>2. QED
    BY <2>1 DEF Keeps
<1>6. Knows(v)'
  BY <1>2, IdleKnows, LockNames
<1>7. QED
  BY <1>4, <1>5, <1>6, Together

\* The checkpoint fits when no row of a job is lost.
LEMMA CheckpointKept ==
  ASSUME CheckpointFits, UNCHANGED <<checkpoint, source, issued>>,
         \A t \in Trips : link[t].made => link'[t].made
  PROVE  CheckpointFits'
BY DEF CheckpointFits, BackfillCovers

\* The acceptance of a trip that its worker has locked: the trip is bound, as it
\* was or now, and its row, if it was there to be locked, is linked.
LEMMA AcceptCommitRows ==
  ASSUME IInv, NEW w \in Workers, AcceptCommit(w), NEW t, t = task[w].about
  PROVE  LET p == Bound(trip[t])
             r == link'[t]
         IN  /\ t \in Trips /\ lock[TripLock(t)] = w
             /\ trip' = [trip EXCEPT ![t] = p]
             /\ p \in TripRows /\ p.status = "ACTIVE" /\ p.bound /\ ~p.erased
             /\ p.version = 2 /\ p.user = trip[t].user /\ p.user \in Users
             /\ link' = [link EXCEPT ![t] = r]
             /\ r \in LinkRows /\ (link[t].made => r.made)
             /\ \/ r = link[t]
                \/ /\ r.made /\ r.state = "linked" /\ ~r.erased
                   /\ r.version = p.version /\ r.trip = t /\ r.user = p.user
<1>. DEFINE p == Bound(trip[t])
<1>1. /\ trip \in [Trips -> TripRows] /\ link \in [Trips -> LinkRows]
      /\ Knows(w) /\ task[w].pc = "accept" /\ Nobody \notin Users
  BY TaskFacts, LinksAssumption DEF AcceptCommit
<1>2. t \in Trips /\ lock[TripLock(t)] = w /\ trip[t].status = "ACTIVE"
  BY <1>1 DEF Knows, Shape, Holds
<1>3. TripFits(t) /\ RowFits(link[t], t, trip[t])
  BY <1>2 DEF IInv, Fit, LinkFits
<1>4. /\ trip[t] \in TripRows /\ ~trip[t].erased /\ trip[t].user \in Users
      /\ trip[t].version = 1 + (IF trip[t].bound THEN 1 ELSE 0)
  <2>1. trip[t] \in TripRows
    BY <1>1, <1>2
  <2>2. ~trip[t].erased /\ trip[t].user # Nobody
    BY <1>2, <1>3 DEF TripFits
  <2>3. QED
    BY <1>2, <1>3, <2>1, <2>2 DEF TripFits, TripRows
<1>5. /\ p \in TripRows /\ p.status = "ACTIVE" /\ p.bound /\ ~p.erased
      /\ p.version = 2 /\ p.user = trip[t].user /\ p.user \in Users
  BY <1>2, <1>4, BoundRow
<1>6. link[t] \in LinkRows /\ ~link[t].erased /\ link[t].version \in 0..2
  <2>1. link[t] \in LinkRows /\ link[t].version <= trip[t].version /\ ~link[t].erased
    BY <1>1, <1>2, <1>3, <1>4 DEF RowFits
  <2>2. QED
    BY <1>4, <2>1 DEF LinkRows
<1>7. trip' = [trip EXCEPT ![t] = p]
  BY DEF AcceptCommit
<1>8. CASE lock[LinkLock(t)] = w
  <2>1. link' = [link EXCEPT ![t] = Accepted(link[t], t, p)]
    BY <1>8 DEF AcceptCommit
  <2>2. link[t].made
    BY <1>1, <1>2, <1>8 DEF Knows, Holds
  <2>. DEFINE q == Linked(link[t], t, p.user)
  <2>3. /\ q \in LinkRows /\ q.version = link[t].version /\ q.made = link[t].made
        /\ q.state = "linked" /\ q.erased = link[t].erased /\ q.trip = t /\ q.user = p.user
    BY <1>2, <1>5, <1>6, LinkedRow
  <2>4. Accepted(link[t], t, p) = [q EXCEPT !.version = 2]
    <3>1. Larger(q.version, p.version) = 2
      BY <1>5, <1>6, <2>3 DEF Larger
    <3>2. Accepted(link[t], t, p) = [q EXCEPT !.version = Larger(q.version, p.version)]
      BY <1>1, <1>5, <1>6 DEF Accepted
    <3>3. QED
      BY <3>1, <3>2
  <2>5. 2 \in 0..3
    OBVIOUS
  <2>6. /\ link'[t] = [q EXCEPT !.version = 2] /\ link' = [link EXCEPT ![t] = link'[t]]
    BY <1>1, <1>2, <2>1, <2>4
  <2>7. /\ link'[t] \in LinkRows /\ link'[t].made /\ link'[t].state = "linked"
        /\ ~link'[t].erased /\ link'[t].version = 2 /\ link'[t].trip = t
        /\ link'[t].user = p.user
    <3>. DEFINE c == [q EXCEPT !.version = 2]
    <3>. HIDE DEF q
    <3>1. /\ c \in LinkRows /\ c.version = 2 /\ c.made = q.made /\ c.state = q.state
          /\ c.erased = q.erased /\ c.trip = q.trip /\ c.user = q.user
      <4>1. q \in LinkRows
        BY <2>3
      <4>2. QED
        BY <4>1, <2>5, VersionedRow
    <3>. HIDE DEF c
    <3>2. link'[t] = c
      BY <2>6 DEF c
    <3>3. QED
      BY <1>6, <2>2, <2>3, <3>1, <3>2
  <2>8. QED
    BY <1>2, <1>5, <1>7, <2>2, <2>6, <2>7
<1>9. CASE lock[LinkLock(t)] # w
  <2>1. link' = link
    BY <1>9 DEF AcceptCommit
  <2>2. QED
    BY <1>1, <1>2, <1>5, <1>6, <1>7, <2>1
<1>10. QED
  BY <1>8, <1>9

\* The acceptance keeps the invariant: the row, if any, agrees with the trip.
LEMMA AcceptCommitStep ==
  ASSUME IInv, NEW w \in Workers, AcceptCommit(w)
  PROVE  IInv'
<1>1. PICK t : t = task[w].about
  OBVIOUS
<1>2. PICK p : p = Bound(trip[t])
  OBVIOUS
<1>3. /\ t \in Trips /\ lock[TripLock(t)] = w /\ trip' = [trip EXCEPT ![t] = p]
      /\ p \in TripRows /\ p.status = "ACTIVE" /\ p.bound /\ ~p.erased
      /\ p.version = 2 /\ p.user = trip[t].user /\ p.user \in Users
      /\ link' = [link EXCEPT ![t] = link'[t]]
      /\ link'[t] \in LinkRows /\ (link[t].made => link'[t].made)
      /\ \/ link'[t] = link[t]
         \/ /\ link'[t].made /\ link'[t].state = "linked" /\ ~link'[t].erased
            /\ link'[t].version = p.version /\ link'[t].trip = t /\ link'[t].user = p.user
  BY <1>1, <1>2, AcceptCommitRows
<1>4. /\ trip \in [Trips -> TripRows] /\ link \in [Trips -> LinkRows]
      /\ user \in [Users -> BOOLEAN] /\ applied \in [Trips -> Nat] /\ checkpoint \in Checkpoints
      /\ job \in [Trips -> Nat] /\ source \in [Trips -> Nat] /\ issued \in Nat
      /\ Knows(w) /\ Nobody \notin Users
      /\ Finish(w) /\ UNCHANGED <<user, applied, checkpoint>> /\ UNCHANGED hermes
  BY TaskFacts, LinksAssumption DEF AcceptCommit
<1>5. trip[t].status = "ACTIVE" /\ job[t] > 0
  BY <1>1, <1>4 DEF AcceptCommit, Knows, Holds
<1>6. /\ trip' \in [Trips -> TripRows] /\ trip'[t] = p /\ \A s \in Trips \ {t} : trip'[s] = trip[s]
      /\ link' \in [Trips -> LinkRows] /\ \A s \in Trips \ {t} : link'[s] = link[s]
  <2>1. /\ trip' \in [Trips -> TripRows] /\ trip'[t] = p
        /\ \A s \in Trips \ {t} : trip'[s] = trip[s]
    BY <1>3, <1>4
  <2>2. ASSUME NEW r \in LinkRows, link' = [link EXCEPT ![t] = r]
        PROVE  link' \in [Trips -> LinkRows] /\ \A s \in Trips \ {t} : link'[s] = link[s]
    BY <1>3, <1>4, <2>2
  <2>3. QED
    BY <1>3, <2>1, <2>2
<1>7. KeepsRows(w)
  <2>1. ASSUME NEW v \in Workers \ {w}, NEW s \in Trips, lock[TripLock(s)] = v
        PROVE  trip'[s] = trip[s]
    BY <1>3, <1>6, <2>1
  <2>2. \A s \in Trips : trip'[s].user = trip[s].user /\ trip'[s].status = trip[s].status
    BY <1>3, <1>5, <1>6
  <2>3. \A s \in Trips : link[s].made => link'[s].made
    BY <1>3, <1>6
  <2>4. QED
    BY <1>4, <2>1, <2>2, <2>3 DEF KeepsRows, hermes
<1>8. Fit'
  <2>1. Fit
    BY DEF IInv
  <2>2. TripFits(t)'
    <3>1. TripFits(t)
      BY <1>3, <2>1 DEF Fit
    <3>2. /\ trip'[t] = p /\ job'[t] = job[t] /\ source'[t] = source[t] /\ issued' = issued
          /\ user'[p.user] = user[p.user] /\ p.status # "ABSENT" /\ p.user # Nobody
      BY <1>3, <1>4, <1>6 DEF hermes
    <3>3. user[p.user]
      BY <1>3, <1>4, <3>1 DEF TripFits
    <3>4. p.version = 1 + (IF p.bound THEN 1 ELSE 0) + (IF p.erased THEN 1 ELSE 0)
      BY <1>3
    <3>5. source'[t] > 0 <=> job'[t] > 0
      BY <3>1, <3>2 DEF TripFits
    <3>6. source'[t] <= issued'
      BY <3>1, <3>2 DEF TripFits
    <3>7. QED
      BY <1>3, <3>2, <3>3, <3>4, <3>5, <3>6 DEF TripFits
  <2>3. LinkFits(t)'
    <3>1. TripFits(t) /\ RowFits(link[t], t, trip[t])
      BY <1>3, <2>1 DEF Fit, LinkFits
    <3>2. trip[t].version = 1 + (IF trip[t].bound THEN 1 ELSE 0) /\ ~trip[t].erased
      BY <1>5, <3>1 DEF TripFits
    <3>3. job'[t] > 0 /\ trip'[t] = p
      BY <1>4, <1>5, <1>6 DEF hermes
    <3>4. CASE link'[t] = link[t]
      <4>1. RowFits(link[t], t, p)
        <5>1. link[t].version \in Int /\ link[t].version <= trip[t].version
          BY <1>3, <1>4, <3>1 DEF RowFits, LinkRows
        <5>2. link[t].version <= p.version
          BY <1>3, <3>2, <5>1
        <5>3. ~link[t].erased /\ link[t].state # "de-identified"
          BY <3>1, <3>2 DEF RowFits
        <5>4. link[t].state \in {"unlinked", "linked", "de-identified"}
          BY <1>3, <1>4 DEF LinkRows
        <5>5. link[t].state = "linked" => link[t].version = p.version
          BY <1>3, <3>1, <3>2 DEF RowFits
        <5>6. QED
          BY <1>3, <3>1, <5>2, <5>3, <5>4, <5>5 DEF RowFits
      <4>2. QED
        BY <3>3, <3>4, <4>1 DEF LinkFits
    <3>5. CASE link'[t] # link[t]
      <4>1. /\ link'[t].made /\ link'[t].state = "linked" /\ ~link'[t].erased
            /\ link'[t].version = p.version /\ link'[t].trip = t /\ link'[t].user = p.user
        BY <1>3, <3>5
      <4>2. RowFits(link'[t], t, p)
        BY <1>3, <4>1 DEF RowFits
      <4>3. QED
        BY <3>3, <4>2 DEF LinkFits
    <3>6. QED
      BY <3>4, <3>5
  <2>4. ASSUME NEW s \in Trips \ {t} PROVE TripFits(s)' /\ LinkFits(s)'
    BY <1>3, <1>4, <1>6, <2>1 DEF Fit, TripFits, LinkFits, hermes
  <2>5. CheckpointFits'
    BY <1>3, <1>4, <1>6, <2>1, CheckpointKept DEF Fit, hermes
  <2>6. QED
    BY <1>3, <2>2, <2>3, <2>4, <2>5 DEF Fit
<1>9. QED
  BY <1>4, <1>6, <1>7, <1>8, Writing

\* A snapshot applied to row r of the job of trip row p, by a transaction that
\* read f of the trip, leaves a row that fits.
LEMMA SnapshottedFits ==
  ASSUME NEW t \in Trips, NEW p \in TripRows, NEW f \in TripRows, NEW r \in LinkRows,
         NEW v \in Nat, RowFits(r, t, p), p.version >= 1, p.erased <=> p.user = Nobody,
         IF f.bound THEN f = p ELSE f = NoTrip
  PROVE  LET q == Snapshotted(r, t, f, v)
         IN  q \in LinkRows /\ q.made /\ RowFits(q, t, p) /\ (r.erased => q.erased)
<1>. DEFINE n == Larger(r.version, Larger(f.version, 1))
            m == Larger(r.seen, v)
            new == Renewed(r, m, n)
            q == Snapshotted(r, t, f, v)
<1>1. /\ r.version \in 0..3 /\ r.seen \in Nat /\ f.version \in 0..3 /\ p.version \in 1..3
      /\ r.version <= p.version /\ p.user \in Users \cup {Nobody} /\ Nobody \notin Users
  BY LinksAssumption DEF LinkRows, TripRows, RowFits, Versions
<1>2. m \in Nat /\ n \in 0..3
  BY <1>1 DEF Larger
<1>3. NoTrip.version = 0 /\ ~NoTrip.erased /\ NoTrip.user = Nobody /\ ~NoTrip.bound
  BY DEF NoTrip
<1>4. f.bound => n = p.version
  BY <1>1 DEF Larger
<1>5. ~f.bound => n <= p.version
  BY <1>1, <1>3 DEF Larger
<1>. HIDE DEF n, m
<1>6. /\ new \in LinkRows /\ new.version = n /\ new.made
      /\ new.state = r.state /\ new.erased = r.erased /\ new.trip = r.trip /\ new.user = r.user
  BY <1>2, RenewedRow
<1>. HIDE DEF new
<1>7. CASE r.erased
  <2>. DEFINE d == Deidentified(new)
              c == [d EXCEPT !.version = r.version]
  <2>1. q = c
    BY <1>7 DEF Snapshotted, Renewed, new, n, m
  <2>2. /\ d \in LinkRows /\ d.made /\ d.state = "de-identified" /\ d.erased /\ d.user = Nobody
    BY <1>6, DeidentifiedRow
  <2>. HIDE DEF d
  <2>3. /\ c \in LinkRows /\ c.version = r.version /\ c.made = d.made
        /\ c.state = d.state /\ c.erased = d.erased /\ c.user = d.user
    BY <1>1, <2>2, VersionedRow
  <2>4. p.erased /\ r.version = p.version
    BY <1>7 DEF RowFits
  <2>. HIDE DEF c, q
  <2>5. c \in LinkRows /\ c.made /\ RowFits(c, t, p) /\ (r.erased => c.erased)
    BY <1>1, <2>2, <2>3, <2>4 DEF RowFits
  <2>6. QED
    BY <2>1, <2>5 DEF q
<1>8. CASE ~r.erased /\ f.erased
  <2>. DEFINE c == Deidentified(new)
  <2>1. q = c
    BY <1>8 DEF Snapshotted, Renewed, new, n, m
  <2>2. /\ c \in LinkRows /\ c.version = n /\ c.made /\ c.state = "de-identified"
        /\ c.erased /\ c.user = Nobody
    BY <1>6, DeidentifiedRow
  <2>3. f.bound /\ p.erased /\ n = p.version
    BY <1>3, <1>4, <1>8
  <2>. HIDE DEF c, q
  <2>4. c \in LinkRows /\ c.made /\ RowFits(c, t, p) /\ (r.erased => c.erased)
    BY <1>1, <2>2, <2>3 DEF RowFits
  <2>5. QED
    BY <2>1, <2>4 DEF q
<1>9. CASE ~r.erased /\ ~f.erased /\ f.user = Nobody
  <2>. DEFINE x == IF f.bound THEN t ELSE Nobody
              c == [Unlinked(new) EXCEPT !.trip = x]
  <2>1. q = c
    BY <1>9 DEF Snapshotted, Renewed, new, n, m
  <2>2. /\ c \in LinkRows /\ c.version = n /\ c.made /\ c.state = "unlinked"
        /\ c.erased = r.erased /\ c.user = Nobody
    <3>1. x \in Trips \cup {Nobody}
      OBVIOUS
    <3>. HIDE DEF x
    <3>2. QED
      BY <1>6, <3>1, UnlinkedRow
  <2>3. n <= p.version
    BY <1>1, <1>4, <1>5
  <2>. HIDE DEF c, q
  <2>4. c \in LinkRows /\ c.made /\ RowFits(c, t, p) /\ (r.erased => c.erased)
    BY <1>9, <2>2, <2>3 DEF RowFits
  <2>5. QED
    BY <2>1, <2>4 DEF q
<1>10. CASE ~r.erased /\ ~f.erased /\ f.user # Nobody
  <2>. DEFINE c == Linked(new, t, f.user)
  <2>1. q = c
    BY <1>10 DEF Snapshotted, Renewed, new, n, m
  <2>2. f.bound /\ f = p /\ f.user \in Users
    BY <1>1, <1>3, <1>10
  <2>3. /\ c \in LinkRows /\ c.version = n /\ c.made /\ c.state = "linked"
        /\ c.erased = r.erased /\ c.trip = t /\ c.user = f.user
    BY <1>6, <2>2, LinkedRow
  <2>4. n = p.version
    BY <1>4, <2>2
  <2>. HIDE DEF c, q
  <2>5. c \in LinkRows /\ c.made /\ RowFits(c, t, p) /\ (r.erased => c.erased)
    BY <1>1, <1>10, <2>2, <2>3, <2>4 DEF RowFits
  <2>6. QED
    BY <2>1, <2>5 DEF q
<1>11. QED
  BY <1>7, <1>8, <1>9, <1>10

\* The checkpoint after a page whose rows are all there.
LEMMA PageCovers ==
  ASSUME IInv, NEW w \in Workers, task[w].pc = "commit", task[w].kind = "page",
         checkpoint' = PageDone(w), UNCHANGED hermes,
         \A t \in Trips : link[t].made \/ lock[LinkLock(t)] = w => link'[t].made
  PROVE  checkpoint' \in Checkpoints /\ CheckpointFits'
<1>. DEFINE last == task[w].last
            max == task[w].max
            more == last + PageSize < max
<1>1. /\ last \in Nat /\ max \in Nat /\ PageSize \in Nat \ {0} /\ issued \in Nat
      /\ source \in [Trips -> Nat] /\ checkpoint \in Checkpoints
      /\ last <= issued /\ max <= issued /\ checkpoint.max \in {-1, max}
      /\ \A t \in Trips : 0 < source[t] /\ source[t] <= last => link[t].made
      /\ \A t \in Trips : InPage(task[w], t) => lock[LinkLock(t)] = w
  <2>1. Paging(w) /\ task[w].todo = {}
    BY TaskFacts DEF Knows, Shape
  <2>2. /\ last <= issued /\ max <= issued /\ max >= 0 /\ checkpoint.max \in {-1, max}
        /\ \A t \in Trips : 0 < source[t] /\ source[t] <= last => link[t].made
        /\ \A t \in Trips : InPage(task[w], t) => lock[LinkLock(t)] = w
    BY <2>1 DEF Paging
  <2>3. last \in Nat /\ max \in Nat \cup {-1} /\ issued \in Nat
        /\ source \in [Trips -> Nat] /\ checkpoint \in Checkpoints
    BY TaskFacts DEF Tasks
  <2>4. QED
    BY <2>2, <2>3, LinksAssumption
<1>2. CheckpointFits
  BY DEF IInv, Fit
<1>3. /\ checkpoint' = [last |-> IF more THEN last + PageSize ELSE max, max |-> max,
                        done |-> checkpoint.done \/ ~more]
      /\ UNCHANGED <<source, issued>>
  BY DEF PageDone, hermes
<1>4. /\ checkpoint'.last = IF more THEN last + PageSize ELSE max
      /\ checkpoint'.max = max /\ checkpoint'.done = (checkpoint.done \/ ~more)
  BY <1>3
<1>5. checkpoint' \in Checkpoints
  <2>1. (IF more THEN last + PageSize ELSE max) \in Nat
    BY <1>1
  <2>2. (checkpoint.done \/ ~more) \in BOOLEAN
    OBVIOUS
  <2>3. QED
    BY <1>1, <1>3, <2>1, <2>2 DEF Checkpoints
<1>6. checkpoint.done => max = checkpoint.max
  BY <1>1, <1>2 DEF CheckpointFits
<1>7. ASSUME NEW t \in Trips, 0 < source[t],
             source[t] <= IF checkpoint'.done THEN checkpoint'.max ELSE checkpoint'.last
      PROVE  link'[t].made
  <2>1. source[t] \in Nat
    BY <1>1
  <2>2. CASE checkpoint.done
    <3>1. source[t] <= checkpoint.max
      BY <1>4, <1>6, <1>7, <2>2
    <3>2. link[t].made
      BY <1>2, <1>7, <2>2, <3>1 DEF CheckpointFits, BackfillCovers
    <3>3. QED
      BY <3>2
  <2>3. CASE ~checkpoint.done
    <3>1. source[t] <= max /\ source[t] <= last + PageSize
      <4>1. CASE more
        <5>1. ~checkpoint'.done /\ checkpoint'.last = last + PageSize
          BY <1>4, <2>3, <4>1
        <5>2. QED
          BY <1>1, <1>7, <2>1, <4>1, <5>1
      <4>2. CASE ~more
        <5>1. checkpoint'.done /\ checkpoint'.max = max
          BY <1>4, <4>2
        <5>2. QED
          BY <1>1, <1>7, <2>1, <4>2, <5>1
      <4>3. QED
        BY <4>1, <4>2
    <3>2. CASE source[t] <= last
      BY <1>1, <1>7, <3>2
    <3>3. CASE last < source[t]
      BY <1>1, <3>1, <3>3 DEF InPage
    <3>4. QED
      BY <1>1, <2>1, <3>2, <3>3
  <2>4. QED
    BY <2>2, <2>3
<1>8. /\ checkpoint'.max >= 0 /\ checkpoint'.last <= issued /\ checkpoint'.max <= issued
  BY <1>1, <1>4
<1>9. QED
  BY <1>3, <1>5, <1>7, <1>8 DEF CheckpointFits, BackfillCovers

\* So does the end of a transaction that applies snapshots.
LEMMA ApplyCommitStep ==
  ASSUME IInv, NEW w \in Workers, ApplyCommit(w)
  PROVE  IInv'
<1>. DEFINE now == {t \in Trips : lock[LinkLock(t)] = w}
<1>1. /\ trip \in [Trips -> TripRows] /\ link \in [Trips -> LinkRows]
      /\ user \in [Users -> BOOLEAN] /\ applied \in [Trips -> Nat] /\ checkpoint \in Checkpoints
      /\ job \in [Trips -> Nat] /\ source \in [Trips -> Nat] /\ issued \in Nat
      /\ task[w].facts \in [Trips -> TripRows] /\ task[w].snap \in [Trips -> Nat]
      /\ Knows(w) /\ task[w].pc = "commit"
      /\ Finish(w) /\ UNCHANGED <<user, trip>> /\ UNCHANGED hermes
  BY TaskFacts DEF ApplyCommit, Tasks, Versions
<1>2. Fit
  BY DEF IInv
<1>3. ASSUME NEW t \in Trips
      PROVE  /\ link'[t] \in LinkRows /\ LinkFits(t)'
             /\ t \in now \/ link[t].made => link'[t].made
  <2>1. RowFits(link[t], t, trip[t]) /\ (link[t].made => job[t] > 0) /\ TripFits(t)
    BY <1>2 DEF Fit, LinkFits
  <2>2. trip'[t] = trip[t] /\ job'[t] = job[t]
    BY <1>1 DEF hermes
  <2>3. CASE t \in now
    <3>. DEFINE f == task[w].facts[t]
                q == Snapshotted(link[t], t, f, task[w].snap[t])
    <3>1. job[t] > 0
      BY <1>1, <2>3 DEF Knows, Holds
    <3>2. trip[t].status # "ABSENT"
      BY <1>1, <2>1, <3>1 DEF TripFits
    <3>3. trip[t].version >= 1 /\ (trip[t].erased <=> trip[t].user = Nobody)
      BY <2>1, <3>2 DEF TripFits
    <3>4. IF f.bound THEN f = trip[t] ELSE f = NoTrip
      BY <1>1 DEF Knows, Informed
    <3>5. f \in TripRows /\ trip[t] \in TripRows /\ link[t] \in LinkRows /\ task[w].snap[t] \in Nat
      BY <1>1
    <3>6. q \in LinkRows /\ q.made /\ RowFits(q, t, trip[t])
      BY <2>1, <3>3, <3>4, <3>5, SnapshottedFits
    <3>7. link'[t] = q
      BY <2>3 DEF ApplyCommit
    <3>. HIDE DEF q
    <3>8. QED
      BY <2>2, <3>1, <3>6, <3>7 DEF LinkFits
  <2>4. CASE t \notin now
    <3>1. link'[t] = link[t]
      BY <2>4 DEF ApplyCommit
    <3>2. QED
      BY <1>1, <2>1, <2>2, <2>4, <3>1 DEF LinkFits
  <2>5. QED
    BY <2>3, <2>4
<1>4. link' \in [Trips -> LinkRows]
  <2>1. link' = [t \in Trips |-> link'[t]]
    BY DEF ApplyCommit
  <2>2. QED
    BY <1>3, <2>1
<1>5. applied' \in [Trips -> Nat]
  BY <1>1 DEF ApplyCommit
<1>6. checkpoint' \in Checkpoints /\ CheckpointFits'
  <2>1. CASE task[w].kind = "page"
    <3>1. checkpoint' = PageDone(w)
      BY <2>1 DEF ApplyCommit
    <3>2. \A t \in Trips : link[t].made \/ lock[LinkLock(t)] = w => link'[t].made
      BY <1>3
    <3>3. QED
      BY <1>1, <2>1, <3>1, <3>2, PageCovers
  <2>2. CASE task[w].kind # "page"
    <3>1. checkpoint' = checkpoint
      BY <2>2 DEF ApplyCommit
    <3>2. CheckpointFits
      BY <1>2 DEF Fit
    <3>3. QED
      BY <1>1, <1>3, <3>1, <3>2, CheckpointKept DEF hermes
  <2>3. QED
    BY <2>1, <2>2
<1>7. KeepsRows(w)
  <2>1. ASSUME NEW v \in Workers \ {w}, lock[PageLock] = v
        PROVE  checkpoint' = checkpoint
    <3>1. task[w].kind # "page"
      BY <1>1, <2>1 DEF Knows, Paging
    <3>2. QED
      BY <3>1 DEF ApplyCommit
  <2>2. QED
    BY <1>1, <1>3, <2>1 DEF KeepsRows, hermes
<1>8. Fit'
  <2>1. ASSUME NEW t \in Trips PROVE TripFits(t)'
    BY <1>1, <1>2 DEF Fit, TripFits, hermes
  <2>2. QED
    BY <1>3, <1>6, <2>1 DEF Fit
<1>9. QED
  BY <1>1, <1>4, <1>5, <1>6, <1>7, <1>8, Writing

\* The trips of an account that is erased, and the rows of their jobs: a trip is
\* erased with the user, and its row is de-identified if it was bound and the
\* row was there; any other row says nothing of the user.
LEMMA ErasedRows ==
  ASSUME NEW t \in Trips, NEW p \in TripRows, NEW r \in LinkRows, NEW q \in TripRows,
         RowFits(r, t, p), ~p.erased, p.version <= 2,
         q.status = p.status, q.bound = p.bound, q.user = Nobody,
         q.version = p.version + 1, q.erased
  PROVE  /\ LET c == [Deidentified(r) EXCEPT !.version = Larger(@, q.version)]
            IN  c \in LinkRows /\ c.made = r.made /\ (r.made => RowFits(c, t, q))
         /\ ~(p.bound /\ r.made) => RowFits(r, t, q)
<1>1. /\ r.version \in 0..3 /\ p.version \in 0..2 /\ r.version <= p.version /\ q.version \in 1..3
      /\ r.state \in {"unlinked", "linked", "de-identified"}
  BY DEF LinkRows, TripRows, RowFits
<1>2. Larger(r.version, q.version) = q.version
  BY <1>1 DEF Larger
<1>. DEFINE d == Deidentified(r)
            c == [d EXCEPT !.version = q.version]
<1>3. /\ d \in LinkRows /\ d.version = r.version /\ d.made = r.made
      /\ d.state = "de-identified" /\ d.erased /\ d.user = Nobody
  BY DeidentifiedRow
<1>4. [Deidentified(r) EXCEPT !.version = Larger(@, q.version)] = c
  BY <1>2, <1>3
<1>. HIDE DEF d
<1>5. /\ c \in LinkRows /\ c.version = q.version /\ c.made = d.made
      /\ c.state = d.state /\ c.erased = d.erased /\ c.user = d.user
  <2>1. q.version \in 0..3
    BY <1>1
  <2>2. QED
    BY <1>3, <2>1, VersionedRow
<1>. HIDE DEF c
<1>6. r.made => RowFits(c, t, q)
  BY <1>1, <1>3, <1>5 DEF RowFits
<1>7. ~(p.bound /\ r.made) => RowFits(r, t, q)
  <2>1. ASSUME ~p.bound \/ ~r.made PROVE r.state = "unlinked" /\ ~r.erased /\ r.user = Nobody
    <3>1. CASE ~r.made
      BY <3>1 DEF RowFits, NoLink
    <3>2. CASE ~p.bound
      BY <1>1, <3>2 DEF RowFits
    <3>3. QED
      BY <2>1, <3>1, <3>2
  <2>2. QED
    BY <1>1, <2>1 DEF RowFits
<1>8. QED
  BY <1>3, <1>4, <1>5, <1>6, <1>7

\* So does the end of an account.
LEMMA CloseCommitStep ==
  ASSUME IInv, NEW w \in Workers, CloseCommit(w)
  PROVE  IInv'
<1>1. PICK u : u = task[w].about
  OBVIOUS
<1>2. PICK own : own = TripsOf(u)
  OBVIOUS
<1>3. PICK known : known = {t \in own : trip[t].bound /\ link[t].made}
  OBVIOUS
<1>4. /\ trip \in [Trips -> TripRows] /\ link \in [Trips -> LinkRows]
      /\ user \in [Users -> BOOLEAN] /\ applied \in [Trips -> Nat] /\ checkpoint \in Checkpoints
      /\ job \in [Trips -> Nat] /\ source \in [Trips -> Nat] /\ issued \in Nat
      /\ Knows(w) /\ Nobody \notin Users
      /\ Finish(w) /\ UNCHANGED <<applied, checkpoint>> /\ UNCHANGED hermes
      /\ task[w].pc = "erase"
  BY TaskFacts, LinksAssumption DEF CloseCommit
<1>5. /\ u \in Users /\ lock[UserLock(u)] = w /\ user[u]
      /\ \A t \in own : trip[t].status # "ACTIVE" /\ lock[TripLock(t)] = w
  BY <1>1, <1>2, <1>4 DEF Knows, Shape, Holds
<1>6. Fit
  BY DEF IInv
<1>7. CASE ~\A t \in Trips \ known : link[t].user # u
  <2>1. UNCHANGED <<user, trip, link>>
    BY <1>1, <1>2, <1>3, <1>7 DEF CloseCommit
  <2>2. QED
    BY <1>4, <2>1, Ending DEF rows
<1>8. CASE \A t \in Trips \ known : link[t].user # u
  <2>1. /\ user' = [user EXCEPT ![u] = FALSE]
        /\ trip' = [t \in Trips |-> IF t \in own
                      THEN [trip[t] EXCEPT !.user = Nobody, !.version = @ + 1, !.erased = TRUE]
                      ELSE trip[t]]
        /\ link' = [t \in Trips |-> IF t \in known
                      THEN [Deidentified(link[t]) EXCEPT !.version = Larger(@, trip'[t].version)]
                      ELSE link[t]]
    BY <1>1, <1>2, <1>3, <1>8 DEF CloseCommit
  <2>2. \A t \in Trips : t \in own <=> trip[t].user = u
    BY <1>2 DEF TripsOf
  <2>3. ASSUME NEW t \in Trips, t \notin own
        PROVE  /\ trip'[t] = trip[t] /\ link'[t] = link[t]
               /\ TripFits(t)' /\ LinkFits(t)'
    <3>1. trip'[t] = trip[t] /\ link'[t] = link[t] /\ trip[t].user # u
      BY <1>3, <2>1, <2>2, <2>3
    <3>2. TripFits(t) /\ LinkFits(t)
      BY <1>6 DEF Fit
    <3>3. job'[t] = job[t] /\ source'[t] = source[t] /\ issued' = issued
      BY <1>4 DEF hermes
    <3>4. trip[t].user # Nobody => user'[trip[t].user]
      BY <1>4, <2>1, <3>1, <3>2 DEF TripFits, TripRows
    <3>5. TripFits(t)'
      BY <3>1, <3>2, <3>3, <3>4 DEF TripFits
    <3>6. QED
      BY <3>1, <3>2, <3>3, <3>5 DEF LinkFits
  <2>4. ASSUME NEW t \in Trips, t \in own
        PROVE  /\ trip[t].status = "ENDED" /\ trip'[t].status = "ENDED"
               /\ trip'[t].user = Nobody /\ trip'[t] \in TripRows
               /\ link'[t] \in LinkRows /\ (link[t].made => link'[t].made)
               /\ TripFits(t)' /\ LinkFits(t)'
    <3>1. TripFits(t) /\ RowFits(link[t], t, trip[t]) /\ (link[t].made => job[t] > 0)
      BY <1>6 DEF Fit, LinkFits
    <3>2. trip[t].user = u /\ u # Nobody /\ trip[t] \in TripRows /\ link[t] \in LinkRows
      BY <1>4, <1>5, <2>2, <2>4
    <3>3. trip[t].status = "ENDED"
      <4>1. trip[t] # NoTrip
        BY <3>2 DEF NoTrip
      <4>2. QED
        BY <1>5, <2>4, <3>1, <3>2, <4>1 DEF TripFits, TripRows
    <3>4. ~trip[t].erased
      BY <3>1, <3>2, <3>3 DEF TripFits
    <3>5. trip[t].version = 1 + (IF trip[t].bound THEN 1 ELSE 0)
      BY <3>1, <3>3, <3>4 DEF TripFits
    <3>6. trip[t].version \in 1..2 /\ trip[t].version + 1 \in 0..3
      BY <3>5
    <3>7. /\ trip'[t] \in TripRows /\ trip'[t].status = trip[t].status
          /\ trip'[t].bound = trip[t].bound /\ trip'[t].user = Nobody
          /\ trip'[t].version = trip[t].version + 1 /\ trip'[t].erased
      <4>1. trip'[t] = [trip[t] EXCEPT !.user = Nobody, !.version = @ + 1, !.erased = TRUE]
        BY <2>1, <2>4
      <4>2. QED
        BY <3>2, <3>6, <4>1, ErasedTrip
    <3>8. link'[t] \in LinkRows /\ link'[t].made = link[t].made /\ RowFits(link'[t], t, trip'[t])
      <4>. DEFINE c == [Deidentified(link[t]) EXCEPT !.version = Larger(@, trip'[t].version)]
      <4>1. /\ c \in LinkRows /\ c.made = link[t].made
            /\ link[t].made => RowFits(c, t, trip'[t])
            /\ ~(trip[t].bound /\ link[t].made) => RowFits(link[t], t, trip'[t])
        BY <3>1, <3>2, <3>4, <3>6, <3>7, ErasedRows
      <4>2. link'[t] = IF t \in known THEN c ELSE link[t]
        BY <2>1
      <4>. HIDE DEF c
      <4>3. QED
        BY <1>3, <2>4, <3>2, <4>1, <4>2
    <3>9. job'[t] = job[t] /\ source'[t] = source[t] /\ issued' = issued
      BY <1>4 DEF hermes
    <3>10. TripFits(t)'
      <4>1. trip'[t].version = 1 + (IF trip'[t].bound THEN 1 ELSE 0)
                                 + (IF trip'[t].erased THEN 1 ELSE 0)
        BY <3>5, <3>7
      <4>2. (source'[t] > 0 <=> job'[t] > 0) /\ source'[t] <= issued'
        BY <3>1, <3>9 DEF TripFits
      <4>3. QED
        BY <3>3, <3>7, <4>1, <4>2 DEF TripFits
    <3>11. QED
      BY <3>1, <3>3, <3>7, <3>8, <3>9, <3>10 DEF LinkFits
  <2>5. /\ user' \in [Users -> BOOLEAN] /\ trip' \in [Trips -> TripRows]
        /\ link' \in [Trips -> LinkRows]
    <3>1. user' \in [Users -> BOOLEAN]
      BY <1>4, <1>5, <2>1
    <3>2. ASSUME NEW t \in Trips PROVE trip'[t] \in TripRows /\ link'[t] \in LinkRows
      BY <1>4, <2>3, <2>4
    <3>. DEFINE p(t) == IF t \in own
                        THEN [trip[t] EXCEPT !.user = Nobody, !.version = @ + 1, !.erased = TRUE]
                        ELSE trip[t]
                r(t) == IF t \in known
                        THEN [Deidentified(link[t]) EXCEPT !.version = Larger(@, trip'[t].version)]
                        ELSE link[t]
    <3>3. trip' = [t \in Trips |-> p(t)] /\ link' = [t \in Trips |-> r(t)]
      BY <2>1
    <3>. HIDE DEF p, r
    <3>4. QED
      BY <3>1, <3>2, <3>3
  <2>6. \A t \in Trips : link[t].made => link'[t].made
    BY <2>3, <2>4
  <2>7. KeepsRows(w)
    <3>1. ASSUME NEW v \in Workers \ {w}, NEW t \in Trips, lock[TripLock(t)] = v
          PROVE  trip'[t] = trip[t]
      BY <1>5, <2>3, <3>1
    <3>2. ASSUME NEW v \in Workers \ {w}, NEW x \in Users, lock[UserLock(x)] = v
          PROVE  user'[x] = user[x] /\ x # u
      BY <1>4, <1>5, <2>1, <3>2
    <3>3. ASSUME NEW x \in Users, NEW t \in Trips, trip'[t].user = x
          PROVE  trip'[t] = trip[t]
      BY <1>4, <2>3, <2>4, <3>3
    <3>4. ASSUME NEW v \in Workers \ {w}, NEW x \in Users, lock[UserLock(x)] = v
          PROVE  /\ user'[x] = user[x]
                 /\ \A t \in Trips : trip'[t].user = x =>
                      trip[t].user = x /\ (trip'[t].status = "ACTIVE" => trip[t].status = "ACTIVE")
      BY <3>2, <3>3, <3>4
    <3>5. QED
      BY <1>4, <2>6, <3>1, <3>4 DEF KeepsRows, hermes
  <2>8. Fit'
    <3>1. \A t \in Trips : TripFits(t)' /\ LinkFits(t)'
      BY <2>3, <2>4
    <3>2. CheckpointFits'
      BY <1>4, <1>6, <2>6, CheckpointKept DEF Fit, hermes
    <3>3. QED
      BY <3>1, <3>2 DEF Fit
  <2>9. QED
    BY <1>4, <2>5, <2>7, <2>8, Writing
<1>9. QED
  BY <1>7, <1>8

\* A new trip of a user that nobody has locked.
LEMMA ReserveStep ==
  ASSUME IInv, NEW u \in Users, NEW t \in Trips, Reserve(u, t)
  PROVE  IInv'
<1>. DEFINE new == [NoTrip EXCEPT !.status = "ACTIVE", !.user = u, !.version = 1]
<1>1. /\ TypeOK /\ Nobody \notin Users /\ Nobody \notin Workers
      /\ trip \in [Trips -> TripRows] /\ job \in [Trips -> Nat] /\ issued \in Nat
      /\ user[u] /\ lock[UserLock(u)] = Nobody /\ trip[t].status = "ABSENT"
      /\ trip' = [trip EXCEPT ![t] = new]
      /\ UNCHANGED <<user, link, applied, checkpoint, job, source, issued, lock, task>>
  BY LinksAssumption DEF IInv, TypeOK, Versions, Reserve, Unreferred, Free, hermes
<1>2. /\ new \in TripRows /\ new.status = "ACTIVE" /\ new.user = u /\ new.version = 1
      /\ ~new.bound /\ ~new.erased
  <2>1. NoTrip \in TripRows /\ ~NoTrip.bound /\ ~NoTrip.erased /\ 1 \in 0..3
    BY DEF NoTrip, TripRows
  <2>2. ASSUME NEW p \in TripRows, NEW n \in 0..3
        PROVE  [p EXCEPT !.status = "ACTIVE", !.user = u, !.version = n] \in TripRows
    BY ZenonT(20) DEF TripRows
  <2>3. ASSUME NEW p \in TripRows
        PROVE  LET q == [p EXCEPT !.status = "ACTIVE", !.user = u, !.version = 1]
               IN  /\ q.status = "ACTIVE" /\ q.user = u /\ q.version = 1
                   /\ q.bound = p.bound /\ q.erased = p.erased
    BY SMT DEF TripRows
  <2>4. QED
    BY <2>1, <2>2, <2>3
<1>. HIDE DEF new
<1>3. /\ trip' \in [Trips -> TripRows] /\ trip'[t] = new
      /\ \A s \in Trips \ {t} : trip'[s] = trip[s]
  BY <1>1, <1>2
<1>4. TypeOK'
  BY <1>1, <1>3 DEF TypeOK
<1>5. Keeps(Nobody)
  <2>1. ASSUME NEW w \in Workers, NEW s \in Trips, trip[s].status # "ABSENT"
        PROVE  trip'[s] = trip[s]
    BY <1>1, <1>3, <2>1
  <2>2. ASSUME NEW w \in Workers, NEW x \in Users, lock[UserLock(x)] = w,
               NEW s \in Trips, trip'[s].user = x
        PROVE  trip'[s] = trip[s]
    <3>1. x # u
      BY <1>1, <2>2
    <3>2. QED
      BY <1>2, <1>3, <2>2, <3>1
  <2>3. KeepsRows(Nobody)
    BY <1>1, <2>1, <2>2 DEF KeepsRows
  <2>4. QED
    BY <1>1, <2>3 DEF Keeps
<1>6. Fit'
  <2>1. Fit
    BY DEF IInv
  <2>2. TripFits(t) /\ RowFits(link[t], t, trip[t]) /\ (link[t].made => job[t] > 0)
    BY <2>1 DEF Fit, LinkFits
  <2>3. job[t] = 0 /\ link[t] = NoLink
    BY <1>1, <2>2 DEF TripFits, RowFits
  <2>4. TripFits(t)'
    <3>1. trip'[t].version = 1 + (IF trip'[t].bound THEN 1 ELSE 0)
                               + (IF trip'[t].erased THEN 1 ELSE 0)
      BY <1>2, <1>3
    <3>2. (source'[t] > 0 <=> job'[t] > 0) /\ source'[t] <= issued'
      BY <1>1, <2>2 DEF TripFits
    <3>3. QED
      BY <1>1, <1>2, <1>3, <3>1, <3>2 DEF TripFits
  <2>5. LinkFits(t)'
    BY <1>1, <1>2, <1>3, <2>3 DEF LinkFits, RowFits, NoLink
  <2>6. ASSUME NEW s \in Trips \ {t} PROVE TripFits(s)' /\ LinkFits(s)'
    BY <1>1, <1>3, <2>1 DEF Fit, TripFits, LinkFits
  <2>7. CheckpointFits'
    BY <1>1, <2>1, CheckpointKept DEF Fit
  <2>8. QED
    BY <2>4, <2>5, <2>6, <2>7 DEF Fit
<1>7. QED
  BY <1>1, <1>4, <1>5, <1>6, Together

\* hermes-travel works: a source id it gives is larger than any before.
LEMMA HermesStepStep ==
  ASSUME IInv, NEW t \in Trips, HermesStep(t)
  PROVE  IInv'
<1>1. /\ TypeOK /\ Nobody \notin Workers
      /\ job \in [Trips -> Nat] /\ source \in [Trips -> Nat] /\ issued \in Nat
      /\ checkpoint.last \in Nat /\ checkpoint.max \in Nat \cup {-1}
      /\ trip[t].status # "ABSENT" /\ job' = [job EXCEPT ![t] = job[t] + 1]
      /\ IF job[t] = 0
         THEN issued' = issued + 1 /\ source' = [source EXCEPT ![t] = issued + 1]
         ELSE UNCHANGED <<source, issued>>
      /\ UNCHANGED <<user, trip, link, applied, checkpoint, lock, task>>
  BY LinksAssumption DEF IInv, TypeOK, Versions, HermesStep, rows, Checkpoints
<1>2. /\ job' \in [Trips -> Nat] /\ source' \in [Trips -> Nat] /\ issued' \in Nat
      /\ issued' >= issued /\ job'[t] > 0
      /\ \A s \in Trips : /\ job'[s] >= job[s]
                          /\ source'[s] = source[s]
                               \/ (s = t /\ job[t] = 0 /\ source'[s] = issued + 1 /\ issued' = issued + 1)
      /\ \A s \in Trips \ {t} : job'[s] = job[s]
  BY <1>1
<1>3. TypeOK'
  BY <1>1, <1>2 DEF TypeOK, Versions
<1>4. Keeps(Nobody)
  <2>1. \A s \in Trips : source'[s] = source[s] \/ source'[s] > issued
    BY <1>1, <1>2
  <2>2. KeepsRows(Nobody)
    BY <1>1, <1>2, <2>1 DEF KeepsRows
  <2>3. QED
    BY <1>1, <2>2 DEF Keeps
<1>5. Fit'
  <2>1. Fit
    BY DEF IInv
  <2>2. ASSUME NEW s \in Trips
        PROVE  TripFits(s)' /\ LinkFits(s)'
    <3>1. TripFits(s) /\ LinkFits(s) /\ trip'[s] = trip[s] /\ link'[s] = link[s] /\ user' = user
      BY <1>1, <2>1 DEF Fit
    <3>2. (source'[s] > 0 <=> job'[s] > 0) /\ source'[s] <= issued'
      <4>1. (source[s] > 0 <=> job[s] > 0) /\ source[s] <= issued
        BY <3>1 DEF TripFits
      <4>2. CASE s = t
        BY <1>1, <1>2, <4>1, <4>2
      <4>3. CASE s # t
        BY <1>1, <1>2, <4>1, <4>3
      <4>4. QED
        BY <4>2, <4>3
    <3>3. trip[s].status = "ABSENT" => job'[s] = 0
      <4>1. trip[s].status = "ABSENT" => job[s] = 0 /\ s # t
        BY <1>1, <3>1 DEF TripFits
      <4>2. QED
        BY <1>2, <4>1
    <3>4. TripFits(s)'
      BY <3>1, <3>2, <3>3 DEF TripFits
    <3>5. LinkFits(s)'
      <4>1. link[s].made => job'[s] > 0
        BY <1>1, <1>2, <3>1 DEF LinkFits
      <4>2. QED
        BY <3>1, <4>1 DEF LinkFits
    <3>6. QED
      BY <3>4, <3>5
  <2>3. CheckpointFits'
    <3>1. CheckpointFits
      BY <2>1 DEF Fit
    <3>2. checkpoint.last <= issued' /\ checkpoint.max <= issued'
      BY <1>1, <1>2, <3>1 DEF CheckpointFits
    <3>3. ASSUME NEW s \in Trips, 0 < source'[s],
                 source'[s] <= IF checkpoint.done THEN checkpoint.max ELSE checkpoint.last
          PROVE  link[s].made
      <4>1. source'[s] <= issued
        BY <1>1, <1>2, <3>1, <3>3 DEF CheckpointFits
      <4>2. source'[s] = source[s]
        BY <1>1, <1>2, <4>1
      <4>3. QED
        BY <3>1, <3>3, <4>2 DEF CheckpointFits, BackfillCovers
    <3>4. QED
      BY <1>1, <3>1, <3>2, <3>3 DEF CheckpointFits, BackfillCovers
  <2>4. QED
    BY <2>2, <2>3 DEF Fit
<1>6. QED
  BY <1>1, <1>3, <1>4, <1>5, Together

\* A trip that ends keeps its owner, version and binding.
LEMMA SettleStep ==
  ASSUME IInv, NEW t \in Trips, Settle(t)
  PROVE  IInv'
<1>1. /\ TypeOK /\ Nobody \notin Workers /\ trip \in [Trips -> TripRows]
      /\ job \in [Trips -> Nat] /\ issued \in Nat
      /\ trip[t].status = "ACTIVE" /\ lock[TripLock(t)] = Nobody
      /\ trip' = [trip EXCEPT ![t] = [trip[t] EXCEPT !.status = "ENDED"]]
      /\ UNCHANGED <<user, link, applied, checkpoint, job, source, issued, lock, task>>
  BY LinksAssumption DEF IInv, TypeOK, Versions, Settle, hermes
<1>2. /\ trip' \in [Trips -> TripRows] /\ trip'[t].status = "ENDED"
      /\ trip'[t].bound = trip[t].bound /\ trip'[t].user = trip[t].user
      /\ trip'[t].version = trip[t].version /\ trip'[t].erased = trip[t].erased
      /\ \A s \in Trips \ {t} : trip'[s] = trip[s]
  <2>1. trip[t] \in TripRows
    BY <1>1
  <2>2. [trip[t] EXCEPT !.status = "ENDED"] \in TripRows
    BY <2>1 DEF TripRows
  <2>3. QED
    BY <1>1, <2>1, <2>2 DEF TripRows
<1>3. TypeOK'
  BY <1>1, <1>2 DEF TypeOK
<1>4. Keeps(Nobody)
  <2>1. ASSUME NEW w \in Workers, NEW s \in Trips, lock[TripLock(s)] = w
        PROVE  trip'[s] = trip[s]
    BY <1>1, <1>2, <2>1
  <2>2. \A s \in Trips : /\ trip'[s].user = trip[s].user
                         /\ trip'[s].status = "ACTIVE" => trip[s].status = "ACTIVE"
    BY <1>1, <1>2
  <2>3. KeepsRows(Nobody)
    BY <1>1, <2>1, <2>2 DEF KeepsRows
  <2>4. QED
    BY <1>1, <2>3 DEF Keeps
<1>5. Fit'
  <2>1. Fit
    BY DEF IInv
  <2>2. TripFits(t) /\ RowFits(link[t], t, trip[t]) /\ (link[t].made => job[t] > 0)
    BY <2>1 DEF Fit, LinkFits
  <2>3. TripFits(t)'
    <3>1. /\ trip[t].version = 1 + (IF trip[t].bound THEN 1 ELSE 0)
                                 + (IF trip[t].erased THEN 1 ELSE 0)
          /\ trip[t].erased <=> trip[t].user = Nobody
      BY <1>1, <2>2 DEF TripFits
    <3>2. trip[t].user # Nobody => user[trip[t].user]
      BY <2>2 DEF TripFits
    <3>3. (source'[t] > 0 <=> job'[t] > 0) /\ source'[t] <= issued'
      BY <1>1, <2>2 DEF TripFits
    <3>4. QED
      BY <1>1, <1>2, <3>1, <3>2, <3>3 DEF TripFits
  <2>4. LinkFits(t)'
    BY <1>1, <1>2, <2>2 DEF LinkFits, RowFits
  <2>5. ASSUME NEW s \in Trips \ {t} PROVE TripFits(s)' /\ LinkFits(s)'
    BY <1>1, <1>2, <2>1 DEF Fit, TripFits, LinkFits
  <2>6. CheckpointFits'
    BY <1>1, <2>1, CheckpointKept DEF Fit
  <2>7. QED
    BY <2>3, <2>4, <2>5, <2>6 DEF Fit
<1>6. QED
  BY <1>1, <1>3, <1>4, <1>5, Together

-----------------------------------------------------------------------------
(* The theorems.                                                           *)

LEMMA LinksInit == Init => IInv
<1>. SUFFICES ASSUME Init PROVE IInv
  OBVIOUS
<1>1. TypeOK
  <2>1. NoTrip \in TripRows /\ NoLink \in LinkRows
    BY DEF NoTrip, TripRows, NoLink, LinkRows, Versions
  <2>2. [last |-> 0, max |-> -1, done |-> FALSE] \in Checkpoints
    BY DEF Checkpoints
  <2>3. QED
    BY <2>1, <2>2, IdleIsTask DEF Init, TypeOK, Versions
<1>2. ASSUME NEW w \in Workers PROVE Knows(w)
  <2>1. /\ task[w] = Idle /\ Nobody \notin Workers
        /\ \A x \in Lockable : lock[x] # w
    BY LinksAssumption DEF Init
  <2>2. /\ Idle.pc = "idle" /\ Idle.kind = "event" /\ Idle.todo = {}
        /\ Idle.facts = [t \in Trips |-> NoTrip] /\ ~NoTrip.bound
    BY DEF Idle, NoTrip
  <2>3. Shape(w)
    BY <2>1, <2>2 DEF Shape
  <2>4. Holds(w)
    BY <2>1, <2>2, LockNames DEF Holds
  <2>5. Informed(w) /\ Paging(w)
    BY <2>1, <2>2 DEF Informed, Paging
  <2>6. QED
    BY <2>3, <2>4, <2>5 DEF Knows
<1>3. Fit
  <2>1. ASSUME NEW t \in Trips PROVE TripFits(t) /\ LinkFits(t)
    BY DEF Init, TripFits, LinkFits, RowFits, NoTrip, NoLink
  <2>2. CheckpointFits
    BY DEF Init, CheckpointFits, BackfillCovers
  <2>3. QED
    BY <2>1, <2>2 DEF Fit
<1>4. QED
  BY <1>1, <1>2, <1>3 DEF IInv

\* The invariant is inductive.
LEMMA LinksStep == IInv /\ [Next]_vars => IInv'
<1>. SUFFICES ASSUME IInv, [Next]_vars PROVE IInv'
  OBVIOUS
<1>1. ASSUME NEW w \in Workers, Work(w) PROVE IInv'
  <2>1. CASE \E t \in Trips : AcceptTrip(w, t) \/ Consume(w, t)
    BY <2>1, AcceptTripStep, ConsumeStep
  <2>2. CASE AcceptLink(w) \/ AcceptCommit(w)
    BY <2>2, AcceptLinkStep, AcceptCommitStep
  <2>3. CASE \E t \in Trips : ApplyTrip(w, t) \/ ApplyLink(w, t)
    BY <2>3, ApplyTripStep, ApplyLinkStep
  <2>4. CASE ApplyCommit(w)
    BY <2>4, ApplyCommitStep
  <2>5. CASE ReadCheckpoint(w) \/ FetchPage(w) \/ OpenPage(w)
    BY <2>5, ReadCheckpointStep, FetchPageStep, OpenPageStep
  <2>6. CASE FetchSource(w) \/ CompareRows(w)
    BY <2>6, FetchSourceStep, CompareRowsStep
  <2>7. CASE \E u \in Users : CloseUser(w, u)
    BY <2>7, CloseUserStep
  <2>8. CASE CloseTrips(w) \/ CloseCommit(w)
    BY <2>8, CloseTripsStep, CloseCommitStep
  <2>9. CASE Crash(w)
    BY <2>9, Ending DEF Crash
  <2>10. QED
    BY <1>1, <2>1, <2>2, <2>3, <2>4, <2>5, <2>6, <2>7, <2>8, <2>9 DEF Work
<1>2. ASSUME NEW t \in Trips, (\E u \in Users : Reserve(u, t)) \/ HermesStep(t) \/ Settle(t)
      PROVE  IInv'
  BY <1>2, ReserveStep, HermesStepStep, SettleStep
<1>3. CASE UNCHANGED vars
  BY <1>3 DEF vars, IInv, TypeOK, Knows, Shape, Holds, Informed, Paging, InPage, TripsOf, Fit,
              TripFits, LinkFits, RowFits, CheckpointFits, BackfillCovers
<1>4. QED
  BY <1>1, <1>2, <1>3 DEF Next

\* A row that is erased belongs to a trip that is erased, which has no user and
\* is not active: no acceptance and no closure is at work on it.
LEMMA ErasedStays ==
  ASSUME IInv, [Next]_vars, NEW t \in Trips, link[t].erased
  PROVE  link'[t].erased
<1>1. /\ TripFits(t) /\ RowFits(link[t], t, trip[t])
      /\ trip[t].erased /\ trip[t].status = "ENDED" /\ trip[t].user = Nobody
  <2>1. TripFits(t) /\ RowFits(link[t], t, trip[t]) /\ trip[t].erased
    BY DEF IInv, Fit, LinkFits, RowFits
  <2>2. QED
    BY <2>1 DEF TripFits
<1>2. link \in [Trips -> LinkRows] /\ trip \in [Trips -> TripRows] /\ Nobody \notin Users
  BY LinksAssumption DEF IInv, TypeOK
<1>3. ASSUME NEW w \in Workers, AcceptCommit(w) PROVE link'[t] = link[t]
  <2>1. PICK x : x = task[w].about
    OBVIOUS
  <2>2. x \in Trips /\ trip[x].status = "ACTIVE"
    BY <1>3, <2>1, TaskFacts DEF AcceptCommit, Knows, Shape, Holds
  <2>3. link' = [link EXCEPT ![x] = link'[x]]
    BY <1>3, <2>1, AcceptCommitRows
  <2>4. x # t
    BY <1>1, <2>2
  <2>5. ASSUME NEW r, link' = [link EXCEPT ![x] = r] PROVE link'[t] = link[t]
    BY <1>2, <2>4, <2>5
  <2>6. QED
    BY <2>3, <2>5
<1>4. ASSUME NEW w \in Workers, ApplyCommit(w) PROVE link'[t].erased
  <2>1. CASE lock[LinkLock(t)] = w
    <3>. DEFINE f == task[w].facts[t]
                q == Snapshotted(link[t], t, f, task[w].snap[t])
    <3>1. /\ task[w].facts \in [Trips -> TripRows] /\ task[w].snap \in [Trips -> Nat]
          /\ Knows(w) /\ job \in [Trips -> Nat]
      BY TaskFacts DEF Tasks, Versions
    <3>2. trip[t].version >= 1 /\ (trip[t].erased <=> trip[t].user = Nobody)
      BY <1>1 DEF TripFits
    <3>3. IF f.bound THEN f = trip[t] ELSE f = NoTrip
      BY <3>1 DEF Knows, Informed
    <3>4. f \in TripRows /\ trip[t] \in TripRows /\ link[t] \in LinkRows /\ task[w].snap[t] \in Nat
      BY <1>2, <3>1
    <3>5. q.erased
      BY <1>1, <3>2, <3>3, <3>4, SnapshottedFits
    <3>6. link'[t] = q
      BY <1>4, <2>1 DEF ApplyCommit
    <3>. HIDE DEF q
    <3>7. QED
      BY <3>5, <3>6
  <2>2. CASE lock[LinkLock(t)] # w
    <3>1. link'[t] = link[t]
      BY <1>4, <2>2 DEF ApplyCommit
    <3>2. QED
      BY <3>1
  <2>3. QED
    BY <2>1, <2>2
<1>5. ASSUME NEW w \in Workers, CloseCommit(w) PROVE link'[t] = link[t]
  <2>1. task[w].about \in Users
    BY <1>5, TaskFacts DEF CloseCommit, Knows, Shape
  <2>2. t \notin TripsOf(task[w].about)
    BY <1>1, <1>2, <2>1 DEF TripsOf
  <2>3. QED
    BY <1>5, <2>2 DEF CloseCommit
<1>6. CASE link' = link
  BY <1>6
<1>7. ASSUME NEW w \in Workers, Work(w) PROVE link'[t].erased
  <2>1. CASE AcceptCommit(w)
    BY <1>3, <2>1
  <2>2. CASE ApplyCommit(w)
    BY <1>4, <2>2
  <2>3. CASE CloseCommit(w)
    BY <1>5, <2>3
  <2>4. CASE ~(AcceptCommit(w) \/ ApplyCommit(w) \/ CloseCommit(w))
    <3>1. link' = link
      BY <1>7, <2>4 DEF Work, AcceptTrip, Consume, AcceptLink, ApplyTrip, ApplyLink,
                        ReadCheckpoint, FetchPage, OpenPage, FetchSource, CompareRows,
                        CloseUser, CloseTrips, Crash, rows
    <3>2. QED
      BY <3>1
  <2>5. QED
    BY <2>1, <2>2, <2>3, <2>4
<1>8. ASSUME NEW s \in Trips, (\E u \in Users : Reserve(u, s)) \/ HermesStep(s) \/ Settle(s)
      PROVE  link' = link
  BY <1>8 DEF Reserve, HermesStep, Settle, rows
<1>9. QED
  BY <1>6, <1>7, <1>8 DEF Next, vars

\* What every worker has locked and read, and what the rows of a trip, of its
\* job and of the backfill's checkpoint say of each other, through every
\* interleaving of events, pages, repairs, acceptances and closures and through
\* every crash (src/admin/projection.py, projection_sync.py, quota/service.py,
\* account/closure.py).
THEOREM LinksInvariant == Spec => []IInv
<1>1. Init => IInv
  BY LinksInit
<1>2. IInv /\ [Next]_vars => IInv'
  BY LinksStep
<1>3. QED
  BY <1>1, <1>2, PTL DEF Spec

\* The rows, the locks and the locals of the transactions keep their types: no
\* trip is bound, erased or renumbered more than once, so that its version, and
\* that of its row, stays within 0..3.
THEOREM LinkTypes == Spec => []TypeOK
<1>1. IInv => TypeOK
  BY DEF IInv
<1>2. QED
  BY <1>1, LinksInvariant, PTL

\* A row that says anything of its owner says what the trip says, at the trip's
\* version (_association_from_locked_facts and _apply_job_snapshot against
\* save_upstream_acceptance and close_account): every writer of the row has the
\* trip locked, or has found it unbound and then writes no owner.
THEOREM RowsTellTheTruth == Spec => []LinksTellTheTruth
<1>1. IInv => LinksTellTheTruth
  <2>. SUFFICES ASSUME IInv, NEW t \in Trips
                PROVE  LET r == link[t]
                           p == trip[t] IN
                       /\ r.state = "linked" =>
                            p.bound /\ ~p.erased /\ r.trip = t /\ r.user = p.user /\ user[p.user]
                       /\ r.state = "de-identified" => p.erased /\ r.erased
                       /\ r.state # "unlinked" => r.version = p.version
                       /\ r.user # Nobody => r.state = "linked"
    BY DEF LinksTellTheTruth
  <2>1. TripFits(t) /\ RowFits(link[t], t, trip[t]) /\ (link[t].made => job[t] > 0)
    BY DEF IInv, Fit, LinkFits
  <2>2. ASSUME link[t].state = "linked"
        PROVE  trip[t].user # Nobody
    <3>1. link[t].made
      BY <2>1, <2>2 DEF RowFits, NoLink
    <3>2. trip[t].status # "ABSENT"
      BY <2>1, <3>1, TaskFacts DEF TripFits, IInv, TypeOK, Versions
    <3>3. QED
      BY <2>1, <2>2, <3>2 DEF TripFits, RowFits
  <2>3. QED
    BY <2>1, <2>2 DEF TripFits, RowFits
<1>2. QED
  BY <1>1, LinksInvariant, PTL

\* Every job that the checkpoint of run_projection_backfill has passed has its
\* row, in however many processes it ran, and whatever was retried: a page is
\* committed with its checkpoint, under the lock of the checkpoint, and only
\* after its jobs have been locked.
THEOREM PassedIsCovered == Spec => []BackfillCovers
<1>1. IInv => BackfillCovers
  BY DEF IInv, Fit, CheckpointFits
<1>2. QED
  BY <1>1, LinksInvariant, PTL

\* A row that was de-identified is not linked again by any snapshot, repair or
\* acceptance (_apply_job_snapshot keeps an erased identity; the trip it belongs
\* to has ended and is accepted no more).
THEOREM ErasedForGood == Spec => ErasureIsFinal
<1>. DEFINE Kept(t) == link[t].erased =>
                         link'[t].erased /\ link'[t].state = "de-identified"
                           /\ link'[t].user = Nobody
<1>1. ASSUME IInv, [Next]_vars, NEW t \in Trips PROVE Kept(t)
  <2>. SUFFICES ASSUME link[t].erased
                PROVE  link'[t].erased /\ link'[t].state = "de-identified"
                         /\ link'[t].user = Nobody
    OBVIOUS
  <2>1. IInv'
    BY <1>1, LinksStep
  <2>2. link'[t].erased
    BY <1>1, ErasedStays
  <2>3. RowFits(link'[t], t, trip'[t])
    BY <2>1 DEF IInv, Fit, LinkFits
  <2>4. QED
    BY <2>2, <2>3 DEF RowFits
<1>2. IInv /\ [Next]_vars => [\A t \in Trips : Kept(t)]_vars
  BY <1>1
<1>3. QED
  BY <1>2, LinksInvariant, PTL DEF Spec, ErasureIsFinal
=============================================================================
