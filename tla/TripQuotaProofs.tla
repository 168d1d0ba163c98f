--------------------------- MODULE TripQuotaProofs ---------------------------
(***************************************************************************)
(* Proofs about TripQuota for every number of users, trips, requests and   *)
(* workers, every grant and every set of adjustments.                      *)
(*                                                                         *)
(* The inductive invariant is built in two layers.  TypeOK with WellFormed *)
(* says what the locals of a task and the rows look like; the ledger layer *)
(* adds the entries, the decisions taken under a lock and the balance.     *)
(***************************************************************************)
EXTENDS TripQuota, FiniteSetTheorems, TLAPS

OnTrip == {"create", "accepted", "uncertain", "unsent", "refused", "apply"}

\* The locals of a task fit its program counter: a task that is about to
\* write a trip has one whose row exists, and a status to write.
Fits(k, rows) ==
  /\ k.pc \in OnTrip \/ (k.pc = "next" /\ k.role = "stream") =>
       k.trip \in Trips /\ rows[k.trip].status # "ABSENT"
  /\ k.pc = "accepted" => k.seen \in {"PENDING", "RUNNING"}
  /\ k.pc = "apply" => k.seen # "NONE"
  /\ k.pc \in {"insert", "adjust"} => k.user \in Users
  /\ k.pc = "insert" => k.req \in ReqIds
  /\ \A t \in Trips, bound \in BOOLEAN :
       <<t, bound>> \in k.todo => rows[t].status # "ABSENT"

WellFormed ==
  /\ \A w \in Workers : Fits(task[w], trip)
  /\ \A t \in Trips : trip[t].user # Nobody => trip[t].status # "ABSENT"

TypeInv == TypeOK /\ WellFormed

-----------------------------------------------------------------------------
(* Types.                                                                  *)

\* Updating a function at a point keeps its range.
LEMMA ExceptRange ==
  ASSUME NEW D, NEW S, NEW f \in [D -> S], NEW x, NEW y \in S
  PROVE  [f EXCEPT ![x] = y] \in [D -> S]
  OBVIOUS

LEMMA DeltasAreInts ==
  ASSUME NEW d \in Deltas \cup {0}
  PROVE  d \in Int
  BY ConstantsAssumption

LEMMA IdleIsTask == Idle \in Tasks
  BY DEF Idle, Tasks

LEMMA NoTripIsRow == NoTrip \in TripRows
  BY ConstantsAssumption DEF NoTrip, TripRows

LEMMA BecomeType ==
  ASSUME TypeOK, NEW w \in Workers, NEW k \in Tasks, Become(w, k)
  PROVE  task' \in [Workers -> Tasks]
  BY DEF TypeOK, Become

\* The tasks that Continue may leave behind.
LEMMA ContinueType ==
  ASSUME TypeOK, NEW w \in Workers, Continue(w)
  PROVE  task' \in [Workers -> Tasks]
<1>1. task[w] \in Tasks
  BY DEF TypeOK
<1>2. ASSUME NEW x \in Trips \cup {Nobody}
      PROVE  [task[w] EXCEPT !.pc = "next", !.seen = "NONE", !.trip = x] \in Tasks
  BY <1>1 DEF Tasks
<1>a. task[w].trip \in Trips \cup {Nobody}
  BY <1>1 DEF Tasks
<1>3. QED
  BY <1>2, <1>a, IdleIsTask, BecomeType DEF Continue, Finish

\* The status Observe stores is one Hermes may report of a trip.
LEMMA ObservedStatus ==
  ASSUME TypeOK, NEW t \in Trips
  PROVE  /\ Reported(t) \ Unaccepted \subseteq Active \cup Terminal
         /\ Streamed(t) \ Unaccepted \subseteq Active \cup Terminal
<1>1. job[t] \in JobStates
  BY DEF TypeOK
<1>2. QED
  BY <1>1 DEF Reported, Streamed, JobStates, Unaccepted, Active, Terminal

\* Each statement on a trip keeps the type of its row.
LEMMA RowTypes ==
  ASSUME TypeOK, NEW t \in Trips
  PROVE  /\ \A s \in Active \cup Terminal, b \in BOOLEAN :
               [trip EXCEPT ![t].bound = b, ![t].status = s] \in [Trips -> TripRows]
         /\ \A s \in Active \cup Terminal :
               [trip EXCEPT ![t].status = s] \in [Trips -> TripRows]
         /\ [trip EXCEPT ![t] = Attempted(@)] \in [Trips -> TripRows]
<1>1. trip \in [Trips -> TripRows] /\ trip[t] \in TripRows
  BY DEF TypeOK
<1>2. ASSUME NEW s \in Active \cup Terminal, NEW b \in BOOLEAN
      PROVE  [trip EXCEPT ![t].bound = b, ![t].status = s] \in [Trips -> TripRows]
  BY <1>1 DEF TripRows
<1>3. ASSUME NEW s \in Active \cup Terminal
      PROVE  [trip EXCEPT ![t].status = s] \in [Trips -> TripRows]
  BY <1>1 DEF TripRows
<1>4. Attempted(trip[t]) \in TripRows
  BY <1>1, ConstantsAssumption DEF Attempted, TripRows
<1>5. QED
  BY <1>1, <1>2, <1>3, <1>4

\* Rows are only ever added, and a row with an owner exists.
RowsStay ==
  \A t \in Trips :
    /\ trip[t].status # "ABSENT" => trip'[t].status # "ABSENT"
    /\ trip'[t].user # Nobody => trip'[t].status # "ABSENT"

LEMMA FitsStays ==
  ASSUME RowsStay, NEW k \in Tasks, Fits(k, trip)
  PROVE  Fits(k, trip')
  BY DEF RowsStay, Fits, Tasks, OnTrip

LEMMA FitsStep ==
  ASSUME TypeInv, NEW w \in Workers, NEW k \in Tasks, Become(w, k), RowsStay, Fits(k, trip')
  PROVE  WellFormed'
<1>1. ASSUME NEW v \in Workers PROVE Fits(task'[v], trip')
  <2>1. task[v] \in Tasks /\ Fits(task[v], trip)
    BY DEF TypeInv, TypeOK, WellFormed
  <2>2. CASE v = w
    BY <2>2 DEF Become, TypeInv, TypeOK
  <2>3. CASE v # w
    <3>1. task'[v] = task[v]
      BY <2>3 DEF Become, TypeInv, TypeOK
    <3>2. QED
      BY <2>1, <3>1, FitsStays
  <2>4. QED
    BY <2>2, <2>3
<1>2. QED
  BY <1>1 DEF WellFormed, RowsStay

LEMMA FitsIdle == Fits(Idle, trip')
  BY DEF Fits, Idle, OnTrip

LEMMA FitsFinish ==
  ASSUME TypeInv, NEW w \in Workers, Finish(w), RowsStay
  PROVE  task' \in [Workers -> Tasks] /\ WellFormed'
  BY FitsIdle, FitsStep, IdleIsTask, BecomeType DEF Finish, TypeInv

LEMMA FitsContinue ==
  ASSUME TypeInv, NEW w \in Workers, Continue(w), RowsStay, task[w].pc \in OnTrip
  PROVE  task' \in [Workers -> Tasks] /\ WellFormed'
<1>1. task[w] \in Tasks /\ Fits(task[w], trip)
  BY DEF TypeInv, TypeOK, WellFormed
<1>2. ASSUME NEW x \in Trips \cup {Nobody},
             task[w].role = "stream" => x = task[w].trip
      PROVE  Fits([task[w] EXCEPT !.pc = "next", !.seen = "NONE", !.trip = x], trip')
  BY <1>1, <1>2 DEF Fits, Tasks, OnTrip, RowsStay
<1>3. ASSUME NEW x \in Trips \cup {Nobody}
      PROVE  [task[w] EXCEPT !.pc = "next", !.seen = "NONE", !.trip = x] \in Tasks
  BY <1>1 DEF Tasks
<1>4. task[w].trip \in Trips \cup {Nobody}
  BY <1>1 DEF Tasks
<1>5. task' \in [Workers -> Tasks]
  BY ContinueType DEF TypeInv
<1>6. CASE task[w].role = "stream"
  <2> DEFINE k == [task[w] EXCEPT !.pc = "next", !.seen = "NONE", !.trip = task[w].trip]
  <2>1. Become(w, k)
    BY <1>6 DEF Continue
  <2>2. k \in Tasks /\ Fits(k, trip')
    BY <1>2, <1>3, <1>4
  <2> HIDE DEF k
  <2>3. QED
    BY <1>5, <2>1, <2>2, FitsStep
<1>7. CASE task[w].role = "batch" /\ task[w].todo # {}
  <2> DEFINE k == [task[w] EXCEPT !.pc = "next", !.seen = "NONE", !.trip = Nobody]
  <2>1. Become(w, k)
    BY <1>7 DEF Continue
  <2>2. k \in Tasks /\ Fits(k, trip')
    BY <1>2, <1>3, <1>7
  <2> HIDE DEF k
  <2>3. QED
    BY <1>5, <2>1, <2>2, FitsStep
<1>8. CASE ~(task[w].role = "stream" \/ (task[w].role = "batch" /\ task[w].todo # {}))
  BY <1>8, FitsFinish DEF Continue
<1>9. QED
  BY <1>5, <1>6, <1>7, <1>8

\* A task moves on to a later point of the same request.
LEMMA FitsGoto ==
  ASSUME TypeInv, NEW w \in Workers, NEW pc \in {"unsent", "refused", "uncertain"},
         Goto(w, pc), RowsStay, task[w].pc \in OnTrip
  PROVE  task' \in [Workers -> Tasks] /\ WellFormed'
<1>1. task[w] \in Tasks /\ Fits(task[w], trip)
  BY DEF TypeInv, TypeOK, WellFormed
<1>2. [task[w] EXCEPT !.pc = pc] \in Tasks
  BY <1>1 DEF Tasks
<1>3. Fits([task[w] EXCEPT !.pc = pc], trip')
  BY <1>1 DEF Fits, Tasks, OnTrip, RowsStay
<1>4. QED
  BY <1>2, <1>3, FitsStep, BecomeType DEF Goto, TypeInv

LEMMA FitsAfterCreate ==
  ASSUME TypeInv, NEW w \in Workers, NEW pc \in {"unsent", "uncertain"},
         AfterCreate(w, pc), RowsStay, task[w].pc \in OnTrip
  PROVE  task' \in [Workers -> Tasks] /\ WellFormed'
  BY FitsContinue, FitsGoto DEF AfterCreate

\* A task begins a create call.
LEMMA FitsBeginCreate ==
  ASSUME TypeInv, NEW w \in Workers, NEW role \in {"submit", "batch"}, NEW t \in Trips,
         NEW todo \in SUBSET (Trips \X BOOLEAN), BeginCreate(w, role, t, todo),
         RowsStay, trip'[t].status # "ABSENT",
         \A s \in Trips, b \in BOOLEAN : <<s, b>> \in todo => trip'[s].status # "ABSENT"
  PROVE  /\ task' \in [Workers -> Tasks] /\ WellFormed'
         /\ calls' \in [Trips -> 0..2]
<1> DEFINE k == [Idle EXCEPT !.role = role, !.pc = "create", !.trip = t, !.todo = todo]
<1>1. Become(w, k)
  BY DEF BeginCreate
<1>2. k \in Tasks /\ k.pc = "create" /\ k.trip = t /\ k.todo = todo
  BY IdleIsTask, ZenonT(30) DEF Tasks
<1> HIDE DEF k
<1>3. Fits(k, trip')
  BY <1>2 DEF Fits
<1>4. calls' \in [Trips -> 0..2]
  BY DEF BeginCreate, Counted, TypeInv, TypeOK
<1>5. QED
  BY <1>1, <1>2, <1>3, <1>4, FitsStep, BecomeType DEF TypeInv

\* A task keeps the status a request reported, to apply it next.
LEMMA FitsObserve ==
  ASSUME TypeInv, NEW w \in Workers, NEW t \in Trips, NEW k \in Tasks, Fits(k, trip),
         NEW statuses, statuses \ Unaccepted \subseteq Active \cup Terminal,
         Observe(w, t, k, statuses), RowsStay, trip[t].status # "ABSENT"
  PROVE  task' \in [Workers -> Tasks] /\ WellFormed'
<1>1. PICK s \in statuses \ Unaccepted :
        Become(w, [k EXCEPT !.pc = "apply", !.trip = t, !.seen = s])
  BY DEF Observe
<1> DEFINE j == [k EXCEPT !.pc = "apply", !.trip = t, !.seen = s]
<1>2. j \in Tasks
  BY DEF Tasks
<1>3. Fits(j, trip')
  BY DEF Fits, OnTrip, RowsStay, Tasks, Active, Terminal
<1> HIDE DEF j
<1>4. Become(w, j)
  BY <1>1 DEF j
<1>5. QED
  BY <1>2, <1>3, <1>4, FitsStep, BecomeType DEF TypeInv

LEMMA SameRowsStay ==
  ASSUME TypeInv, trip' = trip
  PROVE  RowsStay
  BY DEF RowsStay, TypeInv, WellFormed

-----------------------------------------------------------------------------
(* One lemma per family of actions: they keep the layer of the types.      *)

LEMMA ReserveKeepsTypes ==
  ASSUME TypeInv, NEW w \in Workers
  PROVE  /\ \A u \in Users, r \in ReqIds :
              ReserveRetry(w, u, r) \/ ReserveDecide(w, u, r) => TypeInv'
         /\ \A t \in Trips : ReserveInsert(w, t) => TypeInv'
<1>1. ASSUME NEW u \in Users, NEW r \in ReqIds, ReserveRetry(w, u, r) PROVE TypeInv'
  <2>1. PICK t \in Trips : trip[t].user = u /\ BeginCreate(w, "submit", t, {})
    BY <1>1 DEF ReserveRetry, Owned
  <2>2. RowsStay /\ trip' = trip
    BY <1>1, SameRowsStay DEF ReserveRetry
  <2>3. trip'[t].status # "ABSENT"
    BY <2>1, <2>2, ConstantsAssumption DEF TypeInv, WellFormed
  <2>4. task' \in [Workers -> Tasks] /\ WellFormed' /\ calls' \in [Trips -> 0..2]
    BY <2>1, <2>2, <2>3, FitsBeginCreate
  <2>5. QED
    BY <1>1, <2>4 DEF ReserveRetry, TypeInv, TypeOK
<1>2. ASSUME NEW u \in Users, NEW r \in ReqIds, ReserveDecide(w, u, r) PROVE TypeInv'
  <2> DEFINE k == [Idle EXCEPT !.role = "submit", !.pc = "insert", !.user = u, !.req = r]
  <2>1. Become(w, k) /\ RowsStay
    BY <1>2, SameRowsStay DEF ReserveDecide
  <2>2. k \in Tasks /\ k.pc = "insert" /\ k.user = u /\ k.req = r /\ k.todo = {}
    BY IdleIsTask DEF Tasks, Idle
  <2> HIDE DEF k
  <2>3. Fits(k, trip')
    BY <2>2 DEF Fits, OnTrip
  <2>4. lock' \in [Users -> Workers \cup {Nobody}]
    BY <1>2 DEF ReserveDecide, LockUser, TypeInv, TypeOK
  <2>5. task' \in [Workers -> Tasks] /\ WellFormed'
    BY <2>1, <2>2, <2>3, FitsStep, BecomeType DEF TypeInv
  <2>6. QED
    BY <1>2, <2>4, <2>5 DEF ReserveDecide, TypeInv, TypeOK
<1>3. ASSUME NEW t \in Trips, ReserveInsert(w, t) PROVE TypeInv'
  <2>1. task[w] \in Tasks /\ task[w].user \in Users /\ task[w].req \in ReqIds
    BY <1>3 DEF ReserveInsert, At, TypeInv, TypeOK, WellFormed, Fits
  <2> DEFINE row == [NoTrip EXCEPT !.user = task[w].user, !.req = task[w].req,
                                   !.status = "SUBMITTING"]
  <2>2. row \in TripRows /\ row.status # "ABSENT"
    BY <2>1, NoTripIsRow DEF TripRows, Active
  <2>3. trip' = [trip EXCEPT ![t] = row]
    BY <1>3 DEF ReserveInsert
  <2> HIDE DEF row
  <2>4. trip' \in [Trips -> TripRows] /\ trip'[t].status # "ABSENT" /\ RowsStay
    BY <2>2, <2>3 DEF TypeInv, TypeOK, RowsStay, WellFormed
  <2>5. task' \in [Workers -> Tasks] /\ WellFormed' /\ calls' \in [Trips -> 0..2]
    BY <1>3, <2>4, FitsBeginCreate DEF ReserveInsert
  <2>6. /\ entry' \in [Trips -> {"NONE", "RESERVED", "CONSUMED", "RELEASED"}]
        /\ lock' \in [Users -> Workers \cup {Nobody}]
    BY <1>3 DEF ReserveInsert, UnlockUser, TypeInv, TypeOK
  <2>7. QED
    BY <1>3, <2>4, <2>5, <2>6 DEF ReserveInsert, TypeInv, TypeOK
<1>4. QED
  BY <1>1, <1>2, <1>3

LEMMA CreateKeepsTypes ==
  ASSUME TypeInv, NEW w \in Workers
  PROVE  \/ CreateAccepted(w) \/ CreateRefused(w) \/ CreateUnsent(w)
         \/ CreateUncertain(w) \/ CreateGarbled(w)
         => TypeInv'
<1> DEFINE t == task[w].trip
<1>1. task[w] \in Tasks /\ Fits(task[w], trip)
  BY DEF TypeInv, TypeOK, WellFormed
<1>2. At(w, "create") => t \in Trips /\ job[t] \in JobStates
  BY <1>1 DEF At, Fits, OnTrip, TypeInv, TypeOK
<1>3. Accept(t) => job' \in [Trips -> JobStates]
  BY DEF Accept, TypeInv, TypeOK, JobStates
<1>4. At(w, "create") => task[w].pc \in OnTrip
  BY DEF At, OnTrip
<1>5. ASSUME CreateAccepted(w) PROVE TypeInv'
  <2> DEFINE seen == IF job[t] = "RUNNING" THEN "RUNNING" ELSE "PENDING"
             k == [task[w] EXCEPT !.pc = "accepted", !.seen = seen]
  <2>1. Become(w, k) /\ RowsStay
    BY <1>5, SameRowsStay DEF CreateAccepted
  <2>2. seen \in {"PENDING", "RUNNING"}
    OBVIOUS
  <2> HIDE DEF seen
  <2>3. k \in Tasks /\ k.pc = "accepted" /\ k.seen = seen /\ k.trip = t /\ k.todo = task[w].todo
    BY <1>1, <2>2, ZenonT(30) DEF Tasks, Active
  <2> HIDE DEF k
  <2>4. trip' = trip /\ t \in Trips /\ trip[t].status # "ABSENT"
    BY <1>1, <1>5 DEF CreateAccepted, At, Fits, OnTrip
  <2>5. Fits(k, trip')
    BY <1>1, <2>2, <2>3, <2>4 DEF Fits
  <2>6. task' \in [Workers -> Tasks] /\ WellFormed'
    BY <2>1, <2>3, <2>5, FitsStep, BecomeType DEF TypeInv
  <2>7. QED
    BY <1>3, <1>5, <2>6 DEF CreateAccepted, TypeInv, TypeOK
<1>6. ASSUME CreateRefused(w) PROVE TypeInv'
  <2>1. RowsStay
    BY <1>6, SameRowsStay DEF CreateRefused
  <2>2. job' \in [Trips -> JobStates]
    BY <1>6 DEF CreateRefused, TypeInv, TypeOK, JobStates
  <2>3. task' \in [Workers -> Tasks] /\ WellFormed'
    BY <1>4, <1>6, <2>1, FitsFinish, FitsGoto DEF CreateRefused
  <2>4. QED
    BY <1>6, <2>2, <2>3 DEF CreateRefused, TypeInv, TypeOK
<1>7. ASSUME CreateUnsent(w) PROVE TypeInv'
  <2>1. RowsStay
    BY <1>7, SameRowsStay DEF CreateUnsent
  <2>2. task' \in [Workers -> Tasks] /\ WellFormed'
    BY <1>4, <1>7, <2>1, FitsAfterCreate DEF CreateUnsent
  <2>3. QED
    BY <1>7, <2>2 DEF CreateUnsent, TypeInv, TypeOK
<1>8. ASSUME CreateUncertain(w) PROVE TypeInv'
  <2>1. RowsStay
    BY <1>8, SameRowsStay DEF CreateUncertain
  <2>2. job' \in [Trips -> JobStates]
    BY <1>8 DEF CreateUncertain, TypeInv, TypeOK, JobStates
  <2>3. task' \in [Workers -> Tasks] /\ WellFormed'
    BY <1>4, <1>8, <2>1, FitsAfterCreate DEF CreateUncertain
  <2>4. QED
    BY <1>8, <2>2, <2>3 DEF CreateUncertain, TypeInv, TypeOK
<1>9. ASSUME CreateGarbled(w) PROVE TypeInv'
  <2>1. RowsStay
    BY <1>9, SameRowsStay DEF CreateGarbled
  <2>2. task' \in [Workers -> Tasks] /\ WellFormed'
    BY <1>4, <1>9, <2>1, FitsAfterCreate DEF CreateGarbled
  <2>3. QED
    BY <1>3, <1>9, <2>2 DEF CreateGarbled, TypeInv, TypeOK
<1>10. QED
  BY <1>5, <1>6, <1>7, <1>8, <1>9

\* Settling, advancing or binding a trip keeps types and rows.
LEMMA StatementTypes ==
  ASSUME TypeInv, NEW t \in Trips, trip[t].status # "ABSENT", NEW s,
         \/ s \in Terminal /\ Settle(t, s)
         \/ s \in Active /\ Advance(t, s)
         \/ s \in Active /\ Bind(t, s) /\ UNCHANGED entry
  PROVE  /\ trip' \in [Trips -> TripRows] /\ RowsStay
         /\ entry' \in [Trips -> {"NONE", "RESERVED", "CONSUMED", "RELEASED"}]
<1>1. trip' \in {trip, [trip EXCEPT ![t].status = s],
                 [trip EXCEPT ![t].bound = TRUE, ![t].status = s]}
  BY DEF Settle, Advance, Bind
<1>2. s \in Active \cup Terminal /\ s # "ABSENT"
  BY DEF Active, Terminal
<1>3. trip' \in [Trips -> TripRows]
  <2>1. [trip EXCEPT ![t].status = s] \in [Trips -> TripRows]
    BY <1>2, RowTypes DEF TypeInv
  <2>2. [trip EXCEPT ![t].bound = TRUE, ![t].status = s] \in [Trips -> TripRows]
    BY <1>2, RowTypes DEF TypeInv
  <2>3. QED
    BY <1>1, <2>1, <2>2 DEF TypeInv, TypeOK
<1>4. trip \in [Trips -> TripRows]
  BY DEF TypeInv, TypeOK
<1>5. \A x \in Trips : /\ trip'[x].user = trip[x].user
                       /\ trip'[x].status \in {trip[x].status, s}
  BY <1>1, <1>4 DEF TripRows
<1>6. RowsStay
  BY <1>2, <1>5 DEF RowsStay, TypeInv, WellFormed
<1>7. entry' \in [Trips -> {"NONE", "RESERVED", "CONSUMED", "RELEASED"}]
  BY DEF Settle, Advance, QuotaStatus, TypeInv, TypeOK
<1>8. QED
  BY <1>3, <1>6, <1>7

LEMMA OutcomeKeepsTypes ==
  ASSUME TypeInv, NEW w \in Workers,
         SaveAcceptance(w) \/ MarkUncertain(w) \/ SettleLocally(w) \/ ApplyStatus(w)
  PROVE  TypeInv'
<1> DEFINE t == task[w].trip
<1>1. task[w] \in Tasks /\ Fits(task[w], trip)
  BY DEF TypeInv, TypeOK, WellFormed
<1>2. task[w].pc \in OnTrip /\ t \in Trips /\ trip[t].status # "ABSENT"
  BY <1>1 DEF SaveAcceptance, MarkUncertain, SettleLocally, ApplyStatus, At, Fits, OnTrip
<1>3. CASE SaveAcceptance(w)
  <2>1. task[w].seen \in Active
    BY <1>1, <1>3 DEF SaveAcceptance, At, Fits, Active
  <2>2. trip' \in [Trips -> TripRows] /\ RowsStay
    BY <1>2, <1>3, <2>1, StatementTypes DEF SaveAcceptance
  <2>3. task' \in [Workers -> Tasks] /\ WellFormed'
    BY <1>2, <1>3, <2>2, FitsContinue DEF SaveAcceptance
  <2>4. QED
    BY <1>3, <2>2, <2>3 DEF SaveAcceptance, TypeInv, TypeOK
<1>4. CASE MarkUncertain(w)
  <2>1. trip' \in [Trips -> TripRows]
    BY <1>2, <1>4, RowTypes DEF MarkUncertain, TypeInv, TypeOK
  <2>2. RowsStay
    BY <1>2, <1>4 DEF MarkUncertain, Attempted, RowsStay, TypeInv, TypeOK, TripRows, WellFormed
  <2>3. task' \in [Workers -> Tasks] /\ WellFormed'
    BY <1>4, <2>2, FitsFinish DEF MarkUncertain
  <2>4. QED
    BY <1>4, <2>1, <2>3 DEF MarkUncertain, TypeInv, TypeOK
<1>5. CASE SettleLocally(w)
  <2>1. /\ trip' \in [Trips -> TripRows] /\ RowsStay
        /\ entry' \in [Trips -> {"NONE", "RESERVED", "CONSUMED", "RELEASED"}]
    BY <1>2, <1>5, StatementTypes DEF SettleLocally, Terminal
  <2>2. task' \in [Workers -> Tasks] /\ WellFormed'
    BY <1>5, <2>1, FitsFinish DEF SettleLocally
  <2>3. QED
    BY <1>5, <2>1, <2>2 DEF SettleLocally, TypeInv, TypeOK
<1>6. CASE ApplyStatus(w)
  <2> DEFINE s == task[w].seen
  <2>1. s \in Active \cup Terminal
    BY <1>1, <1>6 DEF ApplyStatus, At, Fits, Tasks
  <2>2. \/ UNCHANGED <<trip, entry>>
        \/ s \in Terminal /\ Settle(t, s)
        \/ s \in Active /\ Advance(t, s)
    BY <1>6, <2>1 DEF ApplyStatus
  <2>3. /\ trip' \in [Trips -> TripRows] /\ RowsStay
        /\ entry' \in [Trips -> {"NONE", "RESERVED", "CONSUMED", "RELEASED"}]
    BY <1>2, <2>2, StatementTypes, SameRowsStay DEF TypeInv, TypeOK
  <2>4. Finish(w) \/ Continue(w)
    BY <1>6 DEF ApplyStatus
  <2>5. task' \in [Workers -> Tasks] /\ WellFormed'
    BY <1>2, <2>3, <2>4, FitsFinish, FitsContinue
  <2>6. QED
    BY <1>6, <2>3, <2>5 DEF ApplyStatus, TypeInv, TypeOK
<1>7. QED
  BY <1>3, <1>4, <1>5, <1>6

LEMMA WatchKeepsTypes ==
  ASSUME TypeInv, NEW w \in Workers
  PROVE  /\ \A u \in Users, t \in Trips :
              FetchStatus(w, u, t) \/ StreamOpen(w, u, t) => TypeInv'
         /\ StreamEvent(w) => TypeInv'
<1>1. ASSUME NEW u \in Users, NEW t \in Trips, FetchStatus(w, u, t) PROVE TypeInv'
  <2> DEFINE k == [Idle EXCEPT !.role = "poll", !.user = u]
  <2>1. RowsStay /\ Observe(w, t, k, Reported(t))
    BY <1>1, SameRowsStay DEF FetchStatus
  <2>2. trip[t].status # "ABSENT"
    BY <1>1, ConstantsAssumption DEF FetchStatus, TypeInv, WellFormed
  <2>3. k \in Tasks /\ k.pc = "idle" /\ k.todo = {}
    BY IdleIsTask DEF Tasks, Idle
  <2> HIDE DEF k
  <2>4. Fits(k, trip)
    BY <2>3 DEF Fits, OnTrip
  <2>5. Reported(t) \ Unaccepted \subseteq Active \cup Terminal
    BY ObservedStatus DEF TypeInv
  <2>6. task' \in [Workers -> Tasks] /\ WellFormed'
    BY <2>1, <2>2, <2>3, <2>4, <2>5, FitsObserve
  <2>7. QED
    BY <1>1, <2>6 DEF FetchStatus, TypeInv, TypeOK
<1>2. ASSUME NEW u \in Users, NEW t \in Trips, StreamOpen(w, u, t) PROVE TypeInv'
  <2> DEFINE k == [Idle EXCEPT !.role = "stream", !.pc = "next", !.user = u, !.trip = t]
  <2>1. RowsStay /\ trip' = trip /\ Become(w, k)
    BY <1>2, SameRowsStay DEF StreamOpen
  <2>2. trip[t].status # "ABSENT"
    BY <1>2, ConstantsAssumption DEF StreamOpen, TypeInv, WellFormed
  <2>3. k \in Tasks /\ k.pc = "next" /\ k.trip = t /\ k.todo = {}
    BY IdleIsTask DEF Tasks, Idle
  <2> HIDE DEF k
  <2>4. Fits(k, trip')
    BY <2>1, <2>2, <2>3 DEF Fits, OnTrip
  <2>5. task' \in [Workers -> Tasks] /\ WellFormed'
    BY <2>1, <2>3, <2>4, FitsStep, BecomeType DEF TypeInv
  <2>6. QED
    BY <1>2, <2>5 DEF StreamOpen, TypeInv, TypeOK
<1>3. ASSUME StreamEvent(w) PROVE TypeInv'
  <2> DEFINE t == task[w].trip
  <2>1. task[w] \in Tasks /\ Fits(task[w], trip)
    BY DEF TypeInv, TypeOK, WellFormed
  <2>2. RowsStay /\ t \in Trips /\ trip[t].status # "ABSENT"
    BY <1>3, <2>1, SameRowsStay DEF StreamEvent, At, Fits
  <2>3. Streamed(t) \ Unaccepted \subseteq Active \cup Terminal
    BY <2>2, ObservedStatus DEF TypeInv
  <2>4. task' \in [Workers -> Tasks] /\ WellFormed'
    BY <1>3, <2>1, <2>2, <2>3, FitsObserve DEF StreamEvent
  <2>5. QED
    BY <1>3, <2>4 DEF StreamEvent, TypeInv, TypeOK
<1>4. QED
  BY <1>1, <1>2, <1>3

LEMMA ReconcileKeepsTypes ==
  ASSUME TypeInv, NEW w \in Workers
  PROVE  /\ \A batch \in SUBSET Trips : ReconcileClaim(w, batch) => TypeInv'
         /\ \A t \in Trips, bound \in BOOLEAN : ReconcileItem(w, t, bound) => TypeInv'
<1>1. ASSUME NEW batch \in SUBSET Trips, ReconcileClaim(w, batch) PROVE TypeInv'
  <2> DEFINE todo == {<<t, trip[t].bound>> : t \in batch}
             k == [Idle EXCEPT !.role = "batch", !.pc = "next", !.todo = todo]
  <2>1. trip \in [Trips -> TripRows]
    BY DEF TypeInv, TypeOK
  <2>2. ASSUME NEW t \in batch
        PROVE  [trip[t] EXCEPT !.attempts = @ + 1] \in TripRows
    BY <1>1, <2>1, <2>2, ConstantsAssumption DEF ReconcileClaim, Claimable, TripRows
  <2>3. trip' \in [Trips -> TripRows]
    BY <1>1, <2>1, <2>2 DEF ReconcileClaim
  <2>4. \A t \in Trips : trip'[t].user = trip[t].user /\ trip'[t].status = trip[t].status
    BY <1>1, <2>1 DEF ReconcileClaim, TripRows
  <2>5. RowsStay
    BY <2>4 DEF RowsStay, TypeInv, WellFormed
  <2>6. todo \in SUBSET (Trips \X BOOLEAN)
    BY <2>1 DEF TripRows
  <2>7. ASSUME NEW t \in Trips, NEW b \in BOOLEAN, <<t, b>> \in todo
        PROVE  trip'[t].status # "ABSENT"
    BY <1>1, <2>4, <2>7 DEF ReconcileClaim, Claimable, Active
  <2>8. Become(w, k)
    BY <1>1 DEF ReconcileClaim
  <2> HIDE DEF todo
  <2>9. k \in Tasks /\ k.pc = "next" /\ k.role = "batch" /\ k.todo = todo
    BY <2>6, IdleIsTask, ZenonT(30) DEF Tasks
  <2> HIDE DEF k
  <2>10. Fits(k, trip')
    BY <2>7, <2>9 DEF Fits, OnTrip
  <2>11. task' \in [Workers -> Tasks] /\ WellFormed'
    BY <2>5, <2>8, <2>9, <2>10, FitsStep, BecomeType DEF TypeInv
  <2>12. QED
    BY <1>1, <2>3, <2>11 DEF ReconcileClaim, TypeInv, TypeOK
<1>2. ASSUME NEW t \in Trips, NEW bound \in BOOLEAN, ReconcileItem(w, t, bound)
      PROVE  TypeInv'
  <2> DEFINE todo == task[w].todo \ {<<t, bound>>}
             k == [task[w] EXCEPT !.todo = todo]
  <2>1. task[w] \in Tasks /\ Fits(task[w], trip) /\ task[w].pc = "next"
    BY <1>2 DEF ReconcileItem, At, TypeInv, TypeOK, WellFormed
  <2>2. RowsStay /\ trip' = trip /\ trip[t].status # "ABSENT"
    BY <1>2, <2>1, SameRowsStay DEF ReconcileItem, Fits
  <2>3. todo \in SUBSET (Trips \X BOOLEAN)
    BY <2>1 DEF Tasks
  <2>4. \A s \in Trips, b \in BOOLEAN : <<s, b>> \in todo => trip[s].status # "ABSENT"
    BY <2>1 DEF Fits
  <2>5. k \in Tasks /\ k.pc = "next" /\ k.role = task[w].role /\ k.trip = task[w].trip /\ k.todo = todo
    BY <2>1, <2>3 DEF Tasks
  <2>6. \/ BeginCreate(w, "batch", t, k.todo)
        \/ Observe(w, t, k, Reported(t)) /\ UNCHANGED calls
        \/ (Become(w, Idle) \/ Become(w, k)) /\ UNCHANGED calls
    BY <1>2 DEF ReconcileItem
  <2> HIDE DEF todo, k
  <2>7. Fits(k, trip)
    BY <2>1, <2>4, <2>5 DEF Fits, OnTrip
  <2>8. Reported(t) \ Unaccepted \subseteq Active \cup Terminal
    BY ObservedStatus DEF TypeInv
  <2>9. calls \in [Trips -> 0..2]
    BY DEF TypeInv, TypeOK
  <2>10. task' \in [Workers -> Tasks] /\ WellFormed' /\ calls' \in [Trips -> 0..2]
    <3>1. CASE BeginCreate(w, "batch", t, k.todo)
      BY <2>2, <2>3, <2>4, <2>5, <3>1, FitsBeginCreate
    <3>2. CASE Observe(w, t, k, Reported(t)) /\ UNCHANGED calls
      BY <2>2, <2>5, <2>7, <2>8, <2>9, <3>2, FitsObserve
    <3>3. CASE Become(w, Idle) /\ UNCHANGED calls
      BY <2>2, <2>9, <3>3, FitsFinish DEF Finish
    <3>4. CASE Become(w, k) /\ UNCHANGED calls
      BY <2>2, <2>5, <2>7, <2>9, <3>4, FitsStep, BecomeType DEF TypeInv
    <3>5. QED
      BY <2>6, <3>1, <3>2, <3>3, <3>4
  <2>11. QED
    BY <1>2, <2>10 DEF ReconcileItem, TypeInv, TypeOK
<1>3. QED
  BY <1>1, <1>2

LEMMA DieKeepsTypes ==
  ASSUME TypeInv, NEW w \in Workers, Die(w)
  PROVE  TypeInv'
<1>1. RowsStay
  BY SameRowsStay DEF Die
<1>2. task' \in [Workers -> Tasks] /\ WellFormed'
  BY <1>1, FitsFinish DEF Die
<1>3. lock' \in [Users -> Workers \cup {Nobody}] /\ job' \in [Trips -> JobStates]
  BY DEF Die, TypeInv, TypeOK, JobStates
<1>4. QED
  BY <1>2, <1>3 DEF Die, TypeInv, TypeOK

LEMMA AdjustKeepsTypes ==
  ASSUME TypeInv, NEW w \in Workers
  PROVE  /\ \A u \in Users, d \in Deltas : AdjustDecide(w, u, d) => TypeInv'
         /\ AdjustInsert(w) => TypeInv'
<1>1. ASSUME NEW u \in Users, NEW d \in Deltas, AdjustDecide(w, u, d) PROVE TypeInv'
  <2> DEFINE k == [Idle EXCEPT !.role = "admin", !.pc = "adjust", !.user = u, !.delta = d]
  <2>1. RowsStay /\ Become(w, k)
    BY <1>1, SameRowsStay DEF AdjustDecide
  <2>2. k \in Tasks /\ k.pc = "adjust" /\ k.user = u /\ k.todo = {}
    BY IdleIsTask DEF Tasks, Idle
  <2> HIDE DEF k
  <2>3. Fits(k, trip')
    BY <2>2 DEF Fits, OnTrip
  <2>4. task' \in [Workers -> Tasks] /\ WellFormed'
    BY <2>1, <2>2, <2>3, FitsStep, BecomeType DEF TypeInv
  <2>5. lock' \in [Users -> Workers \cup {Nobody}]
    BY <1>1 DEF AdjustDecide, LockUser, TypeInv, TypeOK
  <2>6. QED
    BY <1>1, <2>4, <2>5 DEF AdjustDecide, TypeInv, TypeOK
<1>2. ASSUME AdjustInsert(w) PROVE TypeInv'
  <2>1. RowsStay
    BY <1>2, SameRowsStay DEF AdjustInsert
  <2>2. task' \in [Workers -> Tasks] /\ WellFormed'
    BY <1>2, <2>1, FitsFinish DEF AdjustInsert
  <2>3. task[w].delta \in Int
    <3>1. task[w] \in Tasks
      BY DEF TypeInv, TypeOK
    <3>2. task[w].delta \in Deltas \cup {0}
      BY <3>1 DEF Tasks
    <3>3. QED
      BY <3>2, DeltasAreInts
  <2>4. limit' \in [Users -> Int]
    <3>1. limit \in [Users -> Int] /\ task[w].user \in Users
      BY <1>2 DEF AdjustInsert, At, TypeInv, TypeOK, WellFormed, Fits
    <3>2. limit[task[w].user] + task[w].delta \in Int
      BY <2>3, <3>1
    <3>3. QED
      BY <1>2, <3>1, <3>2, ExceptRange DEF AdjustInsert
  <2>5. lock' \in [Users -> Workers \cup {Nobody}]
    BY <1>2 DEF AdjustInsert, UnlockUser, TypeInv, TypeOK
  <2>6. QED
    BY <1>2, <2>2, <2>4, <2>5 DEF AdjustInsert, TypeInv, TypeOK
<1>3. QED
  BY <1>1, <1>2

LEMMA OthersKeepTypes ==
  ASSUME TypeInv
  PROVE  /\ \A u \in Users, status \in {"ACTIVE", "DISABLED"} : SetStatus(u, status) => TypeInv'
         /\ \A u \in Users : CloseAccount(u) => TypeInv'
         /\ \A t \in Trips, next \in JobStates : HermesStep(t, next) => TypeInv'
<1>1. ASSUME NEW u \in Users, NEW status \in {"ACTIVE", "DISABLED"}, SetStatus(u, status)
      PROVE  TypeInv'
  BY <1>1 DEF SetStatus, TypeInv, TypeOK, WellFormed
<1>2. ASSUME NEW u \in Users, CloseAccount(u) PROVE TypeInv'
  <2>1. trip \in [Trips -> TripRows] /\ task' = task
    BY <1>2 DEF CloseAccount, TypeInv, TypeOK
  <2>2. ASSUME NEW t \in Trips
        PROVE  [trip[t] EXCEPT !.user = Nobody, !.req = Nobody] \in TripRows
    BY <2>1 DEF TripRows
  <2>3. trip' \in [Trips -> TripRows]
    BY <1>2, <2>1, <2>2 DEF CloseAccount
  <2>4. ASSUME NEW t \in Trips
        PROVE  /\ trip'[t].status = trip[t].status
               /\ trip'[t].user \in {trip[t].user, Nobody}
    <3>1. trip[t] \in TripRows
      BY <2>1
    <3>2. trip'[t] \in {trip[t], [trip[t] EXCEPT !.user = Nobody, !.req = Nobody]}
      BY <1>2 DEF CloseAccount
    <3>3. QED
      BY <3>1, <3>2 DEF TripRows
  <2>5. RowsStay
    BY <2>4 DEF RowsStay, TypeInv, WellFormed
  <2>6. \A w \in Workers : task[w] \in Tasks /\ Fits(task[w], trip)
    BY DEF TypeInv, TypeOK, WellFormed
  <2>7. WellFormed'
    BY <2>1, <2>5, <2>6, FitsStays DEF WellFormed, RowsStay
  <2>8. /\ account' \in [Users -> {"ACTIVE", "DISABLED", "CLOSED"}]
        /\ entry' \in [Trips -> {"NONE", "RESERVED", "CONSUMED", "RELEASED"}]
    BY <1>2 DEF CloseAccount, TypeInv, TypeOK
  <2>9. limit' \in [Users -> Int]
    <3>1. limit \in [Users -> Int] /\ 0 \in Int
      BY DEF TypeInv, TypeOK
    <3>2. QED
      BY <1>2, <3>1, ExceptRange DEF CloseAccount
  <2>10. QED
    BY <1>2, <2>3, <2>7, <2>8, <2>9 DEF CloseAccount, TypeInv, TypeOK
<1>3. ASSUME NEW t \in Trips, NEW next \in JobStates, HermesStep(t, next) PROVE TypeInv'
  BY <1>3 DEF HermesStep, TypeInv, TypeOK, WellFormed
<1>4. QED
  BY <1>1, <1>2, <1>3

LEMMA InitTypes == Init => TypeInv
<1> SUFFICES ASSUME Init PROVE TypeInv
  OBVIOUS
<1>1. TypeOK
  BY ConstantsAssumption, NoTripIsRow, IdleIsTask DEF Init, TypeOK, JobStates
<1>2. WellFormed
  BY DEF Init, WellFormed, Fits, Idle, NoTrip, OnTrip
<1>3. QED
  BY <1>1, <1>2 DEF TypeInv

LEMMA WorkerKeepsTypes ==
  ASSUME TypeInv, NEW w \in Workers, Worker(w)
  PROVE  TypeInv'
  BY ReserveKeepsTypes, CreateKeepsTypes, OutcomeKeepsTypes, WatchKeepsTypes,
     ReconcileKeepsTypes, DieKeepsTypes, AdjustKeepsTypes
  DEF Worker

LEMMA StepKeepsTypes == TypeInv /\ [Next]_vars => TypeInv'
<1> SUFFICES ASSUME TypeInv, [Next]_vars PROVE TypeInv'
  OBVIOUS
<1>1. CASE Next
  BY <1>1, WorkerKeepsTypes, OthersKeepTypes DEF Next
<1>2. CASE UNCHANGED vars
  BY <1>2 DEF vars, TypeInv, TypeOK, WellFormed
<1>3. QED
  BY <1>1, <1>2

\* Rows, entries, locks and the locals of every task keep their types,
\* whatever requests, streams, reconciler passes and crashes interleave.
THEOREM TypeCorrect == Spec => []TypeOK
<1>1. Spec => []TypeInv
  BY InitTypes, StepKeepsTypes, PTL DEF Spec
<1>2. TypeInv => TypeOK
  BY DEF TypeInv
<1>3. QED
  BY <1>1, <1>2, PTL

-----------------------------------------------------------------------------
(* The ledger layer.  Every step is quiet, settles one trip, or is one of  *)
(* the three actions that write the ledger under the lock of a user.       *)

LedgerInv ==
  /\ TypeInv
  /\ EntryFollowsTrip
  /\ DecisionStands
  /\ OneTripEach
  /\ NeverOverdrawn

\* Nothing the balance or the one-trip rules depend on changes, and only the
\* status of a user nobody has locked does.
Quiet ==
  /\ \A t \in Trips :
       /\ trip'[t].user = trip[t].user /\ trip'[t].req = trip[t].req
       /\ \/ trip'[t].status = trip[t].status
          \/ trip[t].status \in Active /\ trip'[t].status \in Active
  /\ entry' = entry /\ limit' = limit
  /\ \A u \in Users :
       /\ account'[u] = "CLOSED" <=> account[u] = "CLOSED"
       /\ lock[u] # Nobody => account'[u] = account[u]

Settles(t, s) ==
  /\ trip[t].status \in Active /\ s \in Terminal
  /\ trip' = [trip EXCEPT ![t].status = s]
  /\ entry' = [entry EXCEPT ![t] = QuotaStatus(s)]
  /\ UNCHANGED <<account, limit>>

LEMMA UnchangedIsQuiet ==
  ASSUME UNCHANGED <<account, limit, trip, entry>>
  PROVE  Quiet
  BY DEF Quiet

\* An existing trip that has not ended is active, and its entry is RESERVED,
\* so Settle never meets an entry it cannot settle.
LEMMA SettleKind ==
  ASSUME TypeInv, EntryFollowsTrip, NEW t \in Trips, trip[t].status # "ABSENT",
         NEW s \in Terminal, Settle(t, s), UNCHANGED <<account, limit>>
  PROVE  Quiet \/ Settles(t, s)
<1>1. trip[t].status \in Active \cup Terminal
  BY DEF TypeInv, TypeOK, TripRows
<1>2. CASE trip[t].status \in Terminal
  BY <1>2, UnchangedIsQuiet DEF Settle
<1>3. CASE trip[t].status \in Active
  BY <1>3, UnchangedIsQuiet DEF Settle, Settles
<1>4. QED
  BY <1>1, <1>2, <1>3

LEMMA AdvanceKind ==
  ASSUME TypeInv, NEW t \in Trips, trip[t].status # "ABSENT", NEW s \in Active,
         Advance(t, s) \/ (Bind(t, s) /\ UNCHANGED entry), UNCHANGED <<account, limit>>
  PROVE  Quiet
<1>1. trip \in [Trips -> TripRows] /\ trip[t].status \in Active \cup Terminal
  BY DEF TypeInv, TypeOK, TripRows
<1>2. trip' \in {trip, [trip EXCEPT ![t].status = s],
                 [trip EXCEPT ![t].bound = TRUE, ![t].status = s]}
  BY DEF Advance, Bind
<1>3. CASE trip[t].status \in Terminal
  BY <1>3, UnchangedIsQuiet DEF Advance, Bind
<1>4. CASE trip[t].status \in Active
  <2>1. ASSUME NEW x \in Trips
        PROVE  /\ trip'[x].user = trip[x].user /\ trip'[x].req = trip[x].req
               /\ \/ trip'[x].status = trip[x].status
                  \/ trip[x].status \in Active /\ trip'[x].status \in Active
    BY <1>1, <1>2, <1>4 DEF TripRows
  <2>2. QED
    BY <2>1 DEF Quiet, Advance
<1>5. QED
  BY <1>1, <1>3, <1>4

LEMMA WorkerKinds ==
  ASSUME TypeInv, EntryFollowsTrip, NEW w \in Workers, Worker(w)
  PROVE  \/ Quiet \/ \E t \in Trips, s \in Terminal : Settles(t, s)
         \/ \E t \in Trips : ReserveInsert(w, t)
         \/ AdjustInsert(w)
<1> DEFINE t == task[w].trip
<1>1. task[w] \in Tasks /\ Fits(task[w], trip)
  BY DEF TypeInv, TypeOK, WellFormed
<1>2. \A u \in Users, r \in ReqIds : ReserveRetry(w, u, r) \/ ReserveDecide(w, u, r) => Quiet
  BY UnchangedIsQuiet DEF ReserveRetry, ReserveDecide
<1>3. \/ CreateAccepted(w) \/ CreateRefused(w) \/ CreateUnsent(w)
      \/ CreateUncertain(w) \/ CreateGarbled(w) \/ StreamEvent(w) \/ Die(w)
      => Quiet
  BY UnchangedIsQuiet
  DEF CreateAccepted, CreateRefused, CreateUnsent, CreateUncertain, CreateGarbled,
      StreamEvent, Die
<1>4. SaveAcceptance(w) => Quiet
  <2> SUFFICES ASSUME SaveAcceptance(w) PROVE Quiet
    OBVIOUS
  <2>1. t \in Trips /\ trip[t].status # "ABSENT" /\ task[w].seen \in Active
    BY <1>1 DEF SaveAcceptance, At, Fits, OnTrip, Active
  <2>2. QED
    BY <2>1, AdvanceKind DEF SaveAcceptance
<1>5. MarkUncertain(w) => Quiet
  <2> SUFFICES ASSUME MarkUncertain(w) PROVE Quiet
    OBVIOUS
  <2>1. trip \in [Trips -> TripRows]
    BY DEF TypeInv, TypeOK
  <2>2. ASSUME NEW x \in Trips
        PROVE  /\ trip'[x].user = trip[x].user /\ trip'[x].req = trip[x].req
               /\ trip'[x].status = trip[x].status
    BY <2>1 DEF MarkUncertain, Attempted, TripRows
  <2>3. QED
    BY <2>2 DEF Quiet, MarkUncertain
<1>6. SettleLocally(w) => Quiet \/ \E x \in Trips, s \in Terminal : Settles(x, s)
  <2> SUFFICES ASSUME SettleLocally(w)
               PROVE  Quiet \/ \E x \in Trips, s \in Terminal : Settles(x, s)
    OBVIOUS
  <2>1. t \in Trips /\ trip[t].status # "ABSENT"
    BY <1>1 DEF SettleLocally, At, Fits, OnTrip
  <2>2. \E s \in Terminal : Settle(t, s)
    BY DEF SettleLocally, Terminal
  <2>3. QED
    BY <2>1, <2>2, SettleKind DEF SettleLocally
<1>7. \A u \in Users, x \in Trips : FetchStatus(w, u, x) \/ StreamOpen(w, u, x) => Quiet
  BY UnchangedIsQuiet DEF FetchStatus, StreamOpen
<1>8. ApplyStatus(w) => Quiet \/ \E x \in Trips, s \in Terminal : Settles(x, s)
  <2> SUFFICES ASSUME ApplyStatus(w)
               PROVE  Quiet \/ \E x \in Trips, s \in Terminal : Settles(x, s)
    OBVIOUS
  <2> DEFINE s == task[w].seen
  <2>1. t \in Trips /\ trip[t].status # "ABSENT" /\ s \in Active \cup Terminal
    BY <1>1 DEF ApplyStatus, At, Fits, OnTrip, Tasks
  <2>2. UNCHANGED <<account, limit>>
    BY DEF ApplyStatus
  <2>3. \/ UNCHANGED <<trip, entry>>
        \/ s \in Terminal /\ Settle(t, s)
        \/ s \in Active /\ Advance(t, s)
    BY <2>1 DEF ApplyStatus
  <2>4. QED
    BY <2>1, <2>2, <2>3, UnchangedIsQuiet, SettleKind, AdvanceKind
<1>9. \A batch \in SUBSET Trips : ReconcileClaim(w, batch) => Quiet
  <2> SUFFICES ASSUME NEW batch \in SUBSET Trips, ReconcileClaim(w, batch) PROVE Quiet
    OBVIOUS
  <2>1. trip \in [Trips -> TripRows]
    BY DEF TypeInv, TypeOK
  <2>2. ASSUME NEW x \in Trips
        PROVE  /\ trip'[x].user = trip[x].user /\ trip'[x].req = trip[x].req
               /\ trip'[x].status = trip[x].status
    BY <2>1 DEF ReconcileClaim, TripRows
  <2>3. QED
    BY <2>2 DEF Quiet, ReconcileClaim
<1>10. \A x \in Trips, bound \in BOOLEAN : ReconcileItem(w, x, bound) => Quiet
  BY UnchangedIsQuiet DEF ReconcileItem
<1>11. \A u \in Users, d \in Deltas : AdjustDecide(w, u, d) => Quiet
  BY UnchangedIsQuiet DEF AdjustDecide
<1>12. QED
  BY <1>2, <1>3, <1>4, <1>5, <1>6, <1>7, <1>8, <1>9, <1>10, <1>11 DEF Worker

\* What a step does to the ledger.
LEMMA StepKinds ==
  ASSUME TypeInv, EntryFollowsTrip, [Next]_vars
  PROVE  \/ Quiet \/ \E t \in Trips, s \in Terminal : Settles(t, s)
         \/ \E w \in Workers, t \in Trips : ReserveInsert(w, t)
         \/ \E w \in Workers : AdjustInsert(w)
         \/ \E u \in Users : CloseAccount(u)
<1>1. \A u \in Users, status \in {"ACTIVE", "DISABLED"} : SetStatus(u, status) => Quiet
  BY DEF SetStatus, Quiet, TypeInv, TypeOK
<1>2. \A t \in Trips, next \in JobStates : HermesStep(t, next) => Quiet
  BY UnchangedIsQuiet DEF HermesStep
<1>3. UNCHANGED vars => Quiet
  BY UnchangedIsQuiet DEF vars
<1>4. QED
  BY <1>1, <1>2, <1>3, WorkerKinds DEF Next

\* The row ReserveInsert writes, and what it decided before.
LEMMA InsertFacts ==
  ASSUME TypeInv, EntryFollowsTrip, DecisionStands,
         NEW w \in Workers, NEW t \in Trips, ReserveInsert(w, t)
  PROVE  /\ task[w].user \in Users /\ task[w].req \in ReqIds
         /\ lock[task[w].user] = w /\ account[task[w].user] # "CLOSED"
         /\ trip[t].user = Nobody /\ entry[t] = "NONE"
         /\ trip'[t].user = task[w].user /\ trip'[t].req = task[w].req
         /\ trip'[t].status = "SUBMITTING" /\ entry'[t] = "RESERVED"
         /\ \A s \in Trips : s # t => trip'[s] = trip[s] /\ entry'[s] = entry[s]
         /\ UNCHANGED <<account, limit>>
<1>1. task[w].pc = "insert"
  BY DEF ReserveInsert, At
<1>2. task[w].user \in Users /\ task[w].req \in ReqIds
  BY <1>1 DEF TypeInv, WellFormed, Fits
<1>3. lock[task[w].user] = w /\ account[task[w].user] # "CLOSED"
  BY <1>1 DEF DecisionStands
<1>4. trip[t].user = Nobody /\ entry[t] = "NONE"
  BY DEF ReserveInsert, EntryFollowsTrip
<1>5. trip' = [trip EXCEPT ![t] = [NoTrip EXCEPT !.user = task[w].user,
                                      !.req = task[w].req, !.status = "SUBMITTING"]]
  BY DEF ReserveInsert
<1>6. NoTrip \in TripRows /\ trip \in [Trips -> TripRows]
  BY NoTripIsRow DEF TypeInv, TypeOK
<1>7. /\ trip'[t].user = task[w].user /\ trip'[t].req = task[w].req
      /\ trip'[t].status = "SUBMITTING"
      /\ \A s \in Trips : s # t => trip'[s] = trip[s]
  BY <1>5, <1>6 DEF TripRows
<1>8. entry'[t] = "RESERVED" /\ \A s \in Trips : s # t => entry'[s] = entry[s]
  BY DEF ReserveInsert, TypeInv, TypeOK
<1>9. QED
  BY <1>2, <1>3, <1>4, <1>7, <1>8 DEF ReserveInsert

LEMMA SettleFacts ==
  ASSUME TypeInv, NEW t \in Trips, NEW s \in Terminal, Settles(t, s)
  PROVE  /\ trip'[t].user = trip[t].user /\ trip'[t].req = trip[t].req
         /\ trip'[t].status = s /\ entry'[t] = QuotaStatus(s)
         /\ \A x \in Trips : x # t => trip'[x] = trip[x] /\ entry'[x] = entry[x]
  BY DEF Settles, TypeInv, TypeOK, TripRows

LEMMA CloseFacts ==
  ASSUME TypeInv, NEW u \in Users, CloseAccount(u)
  PROVE  /\ lock[u] = Nobody /\ limit'[u] = 0
         /\ \A v \in Users : v # u => account'[v] = account[v] /\ limit'[v] = limit[v]
         /\ \A t \in Trips : /\ trip'[t].status = trip[t].status
                             /\ trip[t].user # u => trip'[t] = trip[t] /\ entry'[t] = entry[t]
                             /\ trip[t].user = u => /\ trip'[t].user = Nobody
                                                    /\ entry'[t] = "NONE"
                                                    /\ trip[t].status \notin Active
<1>1. ASSUME NEW t \in Trips
      PROVE  /\ trip'[t].status = trip[t].status
             /\ trip[t].user # u => trip'[t] = trip[t] /\ entry'[t] = entry[t]
             /\ trip[t].user = u => /\ trip'[t].user = Nobody
                                    /\ entry'[t] = "NONE"
                                    /\ trip[t].status \notin Active
  <2>1. trip[t] \in TripRows
    BY DEF TypeInv, TypeOK
  <2>2. CASE trip[t].user = u
    <3>1. trip'[t] = [trip[t] EXCEPT !.user = Nobody, !.req = Nobody] /\ entry'[t] = "NONE"
      BY <2>2 DEF CloseAccount
    <3>2. trip[t].status \notin Active
      BY <2>2 DEF CloseAccount, Owned, RefusesClosure
    <3>3. QED
      BY <2>1, <2>2, <3>1, <3>2 DEF TripRows
  <2>3. CASE trip[t].user # u
    BY <2>3 DEF CloseAccount
  <2>4. QED
    BY <2>2, <2>3
<1>2. QED
  BY <1>1 DEF CloseAccount, TypeInv, TypeOK

LEMMA StatusKinds ==
  /\ Active \cap Terminal = {} /\ "ABSENT" \notin Active \cup Terminal
  /\ \A s \in Terminal : QuotaStatus(s) \in {"CONSUMED", "RELEASED"}
  BY DEF Active, Terminal, QuotaStatus

LEMMA EntryStep ==
  ASSUME TypeInv, EntryFollowsTrip, DecisionStands, [Next]_vars
  PROVE  EntryFollowsTrip'
<1> SUFFICES ASSUME NEW x \in Trips
             PROVE  LET row == trip'[x] IN
                    /\ entry'[x] = "RESERVED" <=> row.status \in Active
                    /\ row.status \in Active => row.user # Nobody
                    /\ row.user = Nobody => entry'[x] = "NONE"
                    /\ row.user # Nobody /\ row.status \in Terminal =>
                         entry'[x] = QuotaStatus(row.status)
                    /\ row.user # Nobody => /\ account'[row.user] # "CLOSED"
                                            /\ row.status # "ABSENT"
  BY DEF EntryFollowsTrip, QuotaStatus, Active, Terminal
<1>1. /\ entry[x] = "RESERVED" <=> trip[x].status \in Active
      /\ trip[x].status \in Active => trip[x].user # Nobody
      /\ trip[x].user = Nobody => entry[x] = "NONE"
      /\ trip[x].user # Nobody /\ trip[x].status \in Terminal =>
           entry[x] = QuotaStatus(trip[x].status)
      /\ trip[x].user # Nobody => account[trip[x].user] # "CLOSED" /\ trip[x].status # "ABSENT"
  BY DEF EntryFollowsTrip
<1>2. trip[x].user \in Users \cup {Nobody}
  BY DEF TypeInv, TypeOK, TripRows
<1>3. CASE Quiet
  BY <1>1, <1>2, <1>3, StatusKinds DEF Quiet
<1>4. ASSUME NEW t \in Trips, NEW s \in Terminal, Settles(t, s)
      PROVE  /\ trip'[x].user = trip[x].user /\ account' = account
             /\ x = t => /\ trip'[x].status = s /\ entry'[x] = QuotaStatus(s)
                         /\ trip[x].status \in Active
             /\ x # t => trip'[x] = trip[x] /\ entry'[x] = entry[x]
  BY <1>4, SettleFacts DEF Settles
<1>5. CASE \E t \in Trips, s \in Terminal : Settles(t, s)
  BY <1>1, <1>4, <1>5, StatusKinds
<1>6. CASE \E w \in Workers, t \in Trips : ReserveInsert(w, t)
  <2>1. PICK w \in Workers, t \in Trips : ReserveInsert(w, t)
    BY <1>6
  <2>2. CASE x = t
    <3>1. /\ trip'[x].user \in Users /\ trip'[x].status = "SUBMITTING"
          /\ entry'[x] = "RESERVED" /\ account'[trip'[x].user] # "CLOSED"
      BY <2>1, <2>2, InsertFacts
    <3>2. QED
      BY <3>1, ConstantsAssumption DEF Active, Terminal
  <2>3. CASE x # t
    <3>1. trip'[x] = trip[x] /\ entry'[x] = entry[x] /\ account' = account
      BY <2>1, <2>3, InsertFacts
    <3>2. QED
      BY <1>1, <3>1
  <2>4. QED
    BY <2>2, <2>3
<1>7. CASE \E w \in Workers : AdjustInsert(w)
  BY <1>1, <1>7 DEF AdjustInsert
<1>8. CASE \E u \in Users : CloseAccount(u)
  <2>1. PICK u \in Users : CloseAccount(u)
    BY <1>8
  <2>2. CASE trip[x].user = u
    BY <1>1, <2>1, <2>2, CloseFacts
  <2>3. CASE trip[x].user # u
    BY <1>1, <1>2, <2>1, <2>3, CloseFacts
  <2>4. QED
    BY <2>2, <2>3
<1>9. QED
  BY <1>3, <1>5, <1>6, <1>7, <1>8, StepKinds

\* The two unique indexes of user_trip.
LEMMA OneTripStep ==
  ASSUME TypeInv, EntryFollowsTrip, DecisionStands, OneTripEach, [Next]_vars
  PROVE  OneTripEach'
<1> SUFFICES ASSUME NEW x \in Trips, NEW y \in Trips,
                    x # y, trip'[x].user = trip'[y].user, trip'[x].user # Nobody
             PROVE  /\ ~(trip'[x].status \in Active /\ trip'[y].status \in Active)
                    /\ trip'[x].req # trip'[y].req
  BY DEF OneTripEach, Active
<1>1. trip[x].user = trip[y].user /\ trip[x].user # Nobody =>
        /\ ~(trip[x].status \in Active /\ trip[y].status \in Active)
        /\ trip[x].req # trip[y].req
  BY DEF OneTripEach
<1>2. CASE Quiet
  <2>1. ASSUME NEW z \in Trips
        PROVE  /\ trip'[z].user = trip[z].user /\ trip'[z].req = trip[z].req
               /\ trip'[z].status \in Active => trip[z].status \in Active
    BY <1>2 DEF Quiet
  <2>2. QED
    BY <1>1, <2>1
<1>3. CASE \E t \in Trips, s \in Terminal : Settles(t, s)
  <2>1. ASSUME NEW z \in Trips
        PROVE  /\ trip'[z].user = trip[z].user /\ trip'[z].req = trip[z].req
               /\ trip'[z].status \in Active => trip[z].status \in Active
    BY <1>3, SettleFacts, StatusKinds
  <2>2. QED
    BY <1>1, <2>1
<1>4. CASE \E w \in Workers, t \in Trips : ReserveInsert(w, t)
  <2>1. PICK w \in Workers, t \in Trips : ReserveInsert(w, t)
    BY <1>4
  <2>2. task[w].pc = "insert"
    BY <2>1 DEF ReserveInsert, At
  <2>3. \A z \in Trips : trip[z].user = task[w].user =>
          trip[z].req # task[w].req /\ trip[z].status \notin Active
    BY <2>2 DEF DecisionStands, Owned
  <2>4. \A z \in Trips : z # t => trip'[z] = trip[z]
    BY <2>1, InsertFacts
  <2>5. trip'[t].user = task[w].user /\ trip'[t].req = task[w].req
    BY <2>1, InsertFacts
  <2>6. QED
    BY <1>1, <2>3, <2>4, <2>5
<1>5. CASE \E w \in Workers : AdjustInsert(w)
  BY <1>1, <1>5 DEF AdjustInsert
<1>6. CASE \E u \in Users : CloseAccount(u)
  <2>1. PICK u \in Users : CloseAccount(u)
    BY <1>6
  <2>2. \A z \in Trips : trip'[z].user # Nobody => trip'[z] = trip[z]
    BY <2>1, CloseFacts
  <2>3. QED
    BY <1>1, <2>2
<1>7. QED
  BY <1>2, <1>3, <1>4, <1>5, <1>6, StepKinds

-----------------------------------------------------------------------------
(* Counting units.                                                         *)

LEMMA HoldingIsFinite ==
  ASSUME NEW u
  PROVE  /\ IsFiniteSet(Holding(u)) /\ Used(u) \in Nat
         /\ IsFiniteSet(Holding(u))' /\ Used(u)' \in Nat
<1>1. Holding(u) \subseteq Trips /\ Holding(u)' \subseteq Trips
  BY DEF Holding
<1>2. IsFiniteSet(Holding(u)) /\ IsFiniteSet(Holding(u)')
  BY <1>1, ConstantsAssumption, FS_Subset
<1>3. QED
  BY <1>2, FS_CardinalityType DEF Used

\* A user who gains no unit uses no more.
LEMMA UsedShrinks ==
  ASSUME NEW u, Holding(u)' \subseteq Holding(u)
  PROVE  Used(u)' <= Used(u)
<1>1. IsFiniteSet(Holding(u))
  BY HoldingIsFinite
<1>2. Cardinality(Holding(u)') <= Cardinality(Holding(u))
  BY <1>1, FS_Subset
<1>3. QED
  BY <1>2 DEF Used

LEMMA QuietKeepsUnits ==
  ASSUME Quiet, NEW u
  PROVE  Used(u)' = Used(u)
<1>1. Holding(u)' = Holding(u)
  BY DEF Quiet, Holding
<1>2. QED
  BY <1>1 DEF Used

LEMMA SettleKeepsUnits ==
  ASSUME TypeInv, EntryFollowsTrip, NEW t \in Trips, NEW s \in Terminal, Settles(t, s), NEW u
  PROVE  Used(u)' <= Used(u)
<1>1. entry[t] = "RESERVED"
  BY DEF Settles, EntryFollowsTrip
<1>2. Holding(u)' \subseteq Holding(u)
  BY <1>1, SettleFacts DEF Holding
<1>3. QED
  BY <1>2, UsedShrinks

LEMMA InsertTakesOne ==
  ASSUME TypeInv, EntryFollowsTrip, DecisionStands,
         NEW w \in Workers, NEW t \in Trips, ReserveInsert(w, t), NEW u \in Users
  PROVE  Used(u)' = IF u = task[w].user THEN Used(u) + 1 ELSE Used(u)
<1>1. t \notin Holding(u) /\ IsFiniteSet(Holding(u))
  <2>1. entry[t] = "NONE"
    BY InsertFacts
  <2>2. t \notin Holding(u)
    BY <2>1 DEF Holding
  <2>3. QED
    BY <2>2, HoldingIsFinite
<1>2. CASE u = task[w].user
  <2>1. Holding(u)' = Holding(u) \cup {t}
    BY <1>2, InsertFacts DEF Holding
  <2>2. Cardinality(Holding(u) \cup {t}) = Cardinality(Holding(u)) + 1
    BY <1>1, FS_AddElement
  <2>3. QED
    BY <1>2, <2>1, <2>2 DEF Used
<1>3. CASE u # task[w].user
  <2>1. Holding(u)' = Holding(u)
    BY <1>1, <1>3, InsertFacts DEF Holding
  <2>2. QED
    BY <1>3, <2>1 DEF Used
<1>4. QED
  BY <1>2, <1>3

LEMMA CloseFreesAll ==
  ASSUME TypeInv, NEW u \in Users, CloseAccount(u), NEW v \in Users
  PROVE  Used(v)' = IF v = u THEN 0 ELSE Used(v)
<1>1. CASE v = u
  <2>1. Holding(v)' = {}
    BY <1>1, CloseFacts, ConstantsAssumption DEF Holding
  <2>2. QED
    BY <1>1, <2>1, FS_EmptySet DEF Used
<1>2. CASE v # u
  <2>1. Holding(v)' = Holding(v)
    BY <1>2, CloseFacts, ConstantsAssumption DEF Holding
  <2>2. QED
    BY <1>2, <2>1 DEF Used
<1>3. QED
  BY <1>1, <1>2

LEMMA BalanceStep ==
  ASSUME TypeInv, EntryFollowsTrip, DecisionStands, NeverOverdrawn, [Next]_vars
  PROVE  NeverOverdrawn'
<1> SUFFICES ASSUME NEW u \in Users PROVE Used(u)' <= limit'[u]
  BY DEF NeverOverdrawn
<1>1. /\ Used(u) \in Nat /\ Used(u)' \in Nat /\ limit[u] \in Int
      /\ Used(u) <= limit[u]
  BY HoldingIsFinite DEF NeverOverdrawn, TypeInv, TypeOK
<1>2. CASE Quiet
  BY <1>1, <1>2, QuietKeepsUnits DEF Quiet
<1>3. CASE \E t \in Trips, s \in Terminal : Settles(t, s)
  <2>1. Used(u)' <= Used(u) /\ limit' = limit
    BY <1>3, SettleKeepsUnits DEF Settles
  <2>2. QED
    BY <1>1, <2>1
<1>4. CASE \E w \in Workers, t \in Trips : ReserveInsert(w, t)
  <2>1. PICK w \in Workers, t \in Trips : ReserveInsert(w, t)
    BY <1>4
  <2>2. u = task[w].user => Used(u) + 1 <= limit[u]
    BY <2>1 DEF DecisionStands, ReserveInsert, At
  <2>3. QED
    BY <1>1, <2>1, <2>2, InsertTakesOne DEF ReserveInsert
<1>5. CASE \E w \in Workers : AdjustInsert(w)
  <2>1. PICK w \in Workers : AdjustInsert(w)
    BY <1>5
  <2>2. Used(u)' = Used(u)
    BY <2>1 DEF AdjustInsert, Used, Holding
  <2>3. u = task[w].user => Used(u) <= limit[u] + task[w].delta
    BY <2>1 DEF DecisionStands, AdjustInsert, At
  <2>4. limit'[u] = IF u = task[w].user THEN limit[u] + task[w].delta ELSE limit[u]
    BY <2>1 DEF AdjustInsert, TypeInv, TypeOK
  <2>5. QED
    BY <1>1, <2>2, <2>3, <2>4
<1>6. CASE \E v \in Users : CloseAccount(v)
  <2>1. PICK v \in Users : CloseAccount(v)
    BY <1>6
  <2>2. Used(u)' = IF u = v THEN 0 ELSE Used(u)
    BY <2>1, CloseFreesAll
  <2>3. limit'[u] = IF u = v THEN 0 ELSE limit[u]
    BY <2>1, CloseFacts
  <2>4. QED
    BY <1>1, <2>2, <2>3
<1>7. QED
  BY <1>2, <1>3, <1>4, <1>5, <1>6, StepKinds

-----------------------------------------------------------------------------
(* Decisions under the lock of a user.                                     *)

Deciding == {"insert", "adjust"}

\* A step of one worker leaves the tasks of the others alone.
LEMMA OtherTasks ==
  ASSUME TypeInv, NEW v \in Workers, Worker(v), NEW w \in Workers, w # v
  PROVE  task'[w] = task[w]
<1> DEFINE Other == task'[w] = task[w]
<1>1. \A k : Become(v, k) => Other
  BY DEF Become, TypeInv, TypeOK
<1>2. (Finish(v) => Other) /\ \A pc : Goto(v, pc) => Other
  BY <1>1 DEF Finish, Goto
<1>3. (Continue(v) => Other) /\ \A pc : AfterCreate(v, pc) => Other
  BY <1>1, <1>2 DEF Continue, AfterCreate
<1>4. \A role, t, todo : BeginCreate(v, role, t, todo) => Other
  BY <1>1 DEF BeginCreate
<1>5. \A t, k, statuses : Observe(v, t, k, statuses) => Other
  BY <1>1 DEF Observe
<1>6. \A u \in Users, r \in ReqIds : ReserveRetry(v, u, r) \/ ReserveDecide(v, u, r) => Other
  BY <1>1, <1>4 DEF ReserveRetry, ReserveDecide
<1>7. \A t \in Trips : ReserveInsert(v, t) => Other
  BY <1>4 DEF ReserveInsert
<1>8. \/ CreateAccepted(v) \/ CreateRefused(v) \/ CreateUnsent(v)
      \/ CreateUncertain(v) \/ CreateGarbled(v)
      => Other
  BY <1>1, <1>2, <1>3
  DEF CreateAccepted, CreateRefused, CreateUnsent, CreateUncertain, CreateGarbled
<1>9. SaveAcceptance(v) \/ MarkUncertain(v) \/ SettleLocally(v) \/ ApplyStatus(v) => Other
  BY <1>2, <1>3 DEF SaveAcceptance, MarkUncertain, SettleLocally, ApplyStatus
<1>10. /\ \A u \in Users, t \in Trips : FetchStatus(v, u, t) \/ StreamOpen(v, u, t) => Other
       /\ StreamEvent(v) => Other
  BY <1>1, <1>5 DEF FetchStatus, StreamOpen, StreamEvent
<1>11. /\ \A batch \in SUBSET Trips : ReconcileClaim(v, batch) => Other
       /\ \A t \in Trips, bound \in BOOLEAN : ReconcileItem(v, t, bound) => Other
  BY <1>1, <1>4, <1>5 DEF ReconcileClaim, ReconcileItem
<1>12. /\ \A u \in Users, d \in Deltas : AdjustDecide(v, u, d) => Other
       /\ AdjustInsert(v) \/ Die(v) => Other
  BY <1>1, <1>2 DEF AdjustDecide, AdjustInsert, Die
<1>13. QED
  BY <1>6, <1>7, <1>8, <1>9, <1>10, <1>11, <1>12 DEF Worker

\* Only the two deciding actions bring a worker to a decision.
LEMMA OwnTask ==
  ASSUME TypeInv, NEW w \in Workers, Worker(w), task'[w].pc \in Deciding
  PROVE  \/ \E u \in Users, r \in ReqIds : ReserveDecide(w, u, r)
         \/ \E u \in Users, d \in Deltas : AdjustDecide(w, u, d)
<1> DEFINE Off == task'[w].pc \notin Deciding
<1>1. task \in [Workers -> Tasks] /\ task[w] \in Tasks /\ Idle \in Tasks
  BY IdleIsTask DEF TypeInv, TypeOK
<1>2. \A k : Become(w, k) => task'[w] = k
  BY <1>1 DEF Become
<1>3. Idle.pc = "idle"
  BY DEF Idle
<1>4. Finish(w) => Off
  BY <1>2, <1>3 DEF Finish, Deciding
<1>5. \A pc \in {"unsent", "refused", "uncertain"} : Goto(w, pc) => Off
  BY <1>1, <1>2 DEF Goto, Tasks, Deciding
<1>6. Continue(w) => Off
  <2>1. \A x : [task[w] EXCEPT !.pc = "next", !.seen = "NONE", !.trip = x].pc = "next"
    BY <1>1 DEF Tasks
  <2>2. QED
    BY <1>2, <1>4, <2>1 DEF Continue, Deciding
<1>7. \A pc \in {"unsent", "refused", "uncertain"} : AfterCreate(w, pc) => Off
  BY <1>5, <1>6 DEF AfterCreate
<1>8. ASSUME NEW role, NEW t, NEW todo, BeginCreate(w, role, t, todo) PROVE Off
  <2> DEFINE k == [Idle EXCEPT !.role = role, !.pc = "create", !.trip = t, !.todo = todo]
  <2>1. k.pc = "create"
    BY <1>1 DEF Tasks
  <2>2. Become(w, k)
    BY <1>8 DEF BeginCreate
  <2> HIDE DEF k
  <2>3. QED
    BY <1>2, <2>1, <2>2 DEF Deciding
<1>9. \A t, statuses : \A k \in Tasks : Observe(w, t, k, statuses) => Off
  <2>1. \A t, s : \A k \in Tasks : [k EXCEPT !.pc = "apply", !.trip = t, !.seen = s].pc = "apply"
    BY DEF Tasks
  <2>2. QED
    BY <1>2, <2>1, ZenonT(30) DEF Observe, Deciding
<1>10. \A u \in Users, r \in ReqIds : ReserveRetry(w, u, r) => Off
  BY <1>8 DEF ReserveRetry
<1>11. \A t \in Trips : ReserveInsert(w, t) => Off
  BY <1>8 DEF ReserveInsert
<1>12. \/ CreateRefused(w) \/ CreateUnsent(w) \/ CreateUncertain(w) \/ CreateGarbled(w) => Off
  BY <1>4, <1>5, <1>7 DEF CreateRefused, CreateUnsent, CreateUncertain, CreateGarbled
<1>13. CreateAccepted(w) => Off
  <2>1. \A s : [task[w] EXCEPT !.pc = "accepted", !.seen = s].pc = "accepted"
    BY <1>1 DEF Tasks
  <2>2. QED
    BY <1>2, <2>1 DEF CreateAccepted, Deciding
<1>14. SaveAcceptance(w) \/ MarkUncertain(w) \/ SettleLocally(w) \/ ApplyStatus(w) => Off
  BY <1>4, <1>6 DEF SaveAcceptance, MarkUncertain, SettleLocally, ApplyStatus
<1>15. \A u \in Users, t \in Trips : FetchStatus(w, u, t) => Off
  <2>1. \A u \in Users : [Idle EXCEPT !.role = "poll", !.user = u] \in Tasks
    BY <1>1 DEF Tasks
  <2>2. QED
    BY <1>9, <2>1 DEF FetchStatus
<1>16. ASSUME NEW u \in Users, NEW t \in Trips, StreamOpen(w, u, t) PROVE Off
  <2> DEFINE k == [Idle EXCEPT !.role = "stream", !.pc = "next", !.user = u, !.trip = t]
  <2>1. k.pc = "next"
    BY <1>1 DEF Tasks
  <2>2. Become(w, k)
    BY <1>16 DEF StreamOpen
  <2> HIDE DEF k
  <2>3. QED
    BY <1>2, <2>1, <2>2 DEF Deciding
<1>17. StreamEvent(w) => Off
  BY <1>1, <1>9 DEF StreamEvent
<1>18. \A batch \in SUBSET Trips : ReconcileClaim(w, batch) => Off
  <2>1. \A x : [Idle EXCEPT !.role = "batch", !.pc = "next", !.todo = x].pc = "next"
    BY <1>1 DEF Tasks
  <2>2. QED
    BY <1>2, <2>1 DEF ReconcileClaim, Deciding
<1>19. \A t \in Trips, bound \in BOOLEAN : ReconcileItem(w, t, bound) => Off
  <2> SUFFICES ASSUME NEW t \in Trips, NEW bound \in BOOLEAN, ReconcileItem(w, t, bound)
               PROVE  Off
    OBVIOUS
  <2> DEFINE k == [task[w] EXCEPT !.todo = @ \ {<<t, bound>>}]
  <2>1. k \in Tasks /\ k.pc = task[w].pc /\ task[w].pc = "next"
    BY <1>1 DEF ReconcileItem, At, Tasks
  <2>2. \/ BeginCreate(w, "batch", t, k.todo) \/ Observe(w, t, k, Reported(t))
        \/ Become(w, Idle) \/ Become(w, k)
    BY DEF ReconcileItem
  <2> HIDE DEF k
  <2>3. QED
    BY <1>2, <1>3, <1>8, <1>9, <2>1, <2>2 DEF Deciding
<1>20. AdjustInsert(w) \/ Die(w) => Off
  BY <1>4 DEF AdjustInsert, Die
<1> HIDE DEF Off
<1>21. ~Off
  BY DEF Off
<1>22. QED
  BY <1>10, <1>11, <1>12, <1>13, <1>14, <1>15, <1>16, <1>17, <1>18, <1>19, <1>20, <1>21
  DEF Worker

\* While other steps happen, a worker at a decision keeps it and the lock of
\* its user: nobody else takes or releases that lock, or writes under it.
LEMMA LockStep ==
  ASSUME TypeInv, DecisionStands, [Next]_vars,
         NEW w \in Workers, task'[w].pc \in Deciding, ~Worker(w)
  PROVE  /\ task'[w] = task[w] /\ task[w].user \in Users
         /\ lock[task[w].user] = w /\ lock'[task[w].user] = w
         /\ \A v \in Workers : (\E t \in Trips : ReserveInsert(v, t)) \/ AdjustInsert(v)
                               => task[v].user # task[w].user
<1> DEFINE u == task[w].user
<1>1. Nobody # w
  BY ConstantsAssumption
<1>2. \A v \in Workers : task[v].pc \in Deciding => task[v].user \in Users /\ lock[task[v].user] = v
  BY DEF DecisionStands, Deciding
<1>3. lock \in [Users -> Workers \cup {Nobody}]
  BY DEF TypeInv, TypeOK
<1>4. ASSUME UNCHANGED <<task, lock>>
      PROVE  task'[w] = task[w] /\ lock'[u] = w
  BY <1>2, <1>4
<1>5. ASSUME NEW v \in Workers, Worker(v)
      PROVE  /\ task'[w] = task[w] /\ lock'[u] = w
  <2>0. v # w
    BY <1>5
  <2>1. task'[w] = task[w]
    BY <1>5, <2>0, OtherTasks
  <2>2. u \in Users /\ lock[u] = w
    BY <1>2, <2>1
  <2>3. CASE UNCHANGED lock
    BY <2>1, <2>2, <2>3
  <2>4. CASE \E x \in Users : lock[x] = Nobody /\ lock' = [lock EXCEPT ![x] = v]
    BY <1>1, <1>3, <2>1, <2>2, <2>4
  <2>5. CASE task[v].pc \in Deciding /\ lock' = [lock EXCEPT ![task[v].user] = Nobody]
    BY <1>2, <1>3, <2>0, <2>1, <2>2, <2>5
  <2>6. CASE Die(v)
    BY <2>0, <2>1, <2>2, <2>6 DEF Die
  <2>7. QED
    <3>1. /\ \A x \in Users, r \in ReqIds : ReserveRetry(v, x, r) => UNCHANGED lock
          /\ \A t \in Trips, x \in Users : FetchStatus(v, x, t) \/ StreamOpen(v, x, t) => UNCHANGED lock
          /\ \A batch \in SUBSET Trips : ReconcileClaim(v, batch) => UNCHANGED lock
          /\ \A t \in Trips, b \in BOOLEAN : ReconcileItem(v, t, b) => UNCHANGED lock
      BY DEF ReserveRetry, FetchStatus, StreamOpen, ReconcileClaim, ReconcileItem
    <3>2. \/ CreateAccepted(v) \/ CreateRefused(v) \/ CreateUnsent(v) \/ CreateUncertain(v)
          \/ CreateGarbled(v) \/ SaveAcceptance(v) \/ MarkUncertain(v) \/ SettleLocally(v)
          \/ StreamEvent(v) \/ ApplyStatus(v)
          => UNCHANGED lock
      BY DEF CreateAccepted, CreateRefused, CreateUnsent, CreateUncertain, CreateGarbled,
             SaveAcceptance, MarkUncertain, SettleLocally, StreamEvent, ApplyStatus
    <3>3. \A x \in Users :
            (\E r \in ReqIds : ReserveDecide(v, x, r)) \/ (\E d \in Deltas : AdjustDecide(v, x, d))
              => lock[x] = Nobody /\ lock' = [lock EXCEPT ![x] = v]
      BY DEF ReserveDecide, AdjustDecide, LockUser
    <3>4. (\E t \in Trips : ReserveInsert(v, t)) \/ AdjustInsert(v) =>
            task[v].pc \in Deciding /\ lock' = [lock EXCEPT ![task[v].user] = Nobody]
      BY DEF ReserveInsert, AdjustInsert, UnlockUser, At, Deciding
    <3>5. QED
      BY <1>5, <2>3, <2>4, <2>5, <2>6, <3>1, <3>2, <3>3, <3>4 DEF Worker
<1>6. task'[w] = task[w] /\ lock'[u] = w
  <2>1. ASSUME NEW x \in Users, NEW status \in {"ACTIVE", "DISABLED"}, SetStatus(x, status)
        PROVE  UNCHANGED <<task, lock>>
    BY <2>1 DEF SetStatus
  <2>2. ASSUME NEW x \in Users, CloseAccount(x)
        PROVE  UNCHANGED <<task, lock>>
    BY <2>2 DEF CloseAccount
  <2>3. ASSUME NEW t \in Trips, NEW next \in JobStates, HermesStep(t, next)
        PROVE  UNCHANGED <<task, lock>>
    BY <2>3 DEF HermesStep
  <2>4. UNCHANGED vars => UNCHANGED <<task, lock>>
    BY DEF vars
  <2>5. QED
    BY <1>4, <1>5, <2>1, <2>2, <2>3, <2>4 DEF Next
<1>7. ASSUME NEW v \in Workers, (\E t \in Trips : ReserveInsert(v, t)) \/ AdjustInsert(v)
      PROVE  task[v].user # u
  <2>1. v # w
    BY <1>7 DEF Worker
  <2>2. task[v].pc \in Deciding
    BY <1>7 DEF ReserveInsert, AdjustInsert, At, Deciding
  <2>3. QED
    BY <1>2, <1>6, <2>1, <2>2
<1>8. QED
  BY <1>2, <1>6, <1>7

\* What DecisionStands says of a worker at a decision on user u.
Stands(w, u) ==
  /\ task[w].user = u /\ lock[u] = w /\ account[u] # "CLOSED"
  /\ task[w].pc = "insert" =>
       /\ account[u] = "ACTIVE"
       /\ \A t \in Trips : trip[t].user = u =>
            trip[t].req # task[w].req /\ trip[t].status \notin Active
       /\ Used(u) + 1 <= limit[u]
  /\ task[w].pc = "adjust" => Used(u) <= limit[u] + task[w].delta

LEMMA DecisionsStand ==
  ASSUME \A w \in Workers : task'[w].pc \in Deciding => \E u \in Users : Stands(w, u)'
  PROVE  DecisionStands'
<1> SUFFICES ASSUME NEW w \in Workers, task'[w].pc \in Deciding
             PROVE  (LET u == task[w].user IN
                     /\ u \in Users /\ lock[u] = w /\ account[u] # "CLOSED"
                     /\ task[w].pc = "insert" =>
                          /\ account[u] = "ACTIVE"
                          /\ \A t \in Owned(u) : trip[t].req # task[w].req /\ trip[t].status \notin Active
                          /\ Used(u) + 1 <= limit[u]
                     /\ task[w].pc = "adjust" => Used(u) <= limit[u] + task[w].delta)'
  BY DEF DecisionStands, Deciding
<1>1. PICK u \in Users : Stands(w, u)'
  OBVIOUS
<1>2. task'[w].user = u
  BY <1>1 DEF Stands
<1>3. Used(task[w].user)' = Used(u)'
  BY <1>2 DEF Used, Holding
<1>4. QED
  BY <1>1, <1>2, <1>3 DEF Stands, Owned

LEMMA DecisionStep ==
  ASSUME TypeInv, EntryFollowsTrip, DecisionStands, NeverOverdrawn, [Next]_vars
  PROVE  DecisionStands'
<1> SUFFICES ASSUME NEW w \in Workers, task'[w].pc \in Deciding
             PROVE  \E u \in Users : Stands(w, u)'
  BY DecisionsStand
<1>1. CASE Worker(w)
  <2>1. task \in [Workers -> Tasks] /\ lock \in [Users -> Workers \cup {Nobody}]
    BY DEF TypeInv, TypeOK
  <2>2. CASE \E u \in Users, r \in ReqIds : ReserveDecide(w, u, r)
    <3>1. PICK u \in Users, r \in ReqIds : ReserveDecide(w, u, r)
      BY <2>2
    <3> DEFINE k == [Idle EXCEPT !.role = "submit", !.pc = "insert", !.user = u, !.req = r]
    <3>2. k.pc = "insert" /\ k.user = u /\ k.req = r
      BY IdleIsTask DEF Tasks
    <3>3. task'[w] = k
      BY <2>1, <3>1 DEF ReserveDecide, Become
    <3> HIDE DEF k
    <3>4. lock'[u] = w
      BY <2>1, <3>1 DEF ReserveDecide, LockUser
    <3>5. account'[u] = "ACTIVE" /\ trip' = trip /\ Used(u)' = Used(u) /\ limit' = limit
      BY <3>1 DEF ReserveDecide, Used, Holding
    <3>6. \A t \in Trips : trip[t].user = u => trip[t].req # r /\ trip[t].status \notin Active
      BY <3>1 DEF ReserveDecide, Owned
    <3>7. Used(u) \in Nat /\ limit[u] \in Int /\ Remaining(u) >= 1
      BY <3>1, HoldingIsFinite DEF ReserveDecide, TypeInv, TypeOK
    <3>8. Used(u) + 1 <= limit[u]
      BY <3>7 DEF Remaining
    <3>9. Stands(w, u)'
      BY <3>2, <3>3, <3>4, <3>5, <3>6, <3>8 DEF Stands
    <3>10. QED
      BY <3>9
  <2>3. CASE \E u \in Users, d \in Deltas : AdjustDecide(w, u, d)
    <3>1. PICK u \in Users, d \in Deltas : AdjustDecide(w, u, d)
      BY <2>3
    <3> DEFINE k == [Idle EXCEPT !.role = "admin", !.pc = "adjust", !.user = u, !.delta = d]
    <3>2. k.pc = "adjust" /\ k.user = u /\ k.delta = d
      BY IdleIsTask DEF Tasks
    <3>3. task'[w] = k
      BY <2>1, <3>1 DEF AdjustDecide, Become
    <3> HIDE DEF k
    <3>4. lock'[u] = w
      BY <2>1, <3>1 DEF AdjustDecide, LockUser
    <3>5. account'[u] # "CLOSED" /\ Used(u)' = Used(u) /\ limit' = limit
      BY <3>1 DEF AdjustDecide, Used, Holding
    <3>6. /\ Used(u) \in Nat /\ limit[u] \in Int /\ Used(u) <= limit[u]
          /\ Remaining(u) + d >= 0
      BY <3>1, HoldingIsFinite DEF AdjustDecide, NeverOverdrawn, TypeInv, TypeOK
    <3>7. d \in Int
      BY DeltasAreInts
    <3>8. Used(u) <= limit[u] + d
      BY <3>6, <3>7 DEF Remaining
    <3>9. Stands(w, u)'
      BY <3>2, <3>3, <3>4, <3>5, <3>8 DEF Stands
    <3>10. QED
      BY <3>9
  <2>4. QED
    BY <1>1, <2>2, <2>3, OwnTask
<1>2. CASE ~Worker(w)
  <2>0. PICK u \in Users : u = task[w].user
    BY <1>2, LockStep
  <2> DEFINE k == task[w]
  <2>1. /\ task'[w] = k /\ k.user = u /\ lock[u] = w /\ lock'[u] = w
        /\ \A v \in Workers : (\E t \in Trips : ReserveInsert(v, t)) \/ AdjustInsert(v)
                              => task[v].user # u
    BY <1>2, <2>0, LockStep
  <2>2. /\ account[u] # "CLOSED"
        /\ k.pc = "insert" =>
             /\ account[u] = "ACTIVE"
             /\ \A t \in Trips : trip[t].user = u => trip[t].req # k.req /\ trip[t].status \notin Active
             /\ Used(u) + 1 <= limit[u]
        /\ k.pc = "adjust" => Used(u) <= limit[u] + k.delta
    BY <2>1 DEF DecisionStands, Deciding, Owned
  <2>3. /\ Used(u) \in Nat /\ Used(u)' \in Nat /\ limit[u] \in Int /\ k.delta \in Int
    <3>1. k \in Tasks
      BY DEF TypeInv, TypeOK
    <3>2. k.delta \in Deltas \cup {0}
      BY <3>1 DEF Tasks
    <3>3. QED
      BY <2>1, <3>2, DeltasAreInts, HoldingIsFinite DEF TypeInv, TypeOK
  <2>4. w # Nobody
    BY ConstantsAssumption
  <2>5. /\ account'[u] = account[u] /\ limit'[u] = limit[u] /\ Used(u)' <= Used(u)
        /\ \A t \in Trips : trip'[t].user = u =>
             /\ trip[t].user = u /\ trip'[t].req = trip[t].req
             /\ trip'[t].status \in Active => trip[t].status \in Active
    <3>1. CASE Quiet
      <4>1. Used(u)' = Used(u)
        BY <3>1, QuietKeepsUnits
      <4>2. account'[u] = account[u] /\ limit' = limit
        BY <2>1, <2>4, <3>1 DEF Quiet
      <4>3. QED
        BY <2>3, <3>1, <4>1, <4>2 DEF Quiet
    <3>2. CASE \E t \in Trips, s \in Terminal : Settles(t, s)
      <4>1. PICK t \in Trips, s \in Terminal : Settles(t, s)
        BY <3>2
      <4>2. Used(u)' <= Used(u) /\ account' = account /\ limit' = limit
        BY <4>1, SettleKeepsUnits DEF Settles
      <4>3. QED
        BY <4>1, <4>2, SettleFacts, StatusKinds
    <3>3. CASE \E v \in Workers, t \in Trips : ReserveInsert(v, t)
      <4>1. PICK v \in Workers, t \in Trips : ReserveInsert(v, t)
        BY <3>3
      <4>2. task[v].user # u
        BY <2>1, <4>1
      <4>3. Used(u)' = Used(u)
        BY <2>1, <4>1, <4>2, InsertTakesOne
      <4>4. QED
        BY <2>3, <4>1, <4>2, <4>3, InsertFacts
    <3>4. CASE \E v \in Workers : AdjustInsert(v)
      <4>1. PICK v \in Workers : AdjustInsert(v)
        BY <3>4
      <4>2. task[v].user # u
        BY <2>1, <4>1
      <4>3. limit'[u] = limit[u]
        BY <2>1, <4>1, <4>2 DEF AdjustInsert, TypeInv, TypeOK
      <4>4. Used(u)' = Used(u) /\ trip' = trip /\ account' = account
        BY <4>1 DEF AdjustInsert, Used, Holding
      <4>5. QED
        BY <2>3, <4>3, <4>4
    <3>5. CASE \E v \in Users : CloseAccount(v)
      <4>1. PICK v \in Users : CloseAccount(v)
        BY <3>5
      <4>2. v # u
        BY <2>1, <2>4, <4>1, CloseFacts
      <4>3. Used(u)' = Used(u)
        BY <2>1, <4>1, <4>2, CloseFreesAll
      <4>4. \A t \in Trips : trip'[t].user = u => trip[t].user = u /\ trip'[t] = trip[t]
        BY <2>1, <4>1, CloseFacts, ConstantsAssumption
      <4>5. QED
        BY <2>1, <2>3, <4>1, <4>2, <4>3, <4>4, CloseFacts
    <3>6. QED
      BY <3>1, <3>2, <3>3, <3>4, <3>5, StepKinds
  <2> HIDE DEF k
  <2>6. Stands(w, u)'
    BY <2>1, <2>2, <2>3, <2>5 DEF Stands
  <2>7. QED
    BY <2>6
<1>3. QED
  BY <1>1, <1>2

-----------------------------------------------------------------------------
(* The invariance theorems.                                                *)

LEMMA InitLedgerInv == Init => LedgerInv
<1> SUFFICES ASSUME Init PROVE LedgerInv
  OBVIOUS
<1>1. TypeInv
  BY InitTypes
<1>2. \A t \in Trips : trip[t] = NoTrip /\ entry[t] = "NONE"
  BY DEF Init
<1>3. NoTrip.user = Nobody /\ NoTrip.status = "ABSENT"
  BY DEF NoTrip
<1>4. EntryFollowsTrip
  BY <1>2, <1>3 DEF EntryFollowsTrip, Active, Terminal
<1>5. DecisionStands
  BY DEF Init, Idle, DecisionStands
<1>6. OneTripEach
  BY <1>2, <1>3 DEF OneTripEach
<1>7. NeverOverdrawn
  <2>1. ASSUME NEW u \in Users PROVE Used(u) <= limit[u]
    <3>1. Holding(u) = {}
      BY <1>2 DEF Holding
    <3>2. Used(u) = 0
      BY <3>1, FS_EmptySet DEF Used
    <3>3. limit[u] = Grant
      BY DEF Init
    <3>4. QED
      BY <3>2, <3>3, ConstantsAssumption
  <2>2. QED
    BY <2>1 DEF NeverOverdrawn
<1>8. QED
  BY <1>1, <1>4, <1>5, <1>6, <1>7 DEF LedgerInv

LEMMA StepLedgerInv == LedgerInv /\ [Next]_vars => LedgerInv'
  BY StepKeepsTypes, EntryStep, DecisionStep, OneTripStep, BalanceStep DEF LedgerInv

\* The inductive invariant of the ledger holds in every reachable state.
THEOREM LedgerInvariant == Spec => []LedgerInv
  BY InitLedgerInv, StepLedgerInv, PTL DEF Spec

\* The balance of reserved and consumed units is never negative, for any
\* number of submissions, settlements, adjustments and closures at once.
THEOREM BalanceHolds == Spec => []NeverOverdrawn
<1>1. LedgerInv => NeverOverdrawn
  BY DEF LedgerInv
<1>2. QED
  BY <1>1, LedgerInvariant, PTL

\* The unique indexes of user_trip never reject an insert of reserve_trip.
THEOREM OneTripEachHolds == Spec => []OneTripEach
<1>1. LedgerInv => OneTripEach
  BY DEF LedgerInv
<1>2. QED
  BY <1>1, LedgerInvariant, PTL

\* Every entry follows its trip, so settle_trip never raises
\* QuotaInvariantError.
THEOREM EntryFollowsTripHolds == Spec => []EntryFollowsTrip
<1>1. LedgerInv => EntryFollowsTrip
  BY DEF LedgerInv
<1>2. QED
  BY <1>1, LedgerInvariant, PTL

\* What was decided under the lock of a user still stands at the insert.
THEOREM DecisionStandsHolds == Spec => []DecisionStands
<1>1. LedgerInv => DecisionStands
  BY DEF LedgerInv
<1>2. QED
  BY <1>1, LedgerInvariant, PTL

-----------------------------------------------------------------------------
(* TripQuota implements QuotaLedger.                                       *)

\* The ledger state of a trip, read off its row and its entry.
LEMMA LedgerStates ==
  ASSUME TypeInv, EntryFollowsTrip, NEW t \in Trips
  PROVE  /\ LedgerState(t) = "FREE" <=> trip[t].status = "ABSENT"
         /\ LedgerState(t) = "HELD" <=> entry[t] = "RESERVED"
         /\ LedgerState(t) = "CHARGED" <=> entry[t] = "CONSUMED"
         /\ LedgerState(t) = "RETURNED" <=> entry[t] = "RELEASED"
         /\ LedgerState(t) = "ERASED" <=> trip[t].status # "ABSENT" /\ entry[t] = "NONE"
         /\ LedgerState(t) \in {"FREE", "HELD", "CHARGED", "RETURNED", "ERASED"}
<1>1. trip[t].status = "ABSENT" => entry[t] = "NONE"
  BY DEF EntryFollowsTrip
<1>2. entry[t] \in {"NONE", "RESERVED", "CONSUMED", "RELEASED"}
  BY DEF TypeInv, TypeOK
<1>3. QED
  BY <1>1, <1>2 DEF LedgerState

LEMMA TakenIsHolding ==
  ASSUME TypeInv, EntryFollowsTrip, NEW u \in Users
  PROVE  Ledger!Taken(u) = Holding(u)
  BY LedgerStates DEF Ledger!Taken, Holding

\* The ledger counts with the operator of its own instance of FiniteSets.
LEMMA SameCardinality ==
  ASSUME NEW S
  PROVE  Ledger!Cardinality(S) = Cardinality(S)
  BY DEF Ledger!Cardinality, Cardinality

LEMMA BalanceIsLeft ==
  ASSUME TypeInv, EntryFollowsTrip, NEW u \in Users
  PROVE  Ledger!Balance(u) = limit[u] - Used(u)
  BY TakenIsHolding, SameCardinality DEF Ledger!Balance, Used

LEMMA QuietStutters ==
  ASSUME TypeInv, EntryFollowsTrip, Quiet
  PROVE  UNCHANGED Ledger!ledger
<1>1. ASSUME NEW t \in Trips PROVE LedgerState(t)' = LedgerState(t)
  <2>1. entry'[t] = entry[t] /\ (trip'[t].status = "ABSENT" <=> trip[t].status = "ABSENT")
    BY StatusKinds DEF Quiet
  <2>2. QED
    BY <2>1 DEF LedgerState
<1>2. \A u \in Users : (account'[u] # "CLOSED") = (account[u] # "CLOSED")
  BY DEF Quiet
<1>3. [u \in Users |-> account'[u] # "CLOSED"] = [u \in Users |-> account[u] # "CLOSED"]
  BY <1>2
<1>4. [t \in Trips |-> trip'[t].user] = [t \in Trips |-> trip[t].user]
  BY DEF Quiet
<1>5. [t \in Trips |-> LedgerState(t)]' = [t \in Trips |-> LedgerState(t)]
  BY <1>1
<1>6. QED
  BY <1>3, <1>4, <1>5 DEF Ledger!ledger, Quiet

LEMMA SettleRefines ==
  ASSUME TypeInv, EntryFollowsTrip, EntryFollowsTrip', TypeInv',
         NEW t \in Trips, NEW s \in Terminal, Settles(t, s)
  PROVE  Ledger!Settle(t, "CHARGED") \/ Ledger!Settle(t, "RETURNED")
<1>1. LedgerState(t) = "HELD"
  BY LedgerStates DEF Settles, EntryFollowsTrip
<1>2. LedgerState(t)' \in {"CHARGED", "RETURNED"}
  <2>1. entry'[t] \in {"CONSUMED", "RELEASED"} /\ trip'[t].status # "ABSENT"
    BY SettleFacts, StatusKinds
  <2>2. QED
    BY <2>1 DEF LedgerState
<1>3. ASSUME NEW x \in Trips, x # t PROVE LedgerState(x)' = LedgerState(x)
  BY <1>3, SettleFacts DEF LedgerState
<1>4. [x \in Trips |-> LedgerState(x)]' =
        [[x \in Trips |-> LedgerState(x)] EXCEPT ![t] = LedgerState(t)']
  BY <1>3
<1>5. [x \in Trips |-> trip[x].user]' = [x \in Trips |-> trip[x].user]
  BY SettleFacts
<1>6. UNCHANGED <<[u \in Users |-> account[u] # "CLOSED"], limit>>
  BY DEF Settles
<1>7. QED
  BY <1>1, <1>2, <1>4, <1>5, <1>6 DEF Ledger!Settle

LEMMA InsertRefines ==
  ASSUME LedgerInv, NEW w \in Workers, NEW t \in Trips, ReserveInsert(w, t)
  PROVE  \E u \in Users : Ledger!Hold(u, t)
<1>0. TypeInv /\ EntryFollowsTrip /\ DecisionStands
  BY DEF LedgerInv
<1>1. PICK u \in Users : u = task[w].user
  BY <1>0, InsertFacts
<1>2. task[w].pc = "insert" /\ trip[t].status = "ABSENT"
  BY DEF ReserveInsert, At
<1>3. /\ account[u] # "CLOSED" /\ Used(u) + 1 <= limit[u]
      /\ \A x \in Trips : trip[x].user = u => trip[x].status \notin Active
  BY <1>0, <1>1, <1>2 DEF DecisionStands, Owned
<1>4. Ledger!Balance(u) >= 1
  <2>1. Ledger!Balance(u) = limit[u] - Used(u)
    BY <1>0, BalanceIsLeft
  <2>2. Used(u) \in Nat /\ limit[u] \in Int
    BY <1>0, HoldingIsFinite DEF TypeInv, TypeOK
  <2>3. QED
    BY <1>3, <2>1, <2>2
<1>5. \A x \in Trips : trip[x].user = u => LedgerState(x) # "HELD"
  BY <1>0, <1>3, LedgerStates DEF EntryFollowsTrip
<1>6. LedgerState(t) = "FREE"
  BY <1>0, <1>2, LedgerStates
<1>7. LedgerState(t)' = "HELD"
  <2>1. trip'[t].status # "ABSENT" /\ entry'[t] = "RESERVED"
    BY <1>0, InsertFacts
  <2>2. QED
    BY <2>1 DEF LedgerState
<1>8. ASSUME NEW x \in Trips, x # t
      PROVE  LedgerState(x)' = LedgerState(x) /\ trip'[x].user = trip[x].user
  BY <1>0, <1>8, InsertFacts DEF LedgerState
<1>9. [x \in Trips |-> LedgerState(x)]' =
        [[x \in Trips |-> LedgerState(x)] EXCEPT ![t] = "HELD"]
  BY <1>7, <1>8
<1>10. [x \in Trips |-> trip[x].user]' = [[x \in Trips |-> trip[x].user] EXCEPT ![t] = u]
  <2>1. trip'[t].user = u
    BY <1>0, <1>1, InsertFacts
  <2>2. QED
    BY <1>8, <2>1
<1>11. UNCHANGED <<[v \in Users |-> account[v] # "CLOSED"], limit>>
  BY <1>0, InsertFacts
<1>12. Ledger!Hold(u, t)
  BY <1>3, <1>4, <1>5, <1>6, <1>9, <1>10, <1>11 DEF Ledger!Hold
<1>13. QED
  BY <1>12

LEMMA AdjustRefines ==
  ASSUME LedgerInv, NEW w \in Workers, AdjustInsert(w)
  PROVE  \/ UNCHANGED Ledger!ledger
         \/ \E u \in Users, d \in Deltas : Ledger!Adjust(u, d)
<1>0. TypeInv /\ EntryFollowsTrip /\ DecisionStands
  BY DEF LedgerInv
<1> DEFINE u == task[w].user
           d == task[w].delta
<1>1. /\ u \in Users /\ account[u] # "CLOSED" /\ Used(u) <= limit[u] + d
  BY <1>0 DEF AdjustInsert, At, DecisionStands
<1>2. d \in Deltas \cup {0} /\ d \in Int
  <2>1. task[w] \in Tasks
    BY <1>0 DEF TypeInv, TypeOK
  <2>2. d \in Deltas \cup {0}
    BY <2>1 DEF Tasks
  <2>3. QED
    BY <2>2, DeltasAreInts
<1>3. UNCHANGED <<account, trip, entry>> /\ limit' = [limit EXCEPT ![u] = @ + d]
  BY DEF AdjustInsert
<1>4. /\ UNCHANGED [v \in Users |-> account[v] # "CLOSED"]
      /\ UNCHANGED [x \in Trips |-> trip[x].user]
      /\ UNCHANGED [x \in Trips |-> LedgerState(x)]
  BY <1>3 DEF LedgerState
<1>5. CASE d \in Deltas
  <2>1. Ledger!Balance(u) = limit[u] - Used(u)
    BY <1>0, <1>1, BalanceIsLeft
  <2>2. Used(u) \in Nat /\ limit[u] \in Int
    BY <1>0, <1>1, HoldingIsFinite DEF TypeInv, TypeOK
  <2> HIDE DEF d, u
  <2>3. Ledger!Balance(u) + d >= 0
    BY <1>1, <1>2, <2>1, <2>2
  <2>4. Ledger!Adjust(u, d)
    BY <1>1, <1>3, <1>4, <2>3 DEF Ledger!Adjust
  <2>5. QED
    BY <1>1, <1>5, <2>4
<1>6. CASE d = 0
  <2>1. limit \in [Users -> Int]
    BY <1>0 DEF TypeInv, TypeOK
  <2>2. limit[u] + d = limit[u]
    BY <1>1, <1>6, <2>1
  <2>3. limit' = limit
    BY <1>3, <2>1, <2>2
  <2>4. QED
    BY <1>4, <2>3 DEF Ledger!ledger
<1>7. QED
  BY <1>2, <1>5, <1>6

LEMMA CloseRefines ==
  ASSUME LedgerInv, NEW u \in Users, CloseAccount(u)
  PROVE  Ledger!Close(u)
<1>0. TypeInv /\ EntryFollowsTrip
  BY DEF LedgerInv
<1>1. account[u] # "CLOSED" /\ limit' = [limit EXCEPT ![u] = 0]
  BY DEF CloseAccount
<1>2. \A x \in Trips : trip[x].user = u => LedgerState(x) # "HELD"
  BY <1>0, CloseFacts, LedgerStates DEF EntryFollowsTrip
<1>3. [v \in Users |-> account[v] # "CLOSED"]' =
        [[v \in Users |-> account[v] # "CLOSED"] EXCEPT ![u] = FALSE]
  <2>1. ASSUME NEW v \in Users
        PROVE  (account'[v] # "CLOSED") = IF v = u THEN FALSE ELSE account[v] # "CLOSED"
    BY <1>0 DEF CloseAccount, TypeInv, TypeOK
  <2>2. QED
    BY <2>1
<1>4. ASSUME NEW x \in Trips
      PROVE  /\ trip'[x].user = IF trip[x].user = u THEN Nobody ELSE trip[x].user
             /\ LedgerState(x)' = IF trip[x].user = u THEN "ERASED" ELSE LedgerState(x)
  <2>1. CASE trip[x].user = u
    <3>1. trip'[x].status # "ABSENT" /\ entry'[x] = "NONE" /\ trip'[x].user = Nobody
      BY <1>0, <2>1, CloseFacts, ConstantsAssumption DEF EntryFollowsTrip
    <3>2. QED
      BY <2>1, <3>1 DEF LedgerState
  <2>2. CASE trip[x].user # u
    BY <1>0, <2>2, CloseFacts DEF LedgerState
  <2>3. QED
    BY <2>1, <2>2
<1>5. [x \in Trips |-> trip[x].user]' =
        [x \in Trips |-> IF trip[x].user = u THEN Nobody ELSE trip[x].user]
  BY <1>4
<1>6. [x \in Trips |-> LedgerState(x)]' =
        [x \in Trips |-> IF trip[x].user = u THEN "ERASED" ELSE LedgerState(x)]
  BY <1>4
<1>7. QED
  BY <1>1, <1>2, <1>3, <1>5, <1>6 DEF Ledger!Close

LEMMA InitRefines == Init => Ledger!Init
<1> SUFFICES ASSUME Init PROVE Ledger!Init
  OBVIOUS
<1>1. \A t \in Trips : /\ trip[t].user = Nobody /\ trip[t].status = "ABSENT"
                       /\ entry[t] = "NONE"
  BY DEF Init, NoTrip
<1>2. \A t \in Trips : LedgerState(t) = "FREE"
  BY <1>1 DEF LedgerState
<1>3. \A u \in Users : (account[u] # "CLOSED") = TRUE
  BY DEF Init
<1>4. QED
  BY <1>1, <1>2, <1>3 DEF Init, Ledger!Init

LEMMA StepRefines ==
  LedgerInv /\ LedgerInv' /\ [Next]_vars => [Ledger!Next]_(Ledger!ledger)
<1> SUFFICES ASSUME LedgerInv, LedgerInv', [Next]_vars
             PROVE  [Ledger!Next]_(Ledger!ledger)
  OBVIOUS
<1>0. TypeInv /\ EntryFollowsTrip /\ TypeInv' /\ EntryFollowsTrip'
  BY DEF LedgerInv
<1>1. CASE Quiet
  BY <1>0, <1>1, QuietStutters
<1>2. CASE \E t \in Trips, s \in Terminal : Settles(t, s)
  BY <1>0, <1>2, SettleRefines DEF Ledger!Next
<1>3. CASE \E w \in Workers, t \in Trips : ReserveInsert(w, t)
  BY <1>3, InsertRefines DEF Ledger!Next
<1>4. CASE \E w \in Workers : AdjustInsert(w)
  BY <1>4, AdjustRefines DEF Ledger!Next
<1>5. CASE \E u \in Users : CloseAccount(u)
  BY <1>5, CloseRefines DEF Ledger!Next
<1>6. QED
  BY <1>0, <1>1, <1>2, <1>3, <1>4, <1>5, StepKinds

\* Submissions, settlements, adjustments and closures, however they are
\* interleaved with crashes and late answers, are steps of the atomic ledger.
THEOREM LedgerIsImplemented == Spec => ImplementsLedger
<1>1. Spec => Ledger!Init /\ [][Ledger!Next]_(Ledger!ledger)
  BY InitRefines, StepRefines, LedgerInvariant, PTL DEF Spec
<1>2. QED
  BY <1>1, PTL DEF ImplementsLedger, Ledger!Spec

=============================================================================
