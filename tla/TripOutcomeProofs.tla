-------------------------- MODULE TripOutcomeProofs --------------------------
(***************************************************************************)
(* Proofs about how the trips of TripQuota end, for every number of users, *)
(* trips, requests and workers: which answers of hermes-travel a task may  *)
(* still apply, and that none of them, however late, undoes a binding, a   *)
(* settlement or an erasure.                                               *)
(*                                                                         *)
(* The layer above the ledger's invariant says what a pending answer tells *)
(* of the job: one that was accepted stays so, and a terminal status that  *)
(* is about to be applied is the final status of the job.                  *)
(***************************************************************************)
EXTENDS TripQuotaProofs

\* The answer a task holds is true of its trip and of the job.
Answer(k, rows, jobs) ==
  /\ k.pc \in {"create", "accepted"} => k.role # "stream"
  /\ k.pc = "accepted" => jobs[k.trip] \notin Unaccepted
  /\ k.pc = "refused" => jobs[k.trip] = "REFUSED"
  /\ k.pc = "next" /\ k.role = "stream" => rows[k.trip].bound
  /\ k.pc = "apply" => /\ rows[k.trip].bound
                       /\ k.seen \in Terminal => jobs[k.trip] = k.seen
  /\ \A t \in Trips : <<t, TRUE>> \in k.todo => rows[t].bound

Answers == \A w \in Workers : Answer(task[w], trip, job)

AbsentIsUnbound == \A t \in Trips : trip[t].status = "ABSENT" => ~trip[t].bound

OutcomeInv ==
  /\ LedgerInv
  /\ AbsentIsUnbound
  /\ SubmittingIsUnbound
  /\ ChargedOnlyForSuccess
  /\ Answers

-----------------------------------------------------------------------------
(* The steps of a job and of a row.                                        *)

\* Hermes never takes back that it accepted or refused a request, and a job
\* that has ended stays as it ended.
JobStays ==
  \A t \in Trips :
    /\ job[t] \notin Unaccepted => job'[t] \notin Unaccepted
    /\ job[t] \in Terminal \cup {"REFUSED"} => job'[t] = job[t]

BoundStays == \A t \in Trips : trip[t].bound => trip'[t].bound

\* What a step may do to the row and the entry of trip t.
Kept(t) == trip'[t] = trip[t] /\ entry'[t] = entry[t]
Tried(t) ==
  /\ trip[t].status \in Active /\ trip'[t].status = trip[t].status
  /\ trip'[t].bound = trip[t].bound /\ trip'[t].user = trip[t].user
  /\ entry'[t] = entry[t]
Inserted(t) ==
  /\ trip[t].status = "ABSENT" /\ trip[t].user = Nobody /\ ~trip[t].bound
  /\ trip'[t].status = "SUBMITTING" /\ ~trip'[t].bound
  /\ entry[t] = "NONE" /\ entry'[t] = "RESERVED"
  /\ \E w \in Workers : ReserveInsert(w, t)
Moved(t) ==
  /\ trip[t].status \in Active /\ job[t] \notin Unaccepted /\ job' = job
  /\ trip'[t].status \in {"PENDING", "RUNNING"} /\ trip'[t].bound
  /\ trip'[t].user = trip[t].user
  /\ entry'[t] = entry[t]
Ended(t) ==
  /\ trip[t].status \in Active /\ trip'[t].status \in Terminal
  /\ trip'[t].bound = trip[t].bound /\ trip'[t].user = trip[t].user
  /\ entry'[t] = QuotaStatus(trip'[t].status)
  /\ job' = job /\ calls' = calls
  /\ \/ job[t] = trip'[t].status
     \/ job[t] = "REFUSED" /\ trip'[t].status = "REJECTED"
     \/ trip'[t].status = "FAILED" /\ \E w \in Workers : At(w, "unsent") /\ task[w].trip = t
Erased(t) ==
  /\ trip[t].status \in Terminal /\ trip'[t].status = trip[t].status
  /\ trip[t].user # Nobody /\ trip'[t].user = Nobody
  /\ trip'[t].bound = trip[t].bound /\ entry'[t] = "NONE"

RowStep(t) ==
  Kept(t) \/ Tried(t) \/ Inserted(t) \/ Moved(t) \/ Ended(t) \/ Erased(t)

LEMMA JobStep ==
  ASSUME TypeInv, [Next]_vars
  PROVE  JobStays
<1>1. job' = job => JobStays
  BY DEF JobStays
<1>2. \A w \in Workers : CreateAccepted(w) \/ CreateRefused(w) \/ CreateUnsent(w)
        \/ CreateUncertain(w) \/ CreateGarbled(w) \/ Die(w) => JobStays
  BY DEF CreateAccepted, CreateRefused, CreateUnsent, CreateUncertain, CreateGarbled, Die,
         Accept, JobStays, Unaccepted, Terminal, TypeInv, TypeOK, JobStates
<1>3. \A t \in Trips, next \in JobStates : HermesStep(t, next) => JobStays
  BY DEF HermesStep, JobStays, Unaccepted, Terminal, TypeInv, TypeOK
<1>4. ASSUME NEW w \in Workers
      PROVE  /\ \A u \in Users, r \in ReqIds :
                  ReserveRetry(w, u, r) \/ ReserveDecide(w, u, r) => job' = job
             /\ \A t \in Trips : ReserveInsert(w, t) => job' = job
             /\ SaveAcceptance(w) \/ MarkUncertain(w) \/ SettleLocally(w) => job' = job
             /\ \A u \in Users, t \in Trips : FetchStatus(w, u, t) \/ StreamOpen(w, u, t) => job' = job
             /\ StreamEvent(w) \/ ApplyStatus(w) \/ AdjustInsert(w) => job' = job
             /\ \A batch \in SUBSET Trips : ReconcileClaim(w, batch) => job' = job
             /\ \A t \in Trips, bound \in BOOLEAN : ReconcileItem(w, t, bound) => job' = job
             /\ \A u \in Users, d \in Deltas : AdjustDecide(w, u, d) => job' = job
  BY DEF ReserveRetry, ReserveDecide, ReserveInsert, SaveAcceptance, MarkUncertain,
      SettleLocally, FetchStatus, StreamOpen, StreamEvent, ApplyStatus, ReconcileClaim,
      ReconcileItem, AdjustDecide, AdjustInsert
<1>5. ASSUME NEW w \in Workers, Worker(w) PROVE JobStays
  BY <1>1, <1>2, <1>4, <1>5 DEF Worker
<1>6. /\ \A u \in Users, status \in {"ACTIVE", "DISABLED"} : SetStatus(u, status) => job' = job
      /\ \A u \in Users : CloseAccount(u) => job' = job
      /\ UNCHANGED vars => job' = job
  BY DEF SetStatus, CloseAccount, vars
<1>7. QED
  BY <1>1, <1>3, <1>5, <1>6 DEF Next

\* The statements that move a trip, applied to an answer that is true.
LEMMA AdvanceRow ==
  ASSUME TypeInv, SubmittingIsUnbound, NEW t \in Trips, trip[t].status # "ABSENT",
         NEW s \in Active, NEW x \in Trips, UNCHANGED job, job[t] \notin Unaccepted,
         \/ Bind(t, s) /\ s # "SUBMITTING" /\ UNCHANGED entry
         \/ Advance(t, s) /\ trip[t].bound
  PROVE  RowStep(x)
<1>1. trip \in [Trips -> TripRows] /\ trip[t].status \in Active \cup Terminal
  BY DEF TypeInv, TypeOK, TripRows
<1>2. entry' = entry
  BY DEF Advance
<1>3. trip' = trip \/ trip' = [trip EXCEPT ![t].bound = TRUE, ![t].status = s]
      \/ trip' = [trip EXCEPT ![t].status = s]
  BY DEF Bind, Advance
<1>4. CASE x # t \/ trip' = trip
  BY <1>1, <1>2, <1>3, <1>4 DEF RowStep, Kept
<1>5. CASE x = t /\ trip' # trip
  <2>1. trip[t].status \in Active
    BY <1>1, <1>5 DEF Bind, Advance, Active, Terminal
  <2>2. s \in {"PENDING", "RUNNING"}
    <3>1. CASE Bind(t, s) /\ s # "SUBMITTING"
      BY <3>1 DEF Active
    <3>2. CASE Advance(t, s) /\ trip[t].bound
      <4>1. trip[t].status \in {"PENDING", "RUNNING"}
        BY <2>1, <3>2 DEF SubmittingIsUnbound, Active
      <4>2. Rank(s) >= Rank(trip[t].status)
        BY <1>5, <3>2 DEF Advance
      <4>3. QED
        BY <4>1, <4>2 DEF Rank, Active
    <3>3. QED
      BY <3>1, <3>2
  <2>3. trip'[t].status = s /\ trip'[t].bound /\ trip'[t].user = trip[t].user
    <3>1. CASE Bind(t, s)
      BY <1>1, <1>5, <3>1 DEF Bind, TripRows
    <3>2. CASE Advance(t, s) /\ trip[t].bound
      BY <1>1, <1>5, <3>2 DEF Advance, TripRows
    <3>3. QED
      BY <3>1, <3>2
  <2>4. QED
    BY <1>2, <1>5, <2>1, <2>2, <2>3 DEF RowStep, Moved
<1>6. QED
  BY <1>4, <1>5

LEMMA SettleRow ==
  ASSUME TypeInv, EntryFollowsTrip, NEW t \in Trips, trip[t].status # "ABSENT",
         NEW s \in Terminal, NEW x \in Trips, Settle(t, s), UNCHANGED <<job, calls>>,
         \/ job[t] = s
         \/ job[t] = "REFUSED" /\ s = "REJECTED"
         \/ s = "FAILED" /\ \E w \in Workers : At(w, "unsent") /\ task[w].trip = t
  PROVE  RowStep(x)
<1>1. trip \in [Trips -> TripRows] /\ trip[t].status \in Active \cup Terminal
      /\ entry \in [Trips -> {"NONE", "RESERVED", "CONSUMED", "RELEASED"}]
  BY DEF TypeInv, TypeOK, TripRows
<1>2. CASE x # t \/ UNCHANGED <<trip, entry>>
  BY <1>1, <1>2 DEF Settle, RowStep, Kept
<1>3. CASE x = t /\ ~UNCHANGED <<trip, entry>>
  <2>1. trip[t].status \in Active /\ trip' = [trip EXCEPT ![t].status = s]
        /\ entry' = [entry EXCEPT ![t] = QuotaStatus(s)]
    BY <1>1, <1>3 DEF Settle
  <2>2. trip'[t].status = s /\ trip'[t].bound = trip[t].bound /\ trip'[t].user = trip[t].user
        /\ entry'[t] = QuotaStatus(s)
    BY <1>1, <2>1 DEF TripRows
  <2>3. QED
    BY <1>3, <2>1, <2>2 DEF RowStep, Ended
<1>4. QED
  BY <1>2, <1>3

\* Every step does one of the things above to every row.
LEMMA WorkerRows ==
  ASSUME OutcomeInv, NEW w \in Workers, Worker(w), NEW x \in Trips
  PROVE  RowStep(x)
<1> DEFINE t == task[w].trip
<1>1. TypeInv /\ EntryFollowsTrip /\ SubmittingIsUnbound /\ DecisionStands
  BY DEF OutcomeInv, LedgerInv
<1>2. task[w] \in Tasks /\ Fits(task[w], trip) /\ Answer(task[w], trip, job)
  BY <1>1 DEF OutcomeInv, Answers, TypeInv, TypeOK, WellFormed
<1>3. UNCHANGED <<trip, entry>> => RowStep(x)
  BY DEF RowStep, Kept
<1>4. trip \in [Trips -> TripRows]
  BY <1>1 DEF TypeInv, TypeOK
<1>5. \A u \in Users, r \in ReqIds : ReserveRetry(w, u, r) \/ ReserveDecide(w, u, r) => RowStep(x)
  BY <1>3 DEF ReserveRetry, ReserveDecide
<1>6. \/ CreateAccepted(w) \/ CreateRefused(w) \/ CreateUnsent(w)
      \/ CreateUncertain(w) \/ CreateGarbled(w) \/ StreamEvent(w) \/ Die(w) \/ AdjustInsert(w)
      => RowStep(x)
  BY <1>3
  DEF CreateAccepted, CreateRefused, CreateUnsent, CreateUncertain, CreateGarbled,
      StreamEvent, Die, AdjustInsert
<1>7. ASSUME NEW y \in Trips, ReserveInsert(w, y) PROVE RowStep(x)
  <2>1. /\ trip[y].user = Nobody /\ entry[y] = "NONE"
        /\ trip'[y].status = "SUBMITTING" /\ entry'[y] = "RESERVED"
        /\ \A s \in Trips : s # y => trip'[s] = trip[s] /\ entry'[s] = entry[s]
    BY <1>1, <1>7, InsertFacts
  <2>2. trip[y].status = "ABSENT"
    BY <1>7 DEF ReserveInsert
  <2>3. ~trip'[y].bound
    BY <1>4, <1>7 DEF ReserveInsert, NoTrip
  <2>4. ~trip[y].bound
    BY <2>2 DEF OutcomeInv, AbsentIsUnbound
  <2>5. CASE x = y
    BY <1>7, <2>1, <2>2, <2>3, <2>4, <2>5 DEF RowStep, Inserted
  <2>6. CASE x # y
    BY <2>1, <2>6 DEF RowStep, Kept
  <2>7. QED
    BY <2>5, <2>6
<1>8. ASSUME SaveAcceptance(w) PROVE RowStep(x)
  <2>1. t \in Trips /\ trip[t].status # "ABSENT" /\ task[w].seen \in {"PENDING", "RUNNING"}
        /\ job[t] \notin Unaccepted
    BY <1>2, <1>8 DEF SaveAcceptance, At, Fits, Answer, OnTrip
  <2>2. QED
    BY <1>1, <1>8, <2>1, AdvanceRow DEF SaveAcceptance, Active
<1>9. ASSUME MarkUncertain(w) PROVE RowStep(x)
  <2>1. CASE x = t /\ trip[t].status = "SUBMITTING"
    <3>1. trip'[t] = Attempted(trip[t]) /\ entry' = entry
      BY <1>4, <1>9, <2>1 DEF MarkUncertain
    <3>2. trip'[t].status = trip[t].status /\ trip'[t].bound = trip[t].bound
          /\ trip'[t].user = trip[t].user
      BY <1>4, <2>1, <3>1 DEF Attempted, TripRows
    <3>3. QED
      BY <2>1, <3>1, <3>2 DEF RowStep, Tried, Active
  <2>2. CASE ~(x = t /\ trip[t].status = "SUBMITTING")
    BY <1>4, <1>9, <2>2 DEF MarkUncertain, RowStep, Kept
  <2>3. QED
    BY <2>1, <2>2
<1>10. ASSUME SettleLocally(w) PROVE RowStep(x)
  <2>1. t \in Trips /\ trip[t].status # "ABSENT" /\ UNCHANGED <<job, calls>>
    BY <1>2, <1>10 DEF SettleLocally, At, Fits, OnTrip
  <2>2. CASE At(w, "unsent") /\ Settle(t, "FAILED")
    BY <1>1, <2>1, <2>2, SettleRow DEF Terminal
  <2>3. CASE At(w, "refused") /\ Settle(t, "REJECTED")
    <3>1. job[t] = "REFUSED"
      BY <1>2, <2>3 DEF At, Answer
    <3>2. QED
      BY <1>1, <2>1, <2>3, <3>1, SettleRow DEF Terminal
  <2>4. QED
    BY <1>10, <2>2, <2>3 DEF SettleLocally
<1>11. \A u \in Users, y \in Trips : FetchStatus(w, u, y) \/ StreamOpen(w, u, y) => RowStep(x)
  BY <1>3 DEF FetchStatus, StreamOpen
<1>12. ASSUME ApplyStatus(w) PROVE RowStep(x)
  <2> DEFINE s == task[w].seen
  <2>1. t \in Trips /\ trip[t].status # "ABSENT" /\ s \in Active \cup Terminal
    BY <1>2, <1>12 DEF ApplyStatus, At, Fits, OnTrip, Tasks
  <2>2. trip[t].bound /\ (s \in Terminal => job[t] = s)
    BY <1>2, <1>12 DEF ApplyStatus, At, Answer
  <2>3. job[t] \notin Unaccepted
    BY <2>1, <2>2 DEF OutcomeInv, ChargedOnlyForSuccess
  <2>4. UNCHANGED <<job, calls>>
    BY <1>12 DEF ApplyStatus
  <2>5. \/ UNCHANGED <<trip, entry>>
        \/ s \in Terminal /\ Settle(t, s)
        \/ s \in Active /\ Advance(t, s)
    BY <1>12, <2>1 DEF ApplyStatus
  <2>6. CASE s \in Terminal /\ Settle(t, s)
    <3>1. job[t] = s
      BY <2>2, <2>6
    <3>2. s \in Terminal /\ Settle(t, s)
      BY <2>6
    <3>3. QED
      BY <1>1, <2>1, <2>4, <3>1, <3>2, SettleRow
  <2>7. CASE s \in Active /\ Advance(t, s)
    BY <1>1, <2>1, <2>2, <2>3, <2>4, <2>7, AdvanceRow
  <2>8. QED
    BY <1>3, <2>5, <2>6, <2>7
<1>13. ASSUME NEW batch \in SUBSET Trips, ReconcileClaim(w, batch) PROVE RowStep(x)
  <2>1. CASE x \in batch
    <3>1. trip'[x] = [trip[x] EXCEPT !.attempts = @ + 1] /\ entry' = entry
      BY <1>13, <2>1 DEF ReconcileClaim
    <3>2. trip[x].status \in Active
      BY <1>13, <2>1 DEF ReconcileClaim, Claimable
    <3>3. trip'[x].status = trip[x].status /\ trip'[x].bound = trip[x].bound
          /\ trip'[x].user = trip[x].user
      BY <1>4, <3>1 DEF TripRows
    <3>4. QED
      BY <3>1, <3>2, <3>3 DEF RowStep, Tried
  <2>2. CASE x \notin batch
    BY <1>13, <2>2 DEF ReconcileClaim, RowStep, Kept
  <2>3. QED
    BY <2>1, <2>2
<1>14. \A y \in Trips, bound \in BOOLEAN : ReconcileItem(w, y, bound) => RowStep(x)
  BY <1>3 DEF ReconcileItem
<1>15. \A u \in Users, d \in Deltas : AdjustDecide(w, u, d) => RowStep(x)
  BY <1>3 DEF AdjustDecide
<1>16. QED
  BY <1>5, <1>6, <1>7, <1>8, <1>9, <1>10, <1>11, <1>12, <1>13, <1>14, <1>15 DEF Worker

LEMMA RowSteps ==
  ASSUME OutcomeInv, [Next]_vars, NEW x \in Trips
  PROVE  RowStep(x)
<1>1. TypeInv /\ EntryFollowsTrip
  BY DEF OutcomeInv, LedgerInv
<1>2. UNCHANGED <<trip, entry>> => RowStep(x)
  BY DEF RowStep, Kept
<1>3. ASSUME NEW u \in Users, CloseAccount(u) PROVE RowStep(x)
  <2>1. trip \in [Trips -> TripRows]
    BY <1>1 DEF TypeInv, TypeOK
  <2>2. CASE trip[x].user = u
    <3>1. /\ trip'[x].user = Nobody /\ entry'[x] = "NONE" /\ trip[x].status \notin Active
          /\ trip'[x].status = trip[x].status
      BY <1>1, <1>3, <2>2, CloseFacts
    <3>2. trip'[x].bound = trip[x].bound
      <4>1. trip'[x] = [trip[x] EXCEPT !.user = Nobody, !.req = Nobody]
        BY <1>3, <2>2 DEF CloseAccount
      <4>2. QED
        BY <2>1, <4>1 DEF TripRows
    <3>3. trip[x].user # Nobody
      BY <2>2, ConstantsAssumption
    <3>4. trip[x].status \in Terminal
      BY <2>1, <3>1, <3>3, <1>1 DEF EntryFollowsTrip, TripRows
    <3>5. QED
      BY <3>1, <3>2, <3>3, <3>4 DEF RowStep, Erased
  <2>3. CASE trip[x].user # u
    BY <1>1, <1>3, <2>3, CloseFacts DEF RowStep, Kept
  <2>4. QED
    BY <2>2, <2>3
<1>4. /\ \A u \in Users, status \in {"ACTIVE", "DISABLED"} :
           SetStatus(u, status) => UNCHANGED <<trip, entry>>
      /\ \A t \in Trips, next \in JobStates : HermesStep(t, next) => UNCHANGED <<trip, entry>>
      /\ UNCHANGED vars => UNCHANGED <<trip, entry>>
  BY DEF SetStatus, HermesStep, vars
<1>5. QED
  BY <1>2, <1>3, <1>4, WorkerRows DEF Next

-----------------------------------------------------------------------------
(* The answers tasks hold.                                                 *)

LEMMA RowStepBinds ==
  ASSUME OutcomeInv, [Next]_vars
  PROVE  BoundStays
<1> SUFFICES ASSUME NEW t \in Trips, trip[t].bound PROVE trip'[t].bound
  BY DEF BoundStays
<1>1. RowStep(t)
  BY RowSteps
<1>2. QED
  BY <1>1 DEF RowStep, Kept, Tried, Inserted, Moved, Ended, Erased

\* A true answer stays true whoever moves.
LEMMA AnswerStays ==
  ASSUME JobStays, BoundStays, NEW k \in Tasks, Fits(k, trip), Answer(k, trip, job)
  PROVE  Answer(k, trip', job')
<1>1. k.pc \in {"accepted", "refused", "apply"} \/ (k.pc = "next" /\ k.role = "stream")
        => k.trip \in Trips
  BY DEF Fits, OnTrip
<1>2. QED
  BY <1>1 DEF JobStays, BoundStays, Answer

LEMMA AnswerIdle == Answer(Idle, trip', job')
  BY DEF Answer, Idle

LEMMA AnswerContinue ==
  ASSUME JobStays, BoundStays, NEW w \in Workers, task \in [Workers -> Tasks],
         Fits(task[w], trip), Answer(task[w], trip, job), Continue(w),
         task[w].pc \in {"create", "accepted", "apply"}
  PROVE  Answer(task'[w], trip', job')
<1>1. task[w] \in Tasks
  OBVIOUS
<1>2. CASE task[w].role = "stream"
  <2> DEFINE k == [task[w] EXCEPT !.pc = "next", !.seen = "NONE", !.trip = task[w].trip]
  <2>1. task'[w] = k
    BY <1>2 DEF Continue, Become
  <2>2. task[w].pc = "apply"
    BY <1>2 DEF Answer
  <2>3. trip[task[w].trip].bound /\ task[w].trip \in Trips
    BY <2>2 DEF Answer, Fits, OnTrip
  <2>4. k.pc = "next" /\ k.trip = task[w].trip /\ k.todo = task[w].todo
    BY <1>1 DEF Tasks
  <2> HIDE DEF k
  <2>5. Answer(k, trip', job')
    BY <2>3, <2>4 DEF Answer, BoundStays
  <2>6. QED
    BY <2>1, <2>5
<1>3. CASE task[w].role = "batch" /\ task[w].todo # {}
  <2> DEFINE k == [task[w] EXCEPT !.pc = "next", !.seen = "NONE", !.trip = Nobody]
  <2>1. task'[w] = k
    BY <1>3 DEF Continue, Become
  <2>2. k.pc = "next" /\ k.role = "batch" /\ k.todo = task[w].todo
    BY <1>1, <1>3 DEF Tasks
  <2> HIDE DEF k
  <2>3. Answer(k, trip', job')
    BY <2>2 DEF Answer, BoundStays
  <2>4. QED
    BY <2>1, <2>3
<1>4. CASE ~(task[w].role = "stream" \/ (task[w].role = "batch" /\ task[w].todo # {}))
  <2>1. task'[w] = Idle
    BY <1>4 DEF Continue, Finish, Become
  <2>2. QED
    BY <2>1, AnswerIdle
<1>5. QED
  BY <1>2, <1>3, <1>4

\* The answer of a create call is one it may have got.
LEMMA AnswerCreate ==
  ASSUME JobStays, BoundStays, TypeInv, Answers, NEW w \in Workers,
         \/ CreateAccepted(w) \/ CreateRefused(w) \/ CreateUnsent(w)
         \/ CreateUncertain(w) \/ CreateGarbled(w)
  PROVE  Answer(task'[w], trip', job')
<1> DEFINE t == task[w].trip
<1>1. /\ task \in [Workers -> Tasks] /\ task[w] \in Tasks /\ Fits(task[w], trip)
      /\ Answer(task[w], trip, job) /\ task[w].pc = "create" /\ t \in Trips
  BY DEF Answers, TypeInv, TypeOK, WellFormed, CreateAccepted, CreateRefused, CreateUnsent,
         CreateUncertain, CreateGarbled, At, Fits, OnTrip
<1>2. ASSUME NEW pc \in {"unsent", "uncertain"}
      PROVE  Answer([task[w] EXCEPT !.pc = pc], trip', job')
  BY <1>1 DEF Answer, Tasks, BoundStays
<1>3. ASSUME NEW pc \in {"unsent", "uncertain"}, AfterCreate(w, pc)
      PROVE  Answer(task'[w], trip', job')
  <2>1. CASE task[w].role = "batch"
    BY <1>1, <1>3, <2>1, AnswerContinue DEF AfterCreate
  <2>2. CASE task[w].role # "batch"
    BY <1>1, <1>2, <1>3, <2>2 DEF AfterCreate, Goto, Become
  <2>3. QED
    BY <2>1, <2>2
<1>4. CASE CreateAccepted(w)
  <2> DEFINE k == [task[w] EXCEPT !.pc = "accepted",
                      !.seen = IF job[t] = "RUNNING" THEN "RUNNING" ELSE "PENDING"]
  <2>1. task'[w] = k
    BY <1>1, <1>4 DEF CreateAccepted, Become
  <2>2. k.pc = "accepted" /\ k.role = task[w].role /\ k.trip = t /\ k.todo = task[w].todo
    BY <1>1 DEF Tasks
  <2>3. job'[t] \notin Unaccepted
    BY <1>1, <1>4 DEF CreateAccepted, Accept, Unaccepted, TypeInv, TypeOK
  <2> HIDE DEF k
  <2>4. Answer(k, trip', job')
    BY <1>1, <2>2, <2>3 DEF Answer, BoundStays
  <2>5. QED
    BY <2>1, <2>4
<1>5. CASE CreateRefused(w)
  <2>1. job'[t] = "REFUSED"
    BY <1>1, <1>5 DEF CreateRefused, TypeInv, TypeOK
  <2>2. CASE task'[w] = Idle
    BY <2>2, AnswerIdle
  <2>3. CASE task'[w] = [task[w] EXCEPT !.pc = "refused"]
    <3> DEFINE k == [task[w] EXCEPT !.pc = "refused"]
    <3>1. k.pc = "refused" /\ k.trip = t /\ k.todo = task[w].todo
      BY <1>1 DEF Tasks
    <3> HIDE DEF k
    <3>2. Answer(k, trip', job')
      BY <1>1, <2>1, <3>1 DEF Answer, BoundStays
    <3>3. QED
      BY <2>3, <3>2 DEF k
  <2>4. QED
    BY <1>1, <1>5, <2>2, <2>3 DEF CreateRefused, Finish, Goto, Become
<1>6. CASE CreateUnsent(w)
  BY <1>3, <1>6 DEF CreateUnsent
<1>7. CASE CreateUncertain(w)
  BY <1>3, <1>7 DEF CreateUncertain
<1>8. CASE CreateGarbled(w)
  BY <1>3, <1>8 DEF CreateGarbled
<1>9. QED
  BY <1>4, <1>5, <1>6, <1>7, <1>8

\* A status request or an event tells the truth about a bound trip.
LEMMA AnswerObserve ==
  ASSUME BoundStays, TypeInv, NEW w \in Workers, NEW t \in Trips, NEW k \in Tasks,
         NEW statuses \in {Reported(t), Streamed(t)}, Observe(w, t, k, statuses),
         UNCHANGED job, trip[t].bound,
         \A x \in Trips : <<x, TRUE>> \in k.todo => trip[x].bound
  PROVE  Answer(task'[w], trip', job')
<1>1. PICK s \in statuses \ Unaccepted :
        Become(w, [k EXCEPT !.pc = "apply", !.trip = t, !.seen = s])
  BY DEF Observe
<1> DEFINE j == [k EXCEPT !.pc = "apply", !.trip = t, !.seen = s]
<1>2. task'[w] = j
  BY <1>1 DEF Become, TypeInv, TypeOK
<1>3. j.pc = "apply" /\ j.trip = t /\ j.seen = s /\ j.todo = k.todo
  BY DEF Tasks
<1>4. s \in Terminal => job[t] = s
  BY DEF Reported, Streamed, Terminal
<1> HIDE DEF j
<1>5. Answer(j, trip', job')
  BY <1>3, <1>4 DEF Answer, BoundStays
<1>6. QED
  BY <1>2, <1>5

\* What the worker that moves holds afterwards.
LEMMA OwnAnswer ==
  ASSUME OutcomeInv, JobStays, BoundStays, NEW w \in Workers, Worker(w)
  PROVE  Answer(task'[w], trip', job')
<1> DEFINE t == task[w].trip
<1>1. TypeInv /\ Answers
  BY DEF OutcomeInv, LedgerInv
<1>2. /\ task \in [Workers -> Tasks] /\ task[w] \in Tasks /\ Fits(task[w], trip)
      /\ Answer(task[w], trip, job)
  BY <1>1 DEF Answers, TypeInv, TypeOK, WellFormed
<1>3. ASSUME NEW k, Become(w, k), k.pc \in {"idle", "insert", "adjust"}, k.todo = {}
      PROVE  Answer(task'[w], trip', job')
  BY <1>2, <1>3 DEF Become, Answer
<1>4. ASSUME NEW role \in {"submit", "batch"}, NEW x \in Trips, NEW todo \in SUBSET (Trips \X BOOLEAN),
             BeginCreate(w, role, x, todo), \A y \in Trips : <<y, TRUE>> \in todo => trip[y].bound
      PROVE  Answer(task'[w], trip', job')
  <2> DEFINE k == [Idle EXCEPT !.role = role, !.pc = "create", !.trip = x, !.todo = todo]
  <2>1. task'[w] = k
    BY <1>2, <1>4 DEF BeginCreate, Become
  <2>2. k.pc = "create" /\ k.role = role /\ k.todo = todo
    BY DEF Idle
  <2> HIDE DEF k
  <2>3. QED
    BY <1>4, <2>1, <2>2 DEF Answer, BoundStays
<1>a. ASSUME NEW x \in Trips, BeginCreate(w, "submit", x, {})
      PROVE  Answer(task'[w], trip', job')
  <2> DEFINE none == {}
  <2>1. none \in SUBSET (Trips \X BOOLEAN) /\ \A y \in Trips : <<y, TRUE>> \in none => trip[y].bound
    OBVIOUS
  <2>2. BeginCreate(w, "submit", x, none)
    BY <1>a
  <2> HIDE DEF none
  <2>3. QED
    BY <1>4, <2>1, <2>2
<1>5. ASSUME NEW u \in Users, NEW r \in ReqIds, ReserveRetry(w, u, r) \/ ReserveDecide(w, u, r)
      PROVE  Answer(task'[w], trip', job')
  <2>1. CASE ReserveRetry(w, u, r)
    <3>1. PICK x \in Trips : BeginCreate(w, "submit", x, {})
      BY <2>1 DEF ReserveRetry, Owned
    <3>2. QED
      BY <1>a, <3>1
  <2>2. CASE ReserveDecide(w, u, r)
    <3> DEFINE k == [Idle EXCEPT !.role = "submit", !.pc = "insert", !.user = u, !.req = r]
    <3>1. Become(w, k)
      BY <2>2 DEF ReserveDecide
    <3>2. k.pc = "insert" /\ k.todo = {}
      BY DEF Idle
    <3> HIDE DEF k
    <3>3. QED
      BY <1>3, <3>1, <3>2
  <2>3. QED
    BY <1>5, <2>1, <2>2
<1>6. ASSUME NEW x \in Trips, ReserveInsert(w, x) PROVE Answer(task'[w], trip', job')
  BY <1>a, <1>6 DEF ReserveInsert
<1>7. Finish(w) => Answer(task'[w], trip', job')
  BY <1>2, AnswerIdle DEF Finish, Become
<1>8. \/ CreateAccepted(w) \/ CreateRefused(w) \/ CreateUnsent(w)
      \/ CreateUncertain(w) \/ CreateGarbled(w)
      => Answer(task'[w], trip', job')
  BY <1>1, AnswerCreate
<1>9. SaveAcceptance(w) => Answer(task'[w], trip', job')
  BY <1>2, AnswerContinue DEF SaveAcceptance, At
<1>10. MarkUncertain(w) \/ SettleLocally(w) \/ AdjustInsert(w) \/ Die(w)
       => Answer(task'[w], trip', job')
  BY <1>7 DEF MarkUncertain, SettleLocally, AdjustInsert, Die
<1>11. ASSUME NEW u \in Users, NEW x \in Trips, FetchStatus(w, u, x) \/ StreamOpen(w, u, x)
       PROVE  Answer(task'[w], trip', job')
  <2>1. CASE FetchStatus(w, u, x)
    <3> DEFINE k == [Idle EXCEPT !.role = "poll", !.user = u]
    <3>1. Observe(w, x, k, Reported(x)) /\ job' = job /\ trip[x].bound
      BY <2>1 DEF FetchStatus
    <3>2. k \in Tasks /\ k.todo = {}
      BY IdleIsTask DEF Tasks, Idle
    <3> HIDE DEF k
    <3>3. QED
      BY <1>1, <3>1, <3>2, AnswerObserve
  <2>2. CASE StreamOpen(w, u, x)
    <3> DEFINE k == [Idle EXCEPT !.role = "stream", !.pc = "next", !.user = u, !.trip = x]
    <3>1. task'[w] = k /\ trip[x].bound
      BY <1>2, <2>2 DEF StreamOpen, Become
    <3>2. k.pc = "next" /\ k.trip = x /\ k.todo = {}
      BY DEF Idle
    <3> HIDE DEF k
    <3>3. QED
      BY <3>1, <3>2 DEF Answer, BoundStays
  <2>3. QED
    BY <1>11, <2>1, <2>2
<1>12. ASSUME StreamEvent(w) PROVE Answer(task'[w], trip', job')
  <2>1. t \in Trips /\ trip[t].bound /\ Observe(w, t, task[w], Streamed(t)) /\ job' = job
    BY <1>2, <1>12 DEF StreamEvent, At, Fits, Answer
  <2>2. \A x \in Trips : <<x, TRUE>> \in task[w].todo => trip[x].bound
    BY <1>2 DEF Answer
  <2>3. QED
    BY <1>1, <1>2, <2>1, <2>2, AnswerObserve
<1>13. ASSUME ApplyStatus(w) PROVE Answer(task'[w], trip', job')
  <2>1. Finish(w) \/ Continue(w)
    BY <1>13 DEF ApplyStatus
  <2>2. task[w].pc = "apply"
    BY <1>13 DEF ApplyStatus, At
  <2>3. QED
    BY <1>2, <1>7, <2>1, <2>2, AnswerContinue
<1>14. ASSUME NEW batch \in SUBSET Trips, ReconcileClaim(w, batch)
       PROVE  Answer(task'[w], trip', job')
  <2> DEFINE todo == {<<x, trip[x].bound>> : x \in batch}
             k == [Idle EXCEPT !.role = "batch", !.pc = "next", !.todo = todo]
  <2>1. task'[w] = k
    BY <1>2, <1>14 DEF ReconcileClaim, Become
  <2>2. \A x \in Trips : <<x, TRUE>> \in todo => trip[x].bound
    OBVIOUS
  <2> HIDE DEF todo
  <2>3. k.pc = "next" /\ k.role = "batch" /\ k.todo = todo
    BY DEF Idle
  <2> HIDE DEF k
  <2>4. QED
    BY <2>1, <2>2, <2>3 DEF Answer, BoundStays
<1>15. ASSUME NEW x \in Trips, NEW bound \in BOOLEAN, ReconcileItem(w, x, bound)
       PROVE  Answer(task'[w], trip', job')
  <2> DEFINE todo == task[w].todo \ {<<x, bound>>}
             k == [task[w] EXCEPT !.todo = todo]
  <2>1. /\ task[w].pc = "next" /\ (bound => trip[x].bound) /\ job' = job /\ trip' = trip
        /\ todo \in SUBSET (Trips \X BOOLEAN)
        /\ \A y \in Trips : <<y, TRUE>> \in todo => trip[y].bound
    BY <1>2, <1>15 DEF ReconcileItem, At, Answer, Tasks
  <2>2. /\ k \in Tasks /\ k.pc = "next" /\ k.role = task[w].role /\ k.trip = task[w].trip
        /\ k.todo = todo
    BY <1>2, <2>1 DEF Tasks
  <2>3. \/ BeginCreate(w, "batch", x, k.todo)
        \/ bound /\ Observe(w, x, k, Reported(x))
        \/ Become(w, Idle) \/ Become(w, k)
    BY <1>15 DEF ReconcileItem
  <2> HIDE DEF todo, k
  <2>4. CASE BeginCreate(w, "batch", x, k.todo)
    BY <1>4, <2>1, <2>2, <2>4
  <2>5. CASE bound /\ Observe(w, x, k, Reported(x))
    BY <1>1, <2>1, <2>2, <2>5, AnswerObserve
  <2>6. CASE Become(w, Idle)
    BY <1>2, <2>6, AnswerIdle DEF Become
  <2>7. CASE Become(w, k)
    <3>1. task'[w] = k
      BY <1>2, <2>7 DEF Become
    <3>2. task[w].role = "stream" => trip[t].bound /\ t \in Trips
      BY <1>2, <2>1 DEF Answer, Fits
    <3>3. Answer(k, trip', job')
      BY <2>1, <2>2, <3>2 DEF Answer
    <3>4. QED
      BY <3>1, <3>3
  <2>8. QED
    BY <2>3, <2>4, <2>5, <2>6, <2>7
<1>16. ASSUME NEW u \in Users, NEW d \in Deltas, AdjustDecide(w, u, d)
       PROVE  Answer(task'[w], trip', job')
  <2> DEFINE k == [Idle EXCEPT !.role = "admin", !.pc = "adjust", !.user = u, !.delta = d]
  <2>1. Become(w, k)
    BY <1>16 DEF AdjustDecide
  <2>2. k.pc = "adjust" /\ k.todo = {}
    BY DEF Idle
  <2> HIDE DEF k
  <2>3. QED
    BY <1>3, <2>1, <2>2
<1>17. QED
  BY <1>5, <1>6, <1>8, <1>9, <1>10, <1>11, <1>12, <1>13, <1>14, <1>15, <1>16 DEF Worker

LEMMA AnswersStep ==
  ASSUME OutcomeInv, [Next]_vars
  PROVE  Answers'
<1>1. TypeInv /\ Answers /\ JobStays /\ BoundStays
  BY JobStep, RowStepBinds DEF OutcomeInv, LedgerInv
<1>2. ASSUME NEW v \in Workers, task'[v] = task[v] PROVE Answer(task'[v], trip', job')
  <2>1. task[v] \in Tasks /\ Fits(task[v], trip) /\ Answer(task[v], trip, job)
    BY <1>1 DEF TypeInv, TypeOK, WellFormed, Answers
  <2>2. QED
    BY <1>1, <1>2, <2>1, AnswerStays
<1>3. ASSUME NEW w \in Workers, Worker(w), NEW v \in Workers PROVE Answer(task'[v], trip', job')
  <2>1. CASE v = w
    BY <1>1, <1>3, <2>1, OwnAnswer
  <2>2. CASE v # w
    BY <1>1, <1>2, <1>3, <2>2, OtherTasks
  <2>3. QED
    BY <2>1, <2>2
<1>4. UNCHANGED task => \A v \in Workers : Answer(task'[v], trip', job')
  BY <1>2
<1>5. /\ \A u \in Users, status \in {"ACTIVE", "DISABLED"} : SetStatus(u, status) => UNCHANGED task
      /\ \A u \in Users : CloseAccount(u) => UNCHANGED task
      /\ \A t \in Trips, next \in JobStates : HermesStep(t, next) => UNCHANGED task
      /\ UNCHANGED vars => UNCHANGED task
  BY DEF SetStatus, CloseAccount, HermesStep, vars
<1>6. \A v \in Workers : Answer(task'[v], trip', job')
  BY <1>3, <1>4, <1>5 DEF Next
<1>7. QED
  BY <1>6 DEF Answers

-----------------------------------------------------------------------------
(* What the rows say of the jobs.                                          *)

LEMMA RowsStep ==
  ASSUME OutcomeInv, [Next]_vars
  PROVE  SubmittingIsUnbound' /\ ChargedOnlyForSuccess' /\ AbsentIsUnbound'
<1>1. TypeInv /\ JobStays
  BY JobStep DEF OutcomeInv, LedgerInv
<1> SUFFICES ASSUME NEW t \in Trips
             PROVE  /\ trip'[t].status \in Active =>
                         (trip'[t].status = "SUBMITTING" <=> ~trip'[t].bound)
                    /\ trip'[t].status = "SUCCESS" => job'[t] = "SUCCESS"
                    /\ trip'[t].bound => job'[t] \notin Unaccepted
                    /\ trip'[t].status = "ABSENT" => ~trip'[t].bound
  BY DEF SubmittingIsUnbound, ChargedOnlyForSuccess, AbsentIsUnbound, Active, Unaccepted
<1>2. /\ trip[t].status \in Active => (trip[t].status = "SUBMITTING" <=> ~trip[t].bound)
      /\ trip[t].status = "SUCCESS" => job[t] = "SUCCESS"
      /\ trip[t].bound => job[t] \notin Unaccepted
      /\ trip[t].status = "ABSENT" => ~trip[t].bound
  BY DEF OutcomeInv, SubmittingIsUnbound, ChargedOnlyForSuccess, AbsentIsUnbound
<1>3. /\ job[t] \notin Unaccepted => job'[t] \notin Unaccepted
      /\ job[t] = "SUCCESS" => job'[t] = "SUCCESS"
  BY <1>1 DEF JobStays, Terminal
<1>4. RowStep(t)
  BY RowSteps
<1>5. CASE Kept(t) \/ Erased(t)
  BY <1>2, <1>3, <1>5 DEF Kept, Erased, Active, Terminal
<1>6. CASE Tried(t)
  BY <1>2, <1>3, <1>6 DEF Tried, Active
<1>7. CASE Inserted(t)
  BY <1>7 DEF Inserted, Active
<1>8. CASE Moved(t)
  BY <1>1, <1>8 DEF Moved, Active
<1>9. CASE Ended(t)
  BY <1>2, <1>3, <1>9 DEF Ended, Active, Terminal
<1>10. QED
  BY <1>4, <1>5, <1>6, <1>7, <1>8, <1>9 DEF RowStep

LEMMA InitOutcome == Init => OutcomeInv
<1> SUFFICES ASSUME Init PROVE OutcomeInv
  OBVIOUS
<1>1. \A t \in Trips : trip[t].status = "ABSENT" /\ ~trip[t].bound
  BY DEF Init, NoTrip
<1>2. \A w \in Workers : task[w].pc = "idle" /\ task[w].todo = {}
  BY DEF Init, Idle
<1>3. QED
  BY <1>1, <1>2, InitLedgerInv
  DEF OutcomeInv, AbsentIsUnbound, SubmittingIsUnbound, ChargedOnlyForSuccess, Answers,
      Answer, Active

LEMMA StepOutcome == OutcomeInv /\ [Next]_vars => OutcomeInv'
  BY StepLedgerInv, AnswersStep, RowsStep DEF OutcomeInv

\* The invariant of the answers holds in every reachable state.
THEOREM OutcomeInvariant == Spec => []OutcomeInv
  BY InitOutcome, StepOutcome, PTL DEF Spec

\* Among active trips, SUBMITTING is exactly "no job id yet", for any number
\* of retries, polls, streams and reconcilers of a trip.
THEOREM SubmittingIsUnboundHolds == Spec => []SubmittingIsUnbound
<1>1. OutcomeInv => SubmittingIsUnbound
  BY DEF OutcomeInv
<1>2. QED
  BY <1>1, OutcomeInvariant, PTL

\* A unit is charged only for a job that succeeded, and a trip is bound only
\* to a job Hermes has accepted.
THEOREM ChargedOnlyForSuccessHolds == Spec => []ChargedOnlyForSuccess
<1>1. OutcomeInv => ChargedOnlyForSuccess
  BY DEF OutcomeInv
<1>2. QED
  BY <1>1, OutcomeInvariant, PTL

\* No duplicate, late or conflicting result settles a trip twice, undoes its
\* binding or changes what its entry was settled to.
THEOREM SettledForGoodHolds == Spec => SettledForGood
<1> DEFINE StaysSettled(t) ==
      /\ trip[t].status \in Terminal => trip'[t].status = trip[t].status
      /\ trip[t].bound => trip'[t].bound
      /\ entry[t] \in {"CONSUMED", "RELEASED"} =>
           entry'[t] = entry[t] \/ (entry'[t] = "NONE" /\ trip'[t].user = Nobody)
<1>1. ASSUME OutcomeInv, [Next]_vars, NEW t \in Trips PROVE StaysSettled(t)
  <2>1. RowStep(t)
    BY <1>1, RowSteps
  <2>2. trip[t].status \in Active => entry[t] = "RESERVED"
    BY <1>1 DEF OutcomeInv, LedgerInv, EntryFollowsTrip
  <2>3. QED
    BY <2>1, <2>2, StatusKinds
    DEF RowStep, Kept, Tried, Inserted, Moved, Ended, Erased
<1>2. OutcomeInv /\ [Next]_vars => [\A t \in Trips : StaysSettled(t)]_vars
  BY <1>1
<1>3. QED
  BY <1>2, OutcomeInvariant, PTL DEF Spec, SettledForGood

\* The owner, status, binding and attempts of an erased trip stay and its entry
\* does not come back, whatever is still in flight.
THEOREM ErasedForGoodHolds == Spec => ErasedForGood
<1> DEFINE StaysErased(t) == trip[t].status # "ABSENT" /\ trip[t].user = Nobody =>
                         trip'[t] = trip[t] /\ entry'[t] = "NONE"
<1>1. ASSUME OutcomeInv, [Next]_vars, NEW t \in Trips PROVE StaysErased(t)
  <2>1. RowStep(t)
    BY <1>1, RowSteps
  <2>2. /\ trip[t].status \in Active => trip[t].user # Nobody
        /\ trip[t].user = Nobody => entry[t] = "NONE"
    BY <1>1 DEF OutcomeInv, LedgerInv, EntryFollowsTrip
  <2>3. QED
    BY <2>1, <2>2 DEF RowStep, Kept, Tried, Inserted, Moved, Ended, Erased
<1>2. OutcomeInv /\ [Next]_vars => [\A t \in Trips : StaysErased(t)]_vars
  BY <1>1
<1>3. QED
  BY <1>2, OutcomeInvariant, PTL DEF Spec, ErasedForGood

-----------------------------------------------------------------------------
(* The unit of a sole create call.                                         *)

\* The task is in, or has just failed to make, a create call for trip t.
Calling(k, t) == k.pc \in {"create", "unsent"} /\ k.trip = t

Dead == {"NONE", "REFUSED", "FAILED", "TIMEOUT", "REJECTED"}

\* A sole caller is alone with a job that has not begun, and while its call is
\* out the unit is not given back.
SoleCaller(t) ==
  /\ \A v, w \in Workers : Calling(task[v], t) /\ Calling(task[w], t) => v = w
  /\ \A w \in Workers : Calling(task[w], t) => job[t] = "NONE"
  /\ \A w \in Workers : Calling(task[w], t) /\ task[w].pc = "create" => entry[t] # "RELEASED"
  /\ entry[t] = "RELEASED" => job[t] \in Dead

SoleCall ==
  \A t \in Trips :
    /\ trip[t].status = "ABSENT" => calls[t] = 0 /\ job[t] = "NONE"
    /\ trip[t].status # "ABSENT" => calls[t] >= 1
    /\ calls[t] <= 1 => SoleCaller(t)

\* What a step may do to the calls of trip t.
Called(t) == trip[t].status # "ABSENT" /\ calls'[t] = 2
FirstCall(t) ==
  /\ trip[t].status = "ABSENT" /\ trip'[t].status # "ABSENT"
  /\ calls'[t] = 1 /\ job'[t] = job[t]
  /\ \E w \in Workers : \A v \in Workers : v # w => task'[v] = task[v]
NoNewCall(t) ==
  /\ calls'[t] = calls[t]
  /\ ~\E w \in Workers : ReserveInsert(w, t)
  /\ \A v \in Workers : Calling(task'[v], t) =>
       Calling(task[v], t) /\ (task'[v].pc = "create" => task[v].pc = "create")
  /\ \/ job'[t] = job[t]
     \/ \E w \in Workers : Calling(task[w], t) /\ task[w].pc = "create" /\ ~Calling(task'[w], t)
     \/ job[t] \in {"SENT", "PENDING", "RUNNING"}

CallStep(t) == Called(t) \/ FirstCall(t) \/ NoNewCall(t)

LEMMA NotInserted ==
  ASSUME TypeInv, NEW t \in Trips,
         trip[t].status # "ABSENT" \/ trip'[t].status = "ABSENT" \/ trip'[t] = trip[t]
  PROVE  ~\E v \in Workers : ReserveInsert(v, t)
<1>1. ASSUME NEW v \in Workers, ReserveInsert(v, t) PROVE FALSE
  <2>1. /\ trip[t].status = "ABSENT"
        /\ trip'[t] = [NoTrip EXCEPT !.user = task[v].user, !.req = task[v].req,
                                     !.status = "SUBMITTING"]
    BY <1>1 DEF ReserveInsert, TypeInv, TypeOK
  <2>2. trip'[t].status = "SUBMITTING"
    BY <2>1 DEF NoTrip
  <2>3. QED
    BY <2>1, <2>2
<1>2. QED
  BY <1>1

\* The first call of a trip is that of its submission.
LEMMA InsertCalls ==
  ASSUME TypeInv, SoleCall, NEW w \in Workers, NEW x \in Trips, ReserveInsert(w, x),
         NEW t \in Trips
  PROVE  CallStep(t)
<1>1. calls \in [Trips -> 0..2] /\ task \in [Workers -> Tasks]
  BY DEF TypeInv, TypeOK
<1>2. /\ trip[x].status = "ABSENT" /\ job' = job /\ task[w].pc = "insert"
      /\ BeginCreate(w, "submit", x, {})
  BY DEF ReserveInsert, At
<1>3. calls[x] = 0
  BY <1>2 DEF SoleCall
<1>4. calls' = [calls EXCEPT ![x] = 1]
  BY <1>1, <1>2, <1>3 DEF BeginCreate, Counted
<1>5. \A v \in Workers : v # w => task'[v] = task[v]
  BY <1>1, <1>2 DEF BeginCreate, Become
<1>6. task'[w].pc = "create" /\ task'[w].trip = x
  BY <1>1, <1>2 DEF BeginCreate, Become, Idle
<1>7. CASE t = x
  <2>1. trip'[x] = [NoTrip EXCEPT !.user = task[w].user, !.req = task[w].req,
                                  !.status = "SUBMITTING"]
    BY DEF ReserveInsert, TypeInv, TypeOK
  <2>2. trip'[x].status = "SUBMITTING"
    BY <2>1 DEF NoTrip
  <2>3. QED
    BY <1>1, <1>2, <1>4, <1>5, <1>7, <2>2 DEF CallStep, FirstCall
<1>8. CASE t # x
  <2>1. trip'[t] = trip[t]
    BY <1>8 DEF ReserveInsert, TypeInv, TypeOK
  <2>2. QED
    BY <1>1, <1>2, <1>4, <1>5, <1>6, <1>8, <2>1, NotInserted DEF CallStep, NoNewCall, Calling
<1>9. QED
  BY <1>7, <1>8

\* A later call of the same trip counts as a second one.
LEMMA RepeatCalls ==
  ASSUME TypeInv, SoleCall, NEW w \in Workers, NEW role \in {"submit", "batch"}, NEW x \in Trips,
         NEW todo, BeginCreate(w, role, x, todo), trip[x].status # "ABSENT", UNCHANGED <<trip, job>>,
         NEW t \in Trips
  PROVE  CallStep(t)
<1>1. calls \in [Trips -> 0..2] /\ task \in [Workers -> Tasks]
  BY DEF TypeInv, TypeOK
<1>2. calls[x] >= 1
  BY DEF SoleCall
<1>3. calls' = [calls EXCEPT ![x] = 2]
  <2>1. calls[x] \in {1, 2}
    BY <1>1, <1>2
  <2>2. calls' = [calls EXCEPT ![x] = IF calls[x] < 2 THEN calls[x] + 1 ELSE calls[x]]
    BY DEF BeginCreate, Counted
  <2>3. (IF calls[x] < 2 THEN calls[x] + 1 ELSE calls[x]) = 2
    BY <2>1
  <2>4. QED
    BY <2>2, <2>3
<1>4. \A v \in Workers : v # w => task'[v] = task[v]
  BY <1>1 DEF BeginCreate, Become
<1>5. task'[w].pc = "create" /\ task'[w].trip = x
  BY <1>1 DEF BeginCreate, Become, Idle
<1>6. CASE t = x
  BY <1>1, <1>3, <1>6 DEF CallStep, Called
<1>7. CASE t # x
  <2>1. calls'[t] = calls[t] /\ job'[t] = job[t]
    BY <1>1, <1>3, <1>7
  <2>2. \A v \in Workers : Calling(task'[v], t) => v # w
    BY <1>5, <1>7 DEF Calling
  <2>3. QED
    BY <1>4, <2>1, <2>2, NotInserted DEF CallStep, NoNewCall
<1>8. QED
  BY <1>6, <1>7

\* A step that begins no create call: the task that moves, if it is one, does
\* not end up in one, and takes the job along only from a create call.
LEMMA OtherCalls ==
  ASSUME TypeInv, NEW w \in Workers, calls' = calls,
         \A v \in Workers : v # w => task'[v] = task[v],
         \/ task'[w] = task[w]
         \/ task'[w].pc \notin {"create", "unsent"}
         \/ task[w].pc = "create" /\ task'[w].pc = "unsent" /\ task'[w].trip = task[w].trip
              /\ job' = job,
         \/ job' = job
         \/ task[w].pc = "create" /\ task'[w].pc # "create"
              /\ \A x \in Trips : x # task[w].trip => job'[x] = job[x],
         NEW t \in Trips, trip'[t].status = "ABSENT" \/ trip[t].status # "ABSENT"
  PROVE  CallStep(t)
<1>1. ~\E v \in Workers : ReserveInsert(v, t)
  BY NotInserted
<1>2. \A v \in Workers : Calling(task'[v], t) =>
        Calling(task[v], t) /\ (task'[v].pc = "create" => task[v].pc = "create")
  BY DEF Calling
<1>3. \/ job'[t] = job[t]
      \/ \E v \in Workers : Calling(task[v], t) /\ task[v].pc = "create" /\ ~Calling(task'[v], t)
  BY DEF Calling
<1>4. QED
  BY <1>1, <1>2, <1>3 DEF CallStep, NoNewCall

\* What each action of a worker does to the calls of a trip.
LEMMA WorkerCalls ==
  ASSUME OutcomeInv, SoleCall, ~GarbledBodies, NEW w \in Workers, Worker(w), NEW t \in Trips
  PROVE  CallStep(t)
<1>1. TypeInv /\ OutcomeInv /\ task \in [Workers -> Tasks] /\ task[w] \in Tasks
  BY DEF OutcomeInv, LedgerInv, TypeInv, TypeOK
<1>2. \A v \in Workers : v # w => task'[v] = task[v]
  BY <1>1, OtherTasks
<1> DEFINE Silent == /\ calls' = calls /\ job' = job /\ task'[w].pc \notin {"create", "unsent"}
                     /\ trip'[t].status = "ABSENT" \/ trip[t].status # "ABSENT"
<1>3. Silent => CallStep(t)
  BY <1>1, <1>2, OtherCalls
<1>4. trip'[t] = trip[t] => trip'[t].status = "ABSENT" \/ trip[t].status # "ABSENT"
  OBVIOUS
<1>5. Finish(w) => task'[w].pc = "idle"
  BY <1>1 DEF Finish, Become, Idle
<1>6. Continue(w) => task'[w].pc \in {"idle", "next"}
  <2>1. \A x : [task[w] EXCEPT !.pc = "next", !.seen = "NONE", !.trip = x].pc = "next"
    BY <1>1 DEF Tasks
  <2>2. Continue(w) => Finish(w) \/ \E x :
          task'[w] = [task[w] EXCEPT !.pc = "next", !.seen = "NONE", !.trip = x]
    BY <1>1 DEF Continue, Become
  <2>3. QED
    BY <1>5, <2>1, <2>2
<1>7. ASSUME NEW x \in Trips, NEW k, NEW statuses, Observe(w, x, k, statuses), k \in Tasks
      PROVE  task'[w].pc = "apply"
  BY <1>1, <1>7 DEF Observe, Become, Tasks
<1>8. ASSUME NEW u \in Users, NEW r \in ReqIds, ReserveRetry(w, u, r) PROVE CallStep(t)
  <2>1. PICK x \in Trips : trip[x].user = u /\ BeginCreate(w, "submit", x, {})
    BY <1>8 DEF ReserveRetry, Owned
  <2>2. trip[x].status # "ABSENT"
    BY <1>1, <2>1, ConstantsAssumption DEF TypeInv, WellFormed
  <2>3. UNCHANGED <<trip, job>>
    BY <1>8 DEF ReserveRetry
  <2>4. QED
    BY <1>1, <2>1, <2>2, <2>3, RepeatCalls
<1>9. ASSUME NEW u \in Users, NEW r \in ReqIds, ReserveDecide(w, u, r) PROVE CallStep(t)
  <2>1. task'[w].pc = "insert"
    BY <1>1, <1>9 DEF ReserveDecide, Become, Idle
  <2>2. QED
    BY <1>3, <1>4, <1>9, <2>1 DEF ReserveDecide
<1>10. \A x \in Trips : ReserveInsert(w, x) => CallStep(t)
  BY <1>1, InsertCalls
<1>11. ASSUME \/ CreateAccepted(w) \/ CreateRefused(w) \/ CreateUnsent(w) \/ CreateUncertain(w)
       PROVE  CallStep(t)
  <2> DEFINE x == task[w].trip
  <2>1. task[w].pc = "create" /\ UNCHANGED <<trip, calls>>
    BY <1>11 DEF CreateAccepted, CreateRefused, CreateUnsent, CreateUncertain, At
  <2>2. \A pc \in {"unsent", "uncertain"} : AfterCreate(w, pc) =>
          task'[w].pc \in {"idle", "next"} \/ (task'[w].pc = pc /\ task'[w].trip = x)
    BY <1>1, <1>6 DEF AfterCreate, Goto, Become, Tasks
  <2>3. \/ task'[w].pc \notin {"create", "unsent"}
        \/ task'[w].pc = "unsent" /\ task'[w].trip = x /\ job' = job
    <3>1. CASE CreateAccepted(w)
      BY <1>1, <3>1 DEF CreateAccepted, Become, Tasks
    <3>2. CASE CreateRefused(w)
      BY <1>1, <1>5, <3>2 DEF CreateRefused, Goto, Become, Tasks
    <3>3. CASE CreateUnsent(w)
      BY <2>2, <3>3 DEF CreateUnsent
    <3>4. CASE CreateUncertain(w)
      BY <2>2, <3>4 DEF CreateUncertain
    <3>5. QED
      BY <1>11, <3>1, <3>2, <3>3, <3>4
  <2>4. \A y \in Trips : y # x => job'[y] = job[y]
    BY <1>1, <1>11
    DEF CreateAccepted, CreateRefused, CreateUnsent, CreateUncertain, Accept, TypeInv, TypeOK
  <2>5. task'[w].pc # "create"
    BY <2>3
  <2>6. QED
    BY <1>1, <1>2, <2>1, <2>3, <2>4, <2>5, OtherCalls
<1>12. ~CreateGarbled(w)
  BY DEF CreateGarbled
<1>13. ASSUME SaveAcceptance(w) \/ MarkUncertain(w) \/ SettleLocally(w) \/ ApplyStatus(w)
              \/ AdjustInsert(w) \/ \E batch \in SUBSET Trips : ReconcileClaim(w, batch)
       PROVE  CallStep(t)
  <2>1. calls' = calls /\ job' = job
    BY <1>13 DEF SaveAcceptance, MarkUncertain, SettleLocally, ApplyStatus, AdjustInsert,
                 ReconcileClaim
  <2>2. task'[w].pc \in {"idle", "next"}
    BY <1>1, <1>5, <1>6, <1>13
    DEF SaveAcceptance, MarkUncertain, SettleLocally, ApplyStatus, AdjustInsert,
        ReconcileClaim, Become, Idle
  <2>3. trip'[t].status = "ABSENT" \/ trip[t].status # "ABSENT"
    <3>1. RowStep(t)
      BY WorkerRows
    <3>2. Inserted(t) => FALSE
      <4>1. ~\E v \in Workers, x \in Trips : ReserveInsert(v, x)
        <5>1. ASSUME NEW v \in Workers, NEW x \in Trips, ReserveInsert(v, x) PROVE FALSE
          <6>1. BeginCreate(v, "submit", x, {})
            BY <5>1 DEF ReserveInsert
          <6>2. task'[v].pc = "create" /\ task[v].pc = "insert"
            BY <1>1, <5>1, <6>1 DEF BeginCreate, Become, Idle, ReserveInsert, At
          <6>3. v = w
            BY <1>2, <6>2
          <6>4. QED
            BY <2>2, <6>2, <6>3
        <5>2. QED
          BY <5>1
      <4>2. QED
        BY <4>1 DEF Inserted
    <3>3. QED
      BY <3>1, <3>2, StatusKinds DEF RowStep, Kept, Tried, Moved, Ended, Erased
  <2>4. QED
    BY <1>3, <2>1, <2>2, <2>3
<1>14. ASSUME NEW u \in Users, NEW x \in Trips, FetchStatus(w, u, x) \/ StreamOpen(w, u, x)
       PROVE  CallStep(t)
  <2>1. CASE FetchStatus(w, u, x)
    <3> DEFINE k == [Idle EXCEPT !.role = "poll", !.user = u]
    <3>1. k \in Tasks
      BY IdleIsTask DEF Tasks
    <3>2. Observe(w, x, k, Reported(x))
      BY <2>1 DEF FetchStatus
    <3> HIDE DEF k
    <3>3. task'[w].pc = "apply"
      BY <1>7, <3>1, <3>2
    <3>4. QED
      BY <1>3, <1>4, <2>1, <3>3 DEF FetchStatus
  <2>2. CASE StreamOpen(w, u, x)
    <3>1. task'[w].pc = "next"
      BY <1>1, <2>2 DEF StreamOpen, Become, Idle
    <3>2. QED
      BY <1>3, <1>4, <2>2, <3>1 DEF StreamOpen
  <2>3. QED
    BY <1>14, <2>1, <2>2
<1>15. ASSUME StreamEvent(w) PROVE CallStep(t)
  <2>1. task[w].trip \in Trips
    BY <1>1, <1>15 DEF StreamEvent, At, TypeInv, WellFormed, Fits
  <2>2. task'[w].pc = "apply"
    BY <1>1, <1>7, <1>15, <2>1 DEF StreamEvent
  <2>3. QED
    BY <1>3, <1>4, <1>15, <2>2 DEF StreamEvent
<1>16. ASSUME NEW x \in Trips, NEW bound \in BOOLEAN, ReconcileItem(w, x, bound)
       PROVE  CallStep(t)
  <2> DEFINE todo == task[w].todo \ {<<x, bound>>}
             k == [task[w] EXCEPT !.todo = todo]
  <2>1. task[w].pc = "next" /\ UNCHANGED <<trip, job>> /\ trip[x].status # "ABSENT"
    BY <1>1, <1>16 DEF ReconcileItem, At, TypeInv, WellFormed, Fits
  <2>2. k \in Tasks /\ k.pc = "next"
    BY <1>1, <2>1 DEF Tasks
  <2>3. \/ BeginCreate(w, "batch", x, k.todo)
        \/ Observe(w, x, k, Reported(x)) /\ UNCHANGED calls
        \/ (Become(w, Idle) \/ Become(w, k)) /\ UNCHANGED calls
    BY <1>16 DEF ReconcileItem
  <2> HIDE DEF todo, k
  <2>4. CASE BeginCreate(w, "batch", x, k.todo)
    BY <1>1, <2>1, <2>4, RepeatCalls
  <2>5. CASE Observe(w, x, k, Reported(x)) /\ UNCHANGED calls
    <3>1. task'[w].pc = "apply"
      BY <1>7, <2>2, <2>5
    <3>2. QED
      BY <1>3, <1>4, <2>1, <2>5, <3>1
  <2>6. CASE (Become(w, Idle) \/ Become(w, k)) /\ UNCHANGED calls
    <3>1. task'[w].pc \in {"idle", "next"}
      BY <1>1, <2>2, <2>6 DEF Become, Idle
    <3>2. QED
      BY <1>3, <1>4, <2>1, <2>6, <3>1
  <2>7. QED
    BY <2>3, <2>4, <2>5, <2>6
<1>17. ASSUME NEW u \in Users, NEW d \in Deltas, AdjustDecide(w, u, d) PROVE CallStep(t)
  <2>1. task'[w].pc = "adjust"
    BY <1>1, <1>17 DEF AdjustDecide, Become, Idle
  <2>2. QED
    BY <1>3, <1>4, <1>17, <2>1 DEF AdjustDecide
<1>18. ASSUME Die(w) PROVE CallStep(t)
  <2>1. task'[w].pc = "idle" /\ UNCHANGED <<trip, calls>>
    BY <1>5, <1>18 DEF Die
  <2>2. \/ job' = job
        \/ task[w].pc = "create" /\ \A x \in Trips : x # task[w].trip => job'[x] = job[x]
    BY <1>18 DEF Die, At
  <2>3. QED
    BY <1>1, <1>2, <2>1, <2>2, OtherCalls
<1>19. QED
  BY <1>8, <1>9, <1>10, <1>11, <1>12, <1>13, <1>14, <1>15, <1>16, <1>17, <1>18 DEF Worker

LEMMA CallSteps ==
  ASSUME OutcomeInv, SoleCall, ~GarbledBodies, [Next]_vars, NEW t \in Trips
  PROVE  CallStep(t)
<1>1. TypeInv /\ RowStep(t)
  BY RowSteps DEF OutcomeInv, LedgerInv
<1>2. ASSUME UNCHANGED <<calls, task>>, trip'[t].status = trip[t].status,
             job'[t] = job[t] \/ job[t] \in {"SENT", "PENDING", "RUNNING"}
      PROVE  CallStep(t)
  BY <1>1, <1>2, NotInserted DEF CallStep, NoNewCall
<1>3. ASSUME NEW u \in Users, CloseAccount(u) PROVE CallStep(t)
  <2>1. trip'[t].status = trip[t].status
    BY <1>1, <1>3, CloseFacts
  <2>2. QED
    BY <1>2, <1>3, <2>1 DEF CloseAccount
<1>4. \A u \in Users, status \in {"ACTIVE", "DISABLED"} : SetStatus(u, status) => CallStep(t)
  BY <1>2 DEF SetStatus
<1>5. ASSUME NEW x \in Trips, NEW next \in JobStates, HermesStep(x, next) PROVE CallStep(t)
  <2>1. job'[t] = job[t] \/ job[t] \in {"SENT", "PENDING", "RUNNING"}
    BY <1>1, <1>5 DEF HermesStep, TypeInv, TypeOK
  <2>2. QED
    BY <1>2, <1>5, <2>1 DEF HermesStep
<1>6. UNCHANGED vars => CallStep(t)
  BY <1>2 DEF vars
<1>7. QED
  BY <1>3, <1>4, <1>5, <1>6, WorkerCalls DEF Next

LEMMA SoleCallStep ==
  ASSUME OutcomeInv, SoleCall, ~GarbledBodies, [Next]_vars
  PROVE  SoleCall'
<1> SUFFICES ASSUME NEW t \in Trips
             PROVE  /\ trip'[t].status = "ABSENT" => calls'[t] = 0 /\ job'[t] = "NONE"
                    /\ trip'[t].status # "ABSENT" => calls'[t] >= 1
                    /\ calls'[t] <= 1 => SoleCaller(t)'
  BY DEF SoleCall
<1>1. TypeInv /\ RowStep(t) /\ CallStep(t)
  BY RowSteps, CallSteps DEF OutcomeInv, LedgerInv
<1>2. calls[t] \in 0..2
  BY <1>1 DEF TypeInv, TypeOK
<1>3. /\ trip[t].status = "ABSENT" => calls[t] = 0 /\ job[t] = "NONE"
      /\ trip[t].status # "ABSENT" => calls[t] >= 1
      /\ calls[t] <= 1 => SoleCaller(t)
  BY DEF SoleCall
<1>4. trip[t].status # "ABSENT" => trip'[t].status # "ABSENT"
  BY <1>1, StatusKinds DEF RowStep, Kept, Tried, Inserted, Moved, Ended, Erased, Active
<1>5. ASSUME NEW w \in Workers, Calling(task[w], t) PROVE trip[t].status # "ABSENT"
  BY <1>1, <1>5 DEF Calling, TypeInv, WellFormed, Fits, OnTrip
\* An entry is given back only by the end of the trip.
<1>6. entry'[t] = "RELEASED" => entry[t] = "RELEASED" \/ Ended(t)
  BY <1>1 DEF RowStep, Kept, Tried, Inserted, Moved, Erased
<1>7. CASE Called(t)
  BY <1>4, <1>7 DEF Called
<1>8. CASE FirstCall(t)
  <2>1. \A v \in Workers : ~Calling(task[v], t)
    BY <1>5, <1>8 DEF FirstCall
  <2>2. job'[t] = "NONE" /\ calls'[t] = 1
    BY <1>3, <1>8 DEF FirstCall
  <2>3. PICK w \in Workers : \A v \in Workers : v # w => task'[v] = task[v]
    BY <1>8 DEF FirstCall
  <2>4. \A v \in Workers : Calling(task'[v], t) => v = w
    BY <2>1, <2>3
  <2>5. trip[t].status = "ABSENT"
    BY <1>8 DEF FirstCall
  <2>6. entry[t] # "RELEASED"
    BY <1>1, <2>5 DEF OutcomeInv, LedgerInv, EntryFollowsTrip, TypeInv, WellFormed
  <2>7. entry'[t] # "RELEASED"
    BY <1>6, <2>5, <2>6, StatusKinds DEF Ended
  <2>8. SoleCaller(t)'
    BY <2>2, <2>4, <2>7 DEF SoleCaller, Dead
  <2>9. trip'[t].status # "ABSENT"
    BY <1>8 DEF FirstCall
  <2>10. QED
    BY <2>2, <2>8, <2>9
<1>9. CASE NoNewCall(t)
  <2>1. trip'[t].status = "ABSENT" <=> trip[t].status = "ABSENT"
    BY <1>1, <1>4, <1>9, StatusKinds
    DEF RowStep, Kept, Tried, Inserted, Moved, Ended, Erased, NoNewCall
  <2>2. calls'[t] = calls[t]
    BY <1>9 DEF NoNewCall
  <2>3. trip[t].status = "ABSENT" => job'[t] = "NONE"
    BY <1>3, <1>5, <1>9 DEF NoNewCall
  <2>4. ASSUME calls[t] <= 1 PROVE SoleCaller(t)'
    <3>1. SoleCaller(t)
      BY <1>3, <2>4
    <3>2. \A v \in Workers : Calling(task'[v], t) =>
            Calling(task[v], t) /\ (task'[v].pc = "create" => task[v].pc = "create")
      BY <1>9 DEF NoNewCall
    <3>3. \A v, w \in Workers : Calling(task'[v], t) /\ Calling(task'[w], t) => v = w
      BY <3>1, <3>2 DEF SoleCaller
    <3>4. CASE job'[t] = job[t]
      <4>1. \A w \in Workers : Calling(task'[w], t) => job'[t] = "NONE"
        BY <3>1, <3>2, <3>4 DEF SoleCaller
      <4>2. CASE ~Ended(t)
        <5>1. entry'[t] = "RELEASED" => entry[t] = "RELEASED"
          BY <1>6, <4>2
        <5>2. QED
          BY <3>1, <3>2, <3>3, <3>4, <4>1, <5>1 DEF SoleCaller
      <4>3. CASE Ended(t)
        <5>1. entry'[t] = "RELEASED" => job[t] \in Dead
          <6>1. \/ job[t] = trip'[t].status
                \/ job[t] = "REFUSED"
                \/ \E w \in Workers : At(w, "unsent") /\ task[w].trip = t
            BY <4>3 DEF Ended
          <6>2. (\E w \in Workers : At(w, "unsent") /\ task[w].trip = t) => job[t] = "NONE"
            BY <3>1 DEF At, Calling, SoleCaller
          <6>3. entry'[t] = QuotaStatus(trip'[t].status) /\ trip'[t].status \in Terminal
            BY <4>3 DEF Ended
          <6>4. QED
            BY <6>1, <6>2, <6>3 DEF QuotaStatus, Terminal, Dead
        <5>2. \A w \in Workers : Calling(task'[w], t) /\ task'[w].pc = "create" => FALSE
          <6>1. ASSUME NEW w \in Workers, Calling(task'[w], t), task'[w].pc = "create" PROVE FALSE
            <7>1. Calling(task[w], t) /\ task[w].pc = "create" /\ job[t] = "NONE"
              BY <3>1, <3>2, <6>1 DEF SoleCaller
            <7>2. ~\E v \in Workers : At(v, "unsent") /\ task[v].trip = t
              BY <3>1, <7>1 DEF SoleCaller, At, Calling
            <7>3. QED
              BY <4>3, <7>1, <7>2 DEF Ended, Terminal
          <6>2. QED
            BY <6>1
        <5>3. QED
          BY <3>3, <3>4, <4>1, <5>1, <5>2 DEF SoleCaller
      <4>4. QED
        BY <4>2, <4>3
    <3>5. CASE job'[t] # job[t]
      <4>1. \/ \E w \in Workers : Calling(task[w], t) /\ task[w].pc = "create" /\ ~Calling(task'[w], t)
            \/ job[t] \in {"SENT", "PENDING", "RUNNING"}
        BY <1>9, <3>5 DEF NoNewCall
      <4>2. \A v \in Workers : ~Calling(task'[v], t)
        BY <3>1, <3>2, <4>1 DEF SoleCaller
      <4>3. entry[t] # "RELEASED"
        BY <3>1, <4>1 DEF SoleCaller, Dead
      <4>4. entry'[t] # "RELEASED"
        BY <1>6, <3>5, <4>3 DEF Ended
      <4>5. QED
        BY <4>2, <4>4 DEF SoleCaller
    <3>6. QED
      BY <3>4, <3>5
  <2>5. QED
    BY <1>3, <2>1, <2>2, <2>3, <2>4
<1>10. QED
  BY <1>1, <1>7, <1>8, <1>9 DEF CallStep

LEMMA InitSoleCall == Init => SoleCall
<1> SUFFICES ASSUME Init PROVE SoleCall
  OBVIOUS
<1>1. \A t \in Trips : /\ trip[t].status = "ABSENT" /\ calls[t] = 0 /\ job[t] = "NONE"
                       /\ entry[t] = "NONE"
  BY DEF Init, NoTrip
<1>2. \A w \in Workers : task[w].pc = "idle"
  BY DEF Init, Idle
<1>3. QED
  BY <1>1, <1>2 DEF SoleCall, SoleCaller, Calling

\* If create answers always carry JSON objects, a unit whose trip made one
\* create call is given back only when that call's job cannot succeed.
THEOREM SoleCallReleaseHolds ==
  ASSUME ~GarbledBodies
  PROVE  Spec => []SoleCallRelease
<1>1. OutcomeInv /\ SoleCall /\ [Next]_vars => (OutcomeInv /\ SoleCall)'
  BY StepOutcome, SoleCallStep
<1>2. SoleCall => SoleCallRelease
  BY DEF SoleCall, SoleCaller, SoleCallRelease, Dead
<1>3. QED
  BY <1>1, <1>2, InitOutcome, InitSoleCall, PTL DEF Spec
=============================================================================
