--------------------------- MODULE ProjectionView ---------------------------
(***************************************************************************)
(* What the trip projection of the admin pages promises, with no broker,   *)
(* consumer or database in sight: hermes-travel commits events to a log,   *)
(* the projection absorbs them one by one, in order and without a gap, and *)
(* a row of the projection only ever moves to a newer snapshot the log     *)
(* holds.  ProjectionStream implements it.                                 *)
(***************************************************************************)
EXTENDS Integers, Sequences

CONSTANTS
  Jobs,    \* trip jobs of hermes-travel
  Steps,   \* their steps
  JobOf    \* JobOf[s]: the job of step s

VARIABLES
  log,      \* log[n]: the job and steps that event n changes
  applied,  \* events 1..applied are in the projection
  version   \* version[e]: the event e is shown as of, 0 without a row

view == <<log, applied, version>>

Entities == Jobs \cup Steps

\* An event changes one job and some of its steps.
Changes == {chg \in SUBSET Entities :
              \E j \in chg \cap Jobs :
                chg \ {j} \subseteq {s \in Steps : JobOf[s] = j}}

Init ==
  /\ log = <<>>
  /\ applied = 0
  /\ version = [e \in Entities |-> 0]

Commit(chg) ==
  /\ log' = Append(log, chg)
  /\ UNCHANGED <<applied, version>>

\* The rows of version event n replaces: those it changes that are older.
Absorbed(n) == [e \in Entities |-> IF e \in log[n] /\ version[e] < n THEN n ELSE version[e]]

ApplyNext ==
  /\ applied < Len(log)
  /\ applied' = applied + 1
  /\ version' = Absorbed(applied + 1)
  /\ UNCHANGED log

\* A row moves forward without an event: a snapshot was read from the source.
Refresh(e) ==
  /\ \E n \in DOMAIN log :
       e \in log[n] /\ n > version[e] /\ version' = [version EXCEPT ![e] = n]
  /\ e \in Steps => version[JobOf[e]] > 0
  /\ UNCHANGED <<log, applied>>

Next ==
  \/ \E chg \in Changes : Commit(chg)
  \/ ApplyNext
  \/ \E e \in Entities : Refresh(e)

Spec == Init /\ [][Next]_view
=============================================================================
