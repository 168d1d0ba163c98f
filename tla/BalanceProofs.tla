---------------------------- MODULE BalanceProofs ----------------------------
(***************************************************************************)
(* What TLAPS proves of the balances of Accounts, for any users, keys and  *)
(* requests: every value has its type, adjustments and trips together      *)
(* never use more than was granted, an adjustment tells the balance it     *)
(* leaves, and a reversal cancels what it reverses.                        *)
(*                                                                         *)
(* quota_snapshot is a sum over the adjustments of a user.  The first part *)
(* is about such sums: the fold over a finite set gives an integer, the    *)
(* same for deltas that agree, and one more element adds its delta in      *)
(* whatever order the fold takes them.  The second part types the values   *)
(* that AccountsProofs leaves open, the third follows a balance from the   *)
(* check under the lock of the user row to the commit, and the fourth an   *)
(* adjustment from its lookup without a lock to the commit of its reversal.*)
(***************************************************************************)
EXTENDS AccountsProofs

-----------------------------------------------------------------------------
(* Sums over a finite set.                                                 *)

\* The element of s that the fold takes first.
First(s) == CHOOSE x \in s : TRUE

\* g sums the deltas of d over every subset of S, as the fold does.
Sums(S, d, g) ==
  g = [s \in SUBSET S |-> IF s = {} THEN 0 ELSE d[First(s)].delta + g[s \ {First(s)}]]

\* The sum of the deltas of d over S: what quota_snapshot adds up.
Total(d, S) == MapThenSumSet(LAMBDA k : d[k].delta, S)

\* Among sets of subsets of a finite set there is a least one.
LEMMA LeastSet ==
  ASSUME NEW K, IsFiniteSet(K), NEW T \in SUBSET (SUBSET K), T # {}
  PROVE  \E x \in T : \A y \in T : ~(y \subseteq x /\ y # x)
<1>1. T \subseteq FiniteSubsetsOf(K)
  BY FS_Subset DEF FiniteSubsetsOf
<1>2. IsWellFoundedOn(StrictSubsetOrdering(K), FiniteSubsetsOf(K))
  BY FS_StrictSubsetOrderingWellFounded
<1>3. \E x \in T : \A y \in T : ~ (<<y, x>> \in StrictSubsetOrdering(K))
  BY <1>1, <1>2, WFMin
<1>4. QED
  BY <1>3 DEF StrictSubsetOrdering

LEMMA LeastNatural ==
  ASSUME NEW T \in SUBSET Nat, T # {}
  PROVE  \E m \in T : \A n \in T : ~(n < m)
<1>1. IsWellFoundedOn(OpToRel(<, Nat), Nat)
  BY NatLessThanWellFounded
<1>2. \E m \in T : \A n \in T : ~ (<<n, m>> \in OpToRel(<, Nat))
  BY <1>1, WFMin
<1>3. QED
  BY <1>2 DEF OpToRel

LEMMA TotalIsChosen ==
  ASSUME NEW d, NEW S
  PROVE  Total(d, S) = (CHOOSE g : Sums(S, d, g))[S]
BY DEF Total, MapThenSumSet, MapThenFoldSet, Sums, First

\* The first element of a set that is not empty.
LEMMA FirstOne ==
  ASSUME NEW s, s # {}
  PROVE  First(s) \in s /\ s \ {First(s)} \subseteq s /\ s \ {First(s)} # s
BY DEF First

\* One unfolding.
LEMMA SumsStep ==
  ASSUME NEW K, NEW d, NEW g, Sums(K, d, g), NEW s \in SUBSET K
  PROVE  g[s] = IF s = {} THEN 0 ELSE d[First(s)].delta + g[s \ {First(s)}]
<1>. DEFINE f(t) == IF t = {} THEN 0 ELSE d[First(t)].delta + g[t \ {First(t)}]
<1>1. g = [t \in SUBSET K |-> f(t)]
  BY DEF Sums
<1>. HIDE DEF f
<1>2. g[s] = f(s)
  BY <1>1
<1>. QED
  BY <1>2 DEF f

\* Sums of deltas that agree on a set agree on it.
LEMMA SumsAgree ==
  ASSUME NEW K, NEW L, IsFiniteSet(K), NEW d, NEW e, NEW g, NEW h, Sums(K, d, g), Sums(L, e, h),
         NEW S \in SUBSET K, S \in SUBSET L, \A k \in S : d[k].delta = e[k].delta
  PROVE  g[S] = h[S]
<1>. DEFINE T == {s \in SUBSET S : g[s] # h[s]}
<1>1. SUFFICES ASSUME T # {} PROVE FALSE
  OBVIOUS
<1>2. IsFiniteSet(S)
  BY FS_Subset
<1>3. PICK s \in T : \A y \in T : ~(y \subseteq s /\ y # s)
  <2>1. T \in SUBSET (SUBSET S)
    OBVIOUS
  <2>. HIDE DEF T
  <2>. QED
    BY <1>1, <1>2, <2>1, LeastSet
<1>4. /\ g[s] = IF s = {} THEN 0 ELSE d[First(s)].delta + g[s \ {First(s)}]
      /\ h[s] = IF s = {} THEN 0 ELSE e[First(s)].delta + h[s \ {First(s)}]
  <2>1. s \in SUBSET K /\ s \in SUBSET L
    OBVIOUS
  <2>2. QED
    BY <2>1, SumsStep
<1>5. s # {}
  BY <1>4
<1>6. PICK x \in s : x = First(s)
  BY <1>5, FirstOne
<1>7. g[s \ {x}] = h[s \ {x}]
  <2>1. s \ {x} \in SUBSET S /\ s \ {x} \subseteq s /\ s \ {x} # s
    BY <1>6
  <2>2. s \ {x} \notin T
    BY <1>3, <2>1
  <2>3. QED
    BY <2>1, <2>2
<1>8. d[x].delta = e[x].delta
  OBVIOUS
<1>9. g[s] = h[s]
  BY <1>4, <1>5, <1>6, <1>7, <1>8
<1>10. QED
  BY <1>9

\* There are sums: at each level of the subsets the sums of the level below.
LEMMA SumsExist ==
  ASSUME NEW K, IsFiniteSet(K), NEW d, \A k \in K : d[k].delta \in Int
  PROVE  \E g \in [SUBSET K -> Int] : Sums(K, d, g)
<1>. DEFINE F(g, s) == IF s = {} THEN 0 ELSE d[First(s)].delta + g[s \ {First(s)}]
            P(n) == \E g \in [SUBSET K -> Int] :
                      \A s \in SUBSET K : Cardinality(s) <= n => g[s] = F(g, s)
            T == {n \in Nat : ~P(n)}
<1>1. \A s \in SUBSET K : IsFiniteSet(s) /\ Cardinality(s) \in Nat /\ Cardinality(s) <= Cardinality(K)
  BY FS_Subset, FS_CardinalityType
<1>2. ASSUME NEW g \in [SUBSET K -> Int] PROVE [s \in SUBSET K |-> F(g, s)] \in [SUBSET K -> Int]
  <2>1. ASSUME NEW s \in SUBSET K PROVE F(g, s) \in Int
    <3>1. CASE s = {}
      BY <3>1
    <3>2. CASE s # {}
      BY <1>2, <3>2, FirstOne
    <3>3. QED
      BY <3>1, <3>2
  <2>. HIDE DEF F
  <2>2. QED
    BY <2>1
<1>3. P(0)
  <2>. DEFINE g == [s \in SUBSET K |-> 0]
  <2>1. g \in [SUBSET K -> Int]
    OBVIOUS
  <2>2. ASSUME NEW s \in SUBSET K, Cardinality(s) <= 0 PROVE g[s] = F(g, s)
    <3>1. s = {}
      BY <1>1, <2>2, FS_EmptySet
    <3>2. QED
      BY <3>1
  <2>. HIDE DEF g, F
  <2>3. QED
    BY <2>1, <2>2
<1>4. ASSUME NEW n \in Nat, P(n) PROVE P(n + 1)
  <2>1. PICK g \in [SUBSET K -> Int] :
              \A s \in SUBSET K : Cardinality(s) <= n => g[s] = F(g, s)
    BY <1>4
  <2>. DEFINE h == [s \in SUBSET K |-> F(g, s)]
  <2>2. h \in [SUBSET K -> Int]
    BY <1>2
  <2>3. ASSUME NEW s \in SUBSET K, Cardinality(s) <= n + 1 PROVE h[s] = F(h, s)
    <3>0. h[s] = F(g, s)
      <4>. HIDE DEF F
      <4>. QED OBVIOUS
    <3>1. CASE s = {}
      BY <3>0, <3>1
    <3>2. CASE s # {}
      <4>1. PICK x \in s : x = First(s)
        BY <3>2, FirstOne
      <4>2. PICK t \in SUBSET K : t = s \ {x}
        OBVIOUS
      <4>3. Cardinality(t) <= n
        <5>1. IsFiniteSet(s)
          BY <1>1
        <5>2. IsFiniteSet(s \ {x}) /\ Cardinality(s \ {x}) = Cardinality(s) - 1
          BY ONLY <5>1, FS_RemoveElement
        <5>3. QED
          BY <1>1, <2>3, <4>2, <5>2
      <4>4. g[t] = F(g, t)
        BY <2>1, <4>3
      <4>5. h[t] = F(g, t)
        <5>. HIDE DEF F
        <5>. QED OBVIOUS
      <4>6. QED
        BY <3>0, <3>2, <4>1, <4>2, <4>4, <4>5
    <3>3. QED
      BY <3>1, <3>2
  <2>. HIDE DEF h, F
  <2>4. QED
    BY <2>2, <2>3
<1>5. \A n \in Nat : P(n)
  <2>. HIDE DEF P
  <2>1. SUFFICES ASSUME T # {} PROVE FALSE
    OBVIOUS
  <2>2. PICK m \in T : \A n \in T : ~(n < m)
    BY <2>1, LeastNatural
  <2>3. m \in Nat /\ ~P(m)
    OBVIOUS
  <2>4. m # 0
    BY <1>3, <2>3
  <2>5. m - 1 \in Nat /\ m - 1 < m /\ m = (m - 1) + 1
    BY <2>3, <2>4
  <2>6. P(m - 1)
    BY <2>2, <2>5
  <2>7. P((m - 1) + 1)
    BY <1>4, <2>5, <2>6
  <2>8. QED
    BY <2>3, <2>5, <2>7
<1>6. P(Cardinality(K))
  <2>1. Cardinality(K) \in Nat
    BY <1>1
  <2>. HIDE DEF P
  <2>. QED
    BY <1>5, <2>1
<1>7. PICK g \in [SUBSET K -> Int] : \A s \in SUBSET K : g[s] = F(g, s)
  <2>1. PICK g \in [SUBSET K -> Int] :
              \A s \in SUBSET K : Cardinality(s) <= Cardinality(K) => g[s] = F(g, s)
    BY <1>6
  <2>. HIDE DEF F
  <2>2. QED
    BY <1>1, <2>1
<1>8. g = [s \in SUBSET K |-> F(g, s)]
  <2>. HIDE DEF F
  <2>. QED
    BY <1>7
<1>9. QED
  BY <1>8 DEF Sums

\* g tells the totals of all subsets of K.
\* d has a delta for every element of K; g sums them over every subset of K.
Deltas(K, d) == \A k \in K : d[k].delta \in Int
Totals(K, d, g) ==
  g \in [SUBSET K -> Int] /\ Sums(K, d, g) /\ \A S \in SUBSET K : Total(d, S) = g[S]

\* The fold over a set is the sum that any function of sums gives it.
LEMMA TotalIsSum ==
  ASSUME NEW K, IsFiniteSet(K), NEW d, Deltas(K, d)
  PROVE  \E g : Totals(K, d, g)
<1>1. PICK g \in [SUBSET K -> Int] : Sums(K, d, g)
  BY SumsExist DEF Deltas
<1>2. ASSUME NEW S \in SUBSET K PROVE Total(d, S) = g[S]
  <2>1. IsFiniteSet(S) /\ \A k \in S : d[k].delta \in Int
    BY FS_Subset DEF Deltas
  <2>2. \E f : Sums(S, d, f)
    BY <2>1, SumsExist
  <2>3. PICK h : h = CHOOSE f : Sums(S, d, f)
    OBVIOUS
  <2>4. Sums(S, d, h)
    BY <2>2, <2>3
  <2>5. S \in SUBSET S /\ \A k \in S : d[k].delta = d[k].delta
    OBVIOUS
  <2>6. h[S] = g[S]
    BY <1>1, <2>1, <2>4, <2>5, SumsAgree
  <2>7. Total(d, S) = h[S]
    BY <2>3, TotalIsChosen
  <2>8. QED
    BY <2>6, <2>7
<1>3. QED
  BY <1>1, <1>2 DEF Totals

\* A sum of integers is one.
LEMMA TotalInt ==
  ASSUME NEW S, IsFiniteSet(S), NEW d, Deltas(S, d)
  PROVE  Total(d, S) \in Int
<1>1. PICK g : Totals(S, d, g)
  BY TotalIsSum
<1>2. QED
  BY <1>1 DEF Totals

LEMMA TotalNone ==
  ASSUME NEW d
  PROVE  Total(d, {}) = 0
<1>1. IsFiniteSet({}) /\ Deltas({}, d)
  BY FS_EmptySet DEF Deltas
<1>2. PICK g : Totals({}, d, g)
  BY <1>1, TotalIsSum
<1>3. g[{}] = 0
  BY <1>2 DEF Totals, Sums
<1>4. QED
  BY <1>2, <1>3 DEF Totals

LEMMA TotalAgrees ==
  ASSUME NEW S, IsFiniteSet(S), NEW d, NEW e, Deltas(S, d),
         \A k \in S : e[k].delta = d[k].delta
  PROVE  Total(e, S) = Total(d, S)
<1>0. Deltas(S, e)
  BY DEF Deltas
<1>1. PICK g : Totals(S, d, g)
  BY TotalIsSum
<1>2. PICK h : Totals(S, e, h)
  BY <1>0, TotalIsSum
<1>3. h[S] = g[S]
  <2>1. S \in SUBSET S
    OBVIOUS
  <2>2. QED
    BY <1>1, <1>2, <2>1, SumsAgree DEF Totals
<1>4. QED
  BY <1>1, <1>2, <1>3 DEF Totals

\* One more element adds its delta, whichever element the fold begins with.
LEMMA SumsInsert ==
  ASSUME NEW K, IsFiniteSet(K), NEW d, Deltas(K, d), NEW g, Totals(K, d, g),
         NEW S \in SUBSET K, NEW y \in K \ S
  PROVE  g[S \cup {y}] = d[y].delta + g[S]
<1>. DEFINE T == {s \in SUBSET K : \E z \in K \ s : g[s \cup {z}] # d[z].delta + g[s]}
<1>1. SUFFICES ASSUME T # {} PROVE FALSE
  OBVIOUS
<1>2. PICK s \in T : \A t \in T : ~(t \subseteq s /\ t # s)
  <2>1. T \in SUBSET (SUBSET K)
    OBVIOUS
  <2>. HIDE DEF T
  <2>. QED
    BY <1>1, <2>1, LeastSet
<1>3. PICK z \in K \ s : g[s \cup {z}] # d[z].delta + g[s]
  OBVIOUS
<1>4. PICK u \in SUBSET K : u = s \cup {z}
  OBVIOUS
<1>5. PICK x \in u : x = First(u) /\ g[u] = d[x].delta + g[u \ {x}]
  <2>1. u # {}
    BY <1>4
  <2>2. PICK x \in u : x = First(u)
    BY <2>1, FirstOne
  <2>3. g[u] = IF u = {} THEN 0 ELSE d[First(u)].delta + g[u \ {First(u)}]
    BY SumsStep DEF Totals
  <2>4. QED
    BY <2>1, <2>2, <2>3
<1>6. CASE x = z
  <2>1. u \ {x} = s
    BY <1>4, <1>6
  <2>2. QED
    BY <1>3, <1>4, <1>5, <1>6, <2>1
<1>7. CASE x # z
  <2>1. PICK t \in SUBSET K : t = s \ {x}
    OBVIOUS
  <2>2. /\ t \notin T /\ x \in K \ t /\ z \in K \ t
        /\ t \cup {x} = s /\ u \ {x} = t \cup {z}
    BY <1>2, <1>4, <1>7, <2>1
  <2>3. \A v \in K \ t : g[t \cup {v}] = d[v].delta + g[t]
    BY <2>2
  <2>4. g[s] = d[x].delta + g[t] /\ g[u \ {x}] = d[z].delta + g[t]
    BY <2>2, <2>3
  <2>5. d[x].delta \in Int /\ d[z].delta \in Int /\ g[t] \in Int
    BY <2>2 DEF Deltas, Totals
  <2>6. g[u] = d[z].delta + g[s]
    BY <1>5, <2>4, <2>5
  <2>7. QED
    BY <1>3, <1>4, <2>6
<1>8. QED
  BY <1>6, <1>7

LEMMA TotalInsert ==
  ASSUME NEW S, IsFiniteSet(S), NEW d, NEW y, y \notin S, Deltas(S \cup {y}, d)
  PROVE  Total(d, S \cup {y}) = d[y].delta + Total(d, S)
<1>1. PICK K : K = S \cup {y}
  OBVIOUS
<1>2. IsFiniteSet(K) /\ Deltas(K, d)
  BY <1>1, FS_AddElement
<1>3. PICK g : Totals(K, d, g)
  BY <1>2, TotalIsSum
<1>4. S \in SUBSET K /\ y \in K \ S
  BY <1>1
<1>5. g[S \cup {y}] = d[y].delta + g[S]
  BY <1>2, <1>3, <1>4, SumsInsert
<1>6. QED
  BY <1>1, <1>3, <1>4, <1>5 DEF Totals

-----------------------------------------------------------------------------
(* Types.                                                                  *)

\* What TypeOK says beside Shapes, and that users have names.
Typed ==
  /\ claim \in [Keys -> Claims]
  /\ ledger \in [Keys -> Entries]
  /\ spent \in [Users -> Nat]
  /\ batch \in [Batches -> BatchRows]
  /\ quarantine \in SUBSET Names
  /\ trace \in [Keys \cup Workers -> Traces]
  /\ task \in [Workers -> Tasks]
  /\ logged \in [Users -> [status : Statuses, role : Roles]]
  /\ booted \in BOOLEAN
  /\ told \in [Keys -> Answers]
  /\ \A u \in Users : Exists(u) => account[u].name # Nobody

LEMMA TypedIsTypeOK ==
  ASSUME IInv, Typed
  PROVE  TypeOK
BY DEF IInv, Shapes, Typed, TypeOK, Optional

\* What Tasks says of a task beside its TaskShape.
TaskTyped(k) ==
  /\ k.pc \in Points /\ k.who \in {"USER", "ADMIN", "OWNER"} /\ k.target \in Optional(Users)
  /\ k.delta \in Int /\ k.seen \in Views /\ k.name \in Optional(Names) /\ k.barred \in BOOLEAN

LEMMA TaskOfShape ==
  ASSUME NEW k, TaskShape(k), TaskTyped(k)
  PROVE  k \in Tasks
BY DEF TaskShape, TaskTyped, Tasks

LEMMA TaskFields ==
  ASSUME NEW k \in Tasks
  PROVE  TaskTyped(k)
BY DEF TaskTyped, Tasks

LEMMA IdleTyped == TaskTyped(Idle)
BY DEF TaskTyped, Idle, Points, Optional, Views, NoView, Statuses, Roles

\* A step of v that replaces its locals by typed ones.
LEMMA TaskReplaced ==
  ASSUME IInv, IInv', Typed, NEW v \in Workers, NEW k, task' = [task EXCEPT ![v] = k], TaskTyped(k)
  PROVE  task' \in [Workers -> Tasks]
<1>1. /\ task \in [Workers -> Tasks] /\ task' = [w \in Workers |-> task'[w]]
      /\ task'[v] = k /\ \A w \in Workers \ {v} : task'[w] = task[w]
  BY TaskStep DEF IInv, Typed
<1>2. TaskShape(k)
  BY <1>1 DEF IInv, Shape
<1>3. k \in Tasks
  BY <1>2, TaskOfShape
<1>4. \A w \in Workers : task'[w] \in Tasks
  BY <1>1, <1>3
<1>5. QED
  BY <1>1, <1>4

LEMMA GoneOn ==
  ASSUME IInv, IInv', Typed, NEW v \in Workers, NEW pc \in Points, GoOn(v, pc)
  PROVE  task' \in [Workers -> Tasks]
<1>1. task[v] \in Tasks /\ TaskTyped(task[v])
  BY TaskFields DEF Typed
<1>2. PICK k : k = [task[v] EXCEPT !.pc = pc]
  OBVIOUS
<1>3. task' = [task EXCEPT ![v] = k]
  BY <1>2 DEF GoOn, IInv, Shapes
<1>4. TaskTyped(k)
  BY <1>1, <1>2 DEF Tasks, TaskTyped
<1>5. QED
  BY <1>3, <1>4, TaskReplaced

LEMMA Ended ==
  ASSUME IInv, IInv', Typed, NEW v \in Workers, Finish(v)
  PROVE  task' \in [Workers -> Tasks]
BY IdleTyped, TaskReplaced DEF Finish

\* A step that writes no row and tells nothing.
LEMMA TypedSame ==
  ASSUME Typed, UNCHANGED rows, told' \in [Keys -> Answers], task' \in [Workers -> Tasks]
  PROVE  Typed'
BY DEF Typed, rows, Exists

LEMMA TypedRefusing ==
  ASSUME IInv, IInv', Typed, NEW w \in Workers, Refuse(w)
  PROVE  Typed'
<1>1. UNCHANGED <<rows, told>> /\ GoOn(w, "refused") /\ "refused" \in Points
  BY DEF Refuse, history, Points
<1>2. task' \in [Workers -> Tasks]
  BY <1>1, GoneOn
<1>3. told' \in [Keys -> Answers]
  BY <1>1 DEF Typed
<1>4. QED
  BY <1>1, <1>2, <1>3, TypedSame

\* The adjustments of a user.
Adjustments(u) == {k \in Keys : ledger[k].target = u}

LEMMA BalanceIs ==
  ASSUME NEW u
  PROVE  Balance(u) = Grant - spent[u] + Total(ledger, Adjustments(u))
BY DEF Balance, Total, Adjustments

\* Of a number and zero the greater one.
LEMMA GreaterOfZero ==
  ASSUME NEW n \in Int
  PROVE  Max({n, 0}) = IF n >= 0 THEN n ELSE 0
<1>1. \A x \in {n, 0} : (\A y \in {n, 0} : x >= y) <=> x = (IF n >= 0 THEN n ELSE 0)
  OBVIOUS
<1>2. (IF n >= 0 THEN n ELSE 0) \in {n, 0}
  OBVIOUS
<1>3. PICK m \in {n, 0} : m = IF n >= 0 THEN n ELSE 0
  BY <1>2
<1>4. \A x \in {n, 0} : (\A y \in {n, 0} : x >= y) <=> x = m
  BY <1>1, <1>3
<1>5. Max({n, 0}) = m
  BY <1>4 DEF Max
<1>6. QED
  BY <1>3, <1>5

LEMMA BalanceInt ==
  ASSUME Typed, NEW u \in Users
  PROVE  /\ IsFiniteSet(Adjustments(u)) /\ Deltas(Adjustments(u), ledger)
         /\ Balance(u) \in Int
         /\ Remaining(u) = IF Balance(u) >= 0 THEN Balance(u) ELSE 0
         /\ Remaining(u) \in Int
<1>1. IsFiniteSet(Adjustments(u))
  BY AccountsAssumption, FS_Subset DEF Adjustments
<1>2. Deltas(Adjustments(u), ledger)
  BY DEF Deltas, Adjustments, Typed, Entries
<1>3. Total(ledger, Adjustments(u)) \in Int
  BY <1>1, <1>2, TotalInt
<1>4. Balance(u) \in Int
  BY <1>3, BalanceIs, AccountsAssumption DEF Typed
<1>5. Remaining(u) = IF Balance(u) >= 0 THEN Balance(u) ELSE 0
  BY <1>4, GreaterOfZero DEF Remaining
<1>6. QED
  BY <1>1, <1>2, <1>4, <1>5

LEMMA ViewTyped ==
  ASSUME IInv, Typed, NEW u \in Users
  PROVE  View(u) \in Views
<1>1. account[u] \in Accounts /\ Remaining(u) \in Int
  BY BalanceInt DEF IInv, Shapes
<1>2. QED
  BY <1>1 DEF View, Views, Accounts, Optional

LEMMA NoViewTyped == NoView \in Views
BY DEF NoView, Views, Statuses, Roles, Optional

LEMMA NoneTold ==
  ASSUME Typed, UNCHANGED told
  PROVE  told' \in [Keys -> Answers]
BY DEF Typed

\* An answer of a view, with or without codes.
LEMMA AnswerTyped ==
  ASSUME IInv, Typed, NEW key \in Keys, NEW answer \in Views, NEW codes, Answer(key, answer, codes)
  PROVE  told' \in [Keys -> Answers]
<1>1. PICK a \in Answers : a = told[key]
  BY DEF Typed
<1>2. PICK n \in Nat : n = a.disclosed + (IF codes THEN 1 ELSE 0)
  BY DEF Answers
<1>3. PICK s \in SUBSET Views : s = a.said \cup {answer}
  BY DEF Answers
<1>4. PICK b : b = [said |-> s, disclosed |-> n]
  OBVIOUS
<1>5. told' = [told EXCEPT ![key] = b]
  BY <1>1, <1>2, <1>3, <1>4, Zenon DEF Answer
<1>6. b \in Answers
  BY <1>4 DEF Answers
<1>7. QED
  BY <1>5, <1>6 DEF Typed

LEMMA AdmitAdminTyped ==
  ASSUME IInv, IInv', Typed, NEW w \in Workers, AdmitAdmin(w)
  PROVE  Typed'
<1>1. PICK r \in Requests : r = request[w]
  BY DEF IInv, Shapes
<1>2. r.by \in Users /\ r.delta \in Int
  BY AccountsAssumption
<1>3. PICK pc \in Points :
        pc = IF Identity(r.by) = "USER" THEN "refused"
             ELSE IF r.action = "QUOTA_REVERSE" THEN "lookup"
             ELSE IF r.action \in Writes THEN "claim" ELSE "admitted"
  BY DEF Points
<1>4. PICK u \in Optional(Users) : u = IF r.on \in Users THEN r.on ELSE Nobody
  BY DEF Optional
<1>5. PICK who \in {"USER", "ADMIN", "OWNER"} : who = Identity(r.by)
  BY <1>2 DEF Identity, IInv, Shapes, Accounts, Roles
<1>6. task[w] \in Tasks /\ TaskTyped(task[w])
  BY TaskFields DEF Typed
<1>7. PICK k : k = [task[w] EXCEPT !.who = who, !.pc = pc, !.target = u, !.delta = r.delta]
  OBVIOUS
<1>8. task' = [task EXCEPT ![w] = k]
  BY <1>1, <1>3, <1>4, <1>5, <1>7 DEF AdmitAdmin, IInv, Shapes
<1>9. TaskTyped(k)
  BY <1>2, <1>6, <1>7 DEF Tasks, TaskTyped
<1>10. task' \in [Workers -> Tasks]
  BY <1>8, <1>9, TaskReplaced
<1>11. UNCHANGED <<rows, told>>
  BY DEF AdmitAdmin, history
<1>12. QED
  BY <1>10, <1>11, NoneTold, TypedSame

LEMMA NamedBy ==
  ASSUME IInv, NEW w \in Workers
  PROVE  request[w].by \in Users
BY AccountsAssumption DEF IInv, Shapes

\* An audit row that names no key's write.
LEMMA AuditTyped ==
  ASSUME IInv, IInv', Typed, NEW w \in Workers, RecordRefusal(w) \/ Reveal(w)
  PROVE  Typed'
<1>1. UNCHANGED <<account, claim, ledger, spent, batch, quarantine, logged, booted, told>> /\ Finish(w)
  BY DEF RecordRefusal, Reveal, history
<1>2. task' \in [Workers -> Tasks]
  BY <1>1, Ended
<1>3. trace[w] \in Traces /\ task[w].target \in Optional(Users) /\ request[w].by \in Users
  BY NamedBy, TaskFields DEF Typed, TaskTyped
<1>4. PICK t : t \in Traces /\ trace' = [trace EXCEPT ![w] = t]
  <2>1. CASE RecordRefusal(w)
    <3>1. PICK p \in Optional(Users) :
            p = IF task[w].who = "USER" THEN task[w].target ELSE Nobody
      BY <1>3 DEF Optional
    <3>2. PICK t : t = [actor |-> request[w].by, target |-> Nobody, path |-> p]
      OBVIOUS
    <3>3. t \in Traces
      BY <1>3, <3>2 DEF Traces, Optional
    <3>4. trace' = [trace EXCEPT ![w] = t]
      BY <2>1, <3>1, <3>2 DEF RecordRefusal
    <3>5. QED
      BY <3>3, <3>4
  <2>2. CASE Reveal(w)
    BY <1>3, <2>2 DEF Reveal, Traces, Optional
  <2>3. QED
    BY <2>1, <2>2
<1>5. trace' \in [Keys \cup Workers -> Traces]
  BY <1>4 DEF Typed
<1>6. QED
  BY <1>1, <1>2, <1>5 DEF Typed, Exists

LEMMA ClaimKeyTyped ==
  ASSUME IInv, IInv', Typed, NEW w \in Workers, ClaimKey(w)
  PROVE  Typed'
<1>. DEFINE k == request[w].key
<1>1. k \in Keys
  BY Named DEF IInv, Shape, ClaimKey
<1>2. CASE Refuse(w)
  BY <1>2, TypedRefusing
<1>3. CASE GoOn(w, "target") /\ UNCHANGED <<rows, told>>
  <2>1. "target" \in Points
    BY DEF Points
  <2>2. QED
    BY <1>3, <2>1, GoneOn, NoneTold, TypedSame
<1>4. CASE Answer(k, claim[k].answer, claim[k].codes) /\ Finish(w) /\ UNCHANGED rows
  <2>1. claim[k].answer \in Views
    BY <1>1 DEF Typed, Claims
  <2>2. told' \in [Keys -> Answers]
    BY <1>1, <1>4, <2>1, AnswerTyped
  <2>3. QED
    BY <1>4, <2>2, Ended, TypedSame
<1>5. CASE ~claim[k].made
  BY <1>3, <1>5 DEF ClaimKey, history
<1>6. CASE claim[k].made /\ claim[k].asks # request[w]
  BY <1>2, <1>6 DEF ClaimKey
<1>7. CASE claim[k].made /\ claim[k].asks = request[w]
  BY <1>4, <1>7 DEF ClaimKey
<1>8. QED
  BY <1>5, <1>6, <1>7

LEMMA LookUpAdjustmentTyped ==
  ASSUME IInv, IInv', Typed, NEW w \in Workers, LookUpAdjustment(w)
  PROVE  Typed'
<1>1. CASE Refuse(w)
  BY <1>1, TypedRefusing
<1>2. CASE ~Refuse(w)
  <2>1. request[w].on \in Keys
    BY AccountsAssumption DEF IInv, Shapes, Shape, LookUpAdjustment
  <2>2. PICK e \in Entries : e = ledger[request[w].on]
    BY <2>1 DEF Typed
  <2>3. e.target \in Optional(Users) /\ -e.delta \in Int
    BY DEF Entries
  <2>4. task[w] \in Tasks /\ TaskTyped(task[w])
    BY TaskFields DEF Typed
  <2>5. PICK d : d = -e.delta
    OBVIOUS
  <2>6. PICK k : k = [task[w] EXCEPT !.pc = "claim", !.target = e.target, !.delta = d]
    OBVIOUS
  <2>7. task' = [task EXCEPT ![w] = k] /\ UNCHANGED <<rows, told>>
    BY <1>2, <2>2, <2>5, <2>6 DEF LookUpAdjustment, IInv, Shapes, history
  <2>8. TaskTyped(k)
    BY <2>3, <2>4, <2>5, <2>6 DEF Tasks, TaskTyped, Points
  <2>9. QED
    BY <2>7, <2>8, TaskReplaced, NoneTold, TypedSame
<1>3. QED
  BY <1>1, <1>2

LEMMA LockUserTargetTyped ==
  ASSUME IInv, IInv', Typed, NEW w \in Workers, LockUserTarget(w)
  PROVE  Typed'
<1>1. CASE Refuse(w)
  BY <1>1, TypedRefusing
<1>2. CASE ~Refuse(w)
  <2>1. task[w].target \in Users
    BY DEF IInv, Shape, Targeted, LockUserTarget
  <2>2. PICK v \in Views : v = View(task[w].target)
    BY <2>1, ViewTyped
  <2>3. task[w] \in Tasks /\ TaskTyped(task[w])
    BY TaskFields DEF Typed
  <2>4. PICK k : k = [task[w] EXCEPT !.pc = "apply", !.seen = v]
    OBVIOUS
  <2>5. task' = [task EXCEPT ![w] = k] /\ UNCHANGED <<rows, told>>
    BY <1>2, <2>2, <2>4 DEF LockUserTarget, IInv, Shapes, history
  <2>6. TaskTyped(k)
    BY <2>3, <2>4 DEF Tasks, TaskTyped, Points
  <2>7. QED
    BY <2>5, <2>6, TaskReplaced, NoneTold, TypedSame
<1>3. QED
  BY <1>1, <1>2

\* A write commits: its answer, its audit row and its claim have their types.
LEMMA Completed ==
  ASSUME IInv, IInv', Typed, NEW w \in Workers, request[w].key \in Keys,
         NEW answer \in Views, NEW codes, Complete(w, answer, codes)
  PROVE  /\ claim' \in [Keys -> Claims] /\ trace' \in [Keys \cup Workers -> Traces]
         /\ told' \in [Keys -> Answers] /\ task' \in [Workers -> Tasks]
         /\ UNCHANGED <<spent, quarantine, booted>>
<1>1. PICK k \in Keys : k = request[w].key
  OBVIOUS
<1>2. /\ claim' = [claim EXCEPT ![k] = [made |-> TRUE, asks |-> request[w], answer |-> answer,
                                         codes |-> FALSE]]
      /\ trace' = [trace EXCEPT ![k] = [actor |-> request[w].by, target |-> task[w].target,
                                         path |-> Nobody]]
      /\ Answer(k, answer, codes)
      /\ Finish(w) /\ UNCHANGED <<spent, quarantine, booted>>
  BY <1>1 DEF Complete, Stored
<1>3. request[w] \in Requests /\ request[w].by \in Users
  BY NamedBy DEF IInv, Shapes
<1>4. claim' \in [Keys -> Claims]
  <2>1. [made |-> TRUE, asks |-> request[w], answer |-> answer, codes |-> FALSE] \in Claims
    <3>1. \A b, c \in BOOLEAN :
            [made |-> b, asks |-> request[w], answer |-> answer, codes |-> c] \in Claims
      BY <1>3, ZenonT(30) DEF Claims
    <3>2. QED
      BY <3>1
  <2>2. QED
    BY <1>2, <2>1 DEF Typed
<1>5. trace' \in [Keys \cup Workers -> Traces]
  <2>1. task[w].target \in Optional(Users)
    BY TaskFields DEF Typed, TaskTyped
  <2>2. [actor |-> request[w].by, target |-> task[w].target, path |-> Nobody] \in Traces
    BY <1>3, <2>1 DEF Traces, Optional
  <2>3. QED
    BY <1>2, <2>2 DEF Typed
<1>6. told' \in [Keys -> Answers]
  BY <1>2, AnswerTyped
<1>7. QED
  BY <1>2, <1>4, <1>5, <1>6, Ended

\* A request about to write has its key, and what it read has its type.
LEMMA AtCommit ==
  ASSUME IInv, Typed, NEW w \in Workers, task[w].pc \in {"target", "apply"}
  PROVE  request[w].key \in Keys /\ task[w].seen \in Views /\ task[w].delta \in Int
<1>1. request[w].action \in Writes
  BY DEF IInv, Shape
<1>2. QED
  BY <1>1, Named, TaskFields DEF IInv, Typed, TaskTyped

LEMMA MutateUserTyped ==
  ASSUME IInv, IInv', Typed, NEW w \in Workers, MutateUser(w)
  PROVE  Typed'
<1>1. /\ request[w].key \in Keys /\ task[w].seen \in Views
      /\ request[w].action \in UserActions /\ task[w].pc = "apply"
  BY AtCommit DEF MutateUser
<1>2. PICK u \in Users : u = task[w].target
  BY <1>1 DEF IInv, Shape, Targeted
<1>3. PICK after \in Views : after = Mutated(task[w].seen, request[w].action)
  BY <1>1 DEF Mutated, Views, Statuses, Roles
<1>4. /\ Complete(w, after, FALSE) /\ UNCHANGED <<ledger, batch>>
      /\ logged' = [logged EXCEPT ![u] = [status |-> after.status, role |-> after.role]]
  BY <1>2, <1>3 DEF MutateUser
<1>5. logged' \in [Users -> [status : Statuses, role : Roles]]
  BY <1>4 DEF Typed, Views
<1>6. ASSUME NEW v \in Users, Exists(v)' PROVE account'[v].name # Nobody
  <2>1. account'[v].name = account[v].name /\ (v # u => account'[v] = account[v])
    <3>1. PICK seen : seen = task[w].seen
      OBVIOUS
    <3>2. PICK restores : restores = (request[w].action = "RESTORE_USER")
      OBVIOUS
    <3>3. account' = [account EXCEPT
            ![u].status = IF after.status = seen.status THEN @ ELSE after.status,
            ![u].role = IF after.role = seen.role THEN @ ELSE after.role,
            ![u].session = @ /\ restores]
      BY <1>2, <1>3, <3>1, <3>2 DEF MutateUser
    <3>4. QED
      BY <3>3 DEF IInv, Shapes, Accounts
  <2>2. Exists(u)
    BY <1>1, <1>2 DEF IInv, Knows, Targeted
  <2>3. QED
    BY <1>6, <2>1, <2>2 DEF Typed, Exists
<1>7. QED
  BY <1>1, <1>4, <1>5, <1>6, Completed DEF Typed

LEMMA AdjustQuotaTyped ==
  ASSUME IInv, IInv', Typed, NEW w \in Workers, AdjustQuota(w)
  PROVE  Typed'
<1>1. /\ request[w].key \in Keys /\ task[w].seen \in Views /\ task[w].delta \in Int
      /\ request[w].action \in QuotaActions /\ task[w].pc = "apply"
  BY AtCommit DEF AdjustQuota
<1>2. PICK after : after = [task[w].seen EXCEPT !.left = @ + task[w].delta]
  OBVIOUS
<1>3. after \in Views /\ after.left \in Int
  BY <1>1, <1>2 DEF Views
<1>4. PICK back \in Optional(Keys) :
        back = IF request[w].action = "QUOTA_REVERSE" THEN request[w].on ELSE Nobody
  BY AccountsAssumption DEF IInv, Shapes, Optional
<1>5. PICK e : e = [made |-> TRUE, target |-> task[w].target, delta |-> task[w].delta,
                    after |-> after.left, reverses |-> back]
  OBVIOUS
<1>6. /\ Complete(w, after, FALSE) /\ UNCHANGED <<account, batch, logged>>
      /\ ledger' = [ledger EXCEPT ![request[w].key] = e]
  BY <1>2, <1>4, <1>5 DEF AdjustQuota
<1>7. task[w].target \in Optional(Users)
  BY TaskFields DEF Typed, TaskTyped
<1>8. e \in Entries
  <2>1. \A b \in BOOLEAN : [made |-> b, target |-> task[w].target, delta |-> task[w].delta,
                            after |-> after.left, reverses |-> back] \in Entries
    BY <1>1, <1>3, <1>7, ZenonT(20) DEF Entries
  <2>2. QED
    BY <1>5, <2>1
<1>9. ledger' \in [Keys -> Entries]
  BY <1>6, <1>8 DEF Typed
<1>10. QED
  BY <1>1, <1>3, <1>6, <1>9, Completed DEF Typed, Exists

LEMMA BatchTyped ==
  ASSUME IInv, IInv', Typed, NEW w \in Workers, CreateBatch(w) \/ DisableInvitations(w)
  PROVE  Typed'
<1>1. /\ request[w].key \in Keys /\ UNCHANGED <<account, ledger, logged>>
      /\ \E codes : Complete(w, NoView, codes)
  BY AtCommit DEF CreateBatch, DisableInvitations
<1>2. batch' \in [Batches -> BatchRows]
  <2>1. PICK b : b = request[w].on
    OBVIOUS
  <2>2. CASE CreateBatch(w)
    <3>1. batch' = [batch EXCEPT ![b].made = TRUE]
      BY <2>1, <2>2 DEF CreateBatch
    <3>2. \A x \in Batches : batch'[x] \in BatchRows
      BY <3>1 DEF Typed, BatchRows
    <3>3. QED
      BY <3>1, <3>2 DEF Typed
  <2>3. CASE DisableInvitations(w)
    <3>1. PICK all \in BOOLEAN : all = (request[w].action = "DISABLE_INVITATION_BATCH")
      OBVIOUS
    <3>2. batch' = [batch EXCEPT ![b].disabled = @ \/ all,
                                 ![b].code = IF @ = "REDEEMED" THEN @ ELSE "DISABLED"]
      BY <2>1, <2>3, <3>1 DEF DisableInvitations
    <3>3. \A x \in Batches : batch'[x] \in BatchRows
      BY <3>2 DEF Typed, BatchRows
    <3>4. QED
      BY <3>2, <3>3 DEF Typed
  <2>4. QED
    BY <2>2, <2>3
<1>3. QED
  BY <1>1, <1>2, NoViewTyped, Completed DEF Typed, Exists

\* The other steps of the console look and go on, or end.
LEMMA LookingTyped ==
  ASSUME IInv, IInv', Typed, NEW w \in Workers,
         LockInvitations(w) \/ LookUpRevealed(w) \/ LookUpCode(w)
  PROVE  Typed'
<1>1. CASE Refuse(w)
  BY <1>1, TypedRefusing
<1>2. CASE ~Refuse(w)
  <2>1. UNCHANGED <<rows, told>> /\ (Finish(w) \/ \E pc \in Points : GoOn(w, pc))
    BY <1>2 DEF LockInvitations, LookUpRevealed, LookUpCode, history, Points
  <2>2. QED
    BY <2>1, Ended, GoneOn, NoneTold, TypedSame
<1>3. QED
  BY <1>1, <1>2

LEMMA ConsoleTyped ==
  ASSUME IInv, IInv', Typed, NEW w \in Workers, ConsoleStep(w)
  PROVE  Typed'
BY AdmitAdminTyped, AuditTyped, ClaimKeyTyped, LookUpAdjustmentTyped, LockUserTargetTyped,
   MutateUserTyped, AdjustQuotaTyped, BatchTyped, LookingTyped DEF ConsoleStep

LEMMA AdmitRenameTyped ==
  ASSUME IInv, IInv', Typed, NEW w \in Workers, AdmitRename(w)
  PROVE  Typed'
<1>1. request[w].name \in Names
  BY AccountsAssumption DEF IInv, Shapes, AdmitRename
<1>2. PICK b \in BOOLEAN :
        b = (/\ request[w].name # account[request[w].by].name
             /\ Held(request[w].name) \/ request[w].name \in quarantine)
  OBVIOUS
<1>3. task[w] \in Tasks /\ TaskTyped(task[w])
  BY TaskFields DEF Typed
<1>4. PICK k : k = [task[w] EXCEPT !.pc = "self", !.name = request[w].name, !.barred = b]
  OBVIOUS
<1>5. task' = [task EXCEPT ![w] = k] /\ UNCHANGED <<rows, told>>
  BY <1>2, <1>4 DEF AdmitRename, IInv, Shapes, history
<1>6. TaskTyped(k)
  BY <1>1, <1>2, <1>3, <1>4 DEF Tasks, TaskTyped, Points, Optional
<1>7. QED
  BY <1>5, <1>6, TaskReplaced, NoneTold, TypedSame

\* The other steps of a request about names that write nothing.
LEMMA SeekingTyped ==
  ASSUME IInv, IInv', Typed, NEW w \in Workers, ReadSelf(w) \/ LookForOwner(w)
  PROVE  Typed'
<1>1. UNCHANGED <<rows, told>> /\ (Finish(w) \/ \E pc \in Points : GoOn(w, pc))
  BY DEF ReadSelf, LookForOwner, history, Points
<1>2. QED
  BY <1>1, Ended, GoneOn, NoneTold, TypedSame

LEMMA PickDefaultTyped ==
  ASSUME IInv, IInv', Typed, NEW w \in Workers, NEW n \in Names, PickDefault(w, n)
  PROVE  Typed'
<1>1. task[w] \in Tasks /\ TaskTyped(task[w])
  BY TaskFields DEF Typed
<1>2. PICK k : k = [task[w] EXCEPT !.pc = "insert", !.name = n]
  OBVIOUS
<1>3. task' = [task EXCEPT ![w] = k] /\ UNCHANGED <<rows, told>>
  BY <1>2 DEF PickDefault, IInv, Shapes, history
<1>4. TaskTyped(k)
  BY <1>1, <1>2 DEF Tasks, TaskTyped, Points, Optional
<1>5. QED
  BY <1>3, <1>4, TaskReplaced, NoneTold, TypedSame

\* A name given up was the name of a user who had one.
LEMMA RenameTyped ==
  ASSUME IInv, IInv', Typed, NEW w \in Workers, Rename(w)
  PROVE  Typed'
<1>1. UNCHANGED <<claim, ledger, spent, batch, trace, logged, booted, told>> /\ Finish(w)
  BY DEF Rename, Others, history
<1>2. PICK u \in Users : u = request[w].by
  BY NamedBy
<1>3. PICK n \in Names : n = task[w].name
  BY DEF IInv, Shape, Rename
<1>4. account \in [Users -> Accounts] /\ account[u].status = "ACTIVE"
  <2>1. Knows(w) /\ task[w].pc = "looked"
    BY DEF IInv, Rename
  <2>2. account[request[w].by].status = "ACTIVE"
    BY <2>1 DEF Knows
  <2>3. QED
    BY <1>2, <2>2 DEF IInv, Shapes
<1>5. account[u].name \in Names /\ n # Nobody
  BY <1>4, AccountsAssumption DEF Typed, Exists, Accounts, Optional
<1>6. \/ UNCHANGED <<account, quarantine>>
      \/ /\ account' = [account EXCEPT ![u].name = n, ![u].cooling = TRUE]
         /\ quarantine' \in {quarantine, quarantine \cup {account[u].name}}
  BY <1>2, <1>3 DEF Rename, Quarantined
<1>7. quarantine' \in SUBSET Names
  BY <1>5, <1>6 DEF Typed
<1>8. ASSUME NEW v \in Users, Exists(v)' PROVE account'[v].name # Nobody
  <2>1. CASE UNCHANGED account
    BY <1>8, <2>1 DEF Typed, Exists
  <2>2. CASE account' = [account EXCEPT ![u].name = n, ![u].cooling = TRUE]
    <3>1. /\ account'[u].name = n /\ (v # u => account'[v] = account[v])
      BY <1>4, <2>2 DEF Accounts
    <3>2. QED
      BY <1>5, <1>8, <3>1 DEF Typed, Exists
  <2>3. QED
    BY <1>6, <2>1, <2>2
<1>9. QED
  BY <1>1, <1>7, <1>8, Ended, NoneTold DEF Typed

LEMMA CreateUserTyped ==
  ASSUME IInv, IInv', Typed, NEW w \in Workers, CreateUser(w)
  PROVE  Typed'
<1>1. UNCHANGED <<claim, ledger, spent, batch, trace, logged, booted, quarantine, told>>
  BY DEF CreateUser, Others, history
<1>2. PICK u \in Users : u = request[w].by
  BY NamedBy
<1>3. PICK n \in Names : n = task[w].name
  BY DEF IInv, Shape, CreateUser
<1>4. n # Nobody
  BY AccountsAssumption
<1>5. task' \in [Workers -> Tasks]
  <2>1. CASE Finish(w)
    BY <2>1, Ended
  <2>2. CASE ~Finish(w)
    <3>1. task[w] \in Tasks /\ TaskTyped(task[w])
      BY TaskFields DEF Typed
    <3>2. PICK k : k = [task[w] EXCEPT !.pc = "pick", !.name = Nobody]
      OBVIOUS
    <3>3. task' = [task EXCEPT ![w] = k]
      BY <2>2, <3>2 DEF CreateUser, IInv, Shapes
    <3>4. TaskTyped(k)
      BY <3>1, <3>2 DEF Tasks, TaskTyped, Points, Optional
    <3>5. QED
      BY <3>3, <3>4, TaskReplaced
  <2>3. QED
    BY <2>1, <2>2
<1>6. ASSUME NEW v \in Users, Exists(v)' PROVE account'[v].name # Nobody
  <2>1. PICK row : row = [NoAccount EXCEPT !.status = "ACTIVE", !.name = n, !.session = TRUE]
    OBVIOUS
  <2>2. row.name = n
    BY <2>1 DEF NoAccount
  <2>3. account' = account \/ account' = [account EXCEPT ![u] = row]
    BY <1>2, <1>3, <2>1 DEF CreateUser
  <2>4. account \in [Users -> Accounts]
    BY DEF IInv, Shapes
  <2>5. CASE account' = account
    BY <1>6, <2>5 DEF Typed, Exists
  <2>6. CASE account' = [account EXCEPT ![u] = row]
    <3>1. account'[u] = row /\ (v # u => account'[v] = account[v])
      BY <2>4, <2>6
    <3>2. QED
      BY <1>4, <1>6, <2>2, <3>1 DEF Typed, Exists
  <2>7. QED
    BY <2>3, <2>5, <2>6
<1>7. QED
  BY <1>1, <1>5, <1>6, NoneTold DEF Typed

LEMMA NamesTyped ==
  ASSUME IInv, IInv', Typed, NEW w \in Workers, NamesStep(w)
  PROVE  Typed'
BY AdmitRenameTyped, SeekingTyped, PickDefaultTyped, RenameTyped, CreateUserTyped DEF NamesStep

LEMMA CloseAccountTyped ==
  ASSUME IInv, IInv', Typed, NEW w \in Workers, CloseAccount(w)
  PROVE  Typed'
<1>1. UNCHANGED <<claim, spent, batch, booted, told>> /\ Finish(w)
  BY DEF CloseAccount, history
<1>2. PICK u \in Users : u = request[w].by
  BY NamedBy
<1>3. CASE ~StillThere(u)
  <2>1. UNCHANGED <<account, quarantine, trace, ledger, logged>>
    BY <1>2, <1>3 DEF CloseAccount
  <2>2. QED
    BY <1>1, <2>1, Ended, NoneTold DEF Typed, Exists
<1>4. CASE StillThere(u)
  <2>1. PICK row : row = [NoAccount EXCEPT !.status = "CLOSED"]
    OBVIOUS
  <2>2. PICK last : last = [status |-> "CLOSED", role |-> "USER"]
    OBVIOUS
  <2>3. /\ account' = [account EXCEPT ![u] = row]
        /\ quarantine' = quarantine \cup {account[u].name}
        /\ trace' = [x \in Keys \cup Workers |-> Erased(trace[x], u)]
        /\ ErasedFromLedger(u)
        /\ logged' = [logged EXCEPT ![u] = last]
    BY <1>2, <1>4, <2>1, <2>2 DEF CloseAccount, Quarantined
  <2>4. account \in [Users -> Accounts] /\ Exists(u)
    BY <1>4 DEF IInv, Shapes, StillThere
  <2>5. quarantine' \in SUBSET Names
    BY <2>3, <2>4 DEF Typed, Accounts, Optional
  <2>6. trace' \in [Keys \cup Workers -> Traces]
    <3>1. ASSUME NEW x \in Keys \cup Workers PROVE Erased(trace[x], u) \in Traces
      BY DEF Erased, Traces, Optional, Typed
    <3>2. QED
      BY <2>3, <3>1
  <2>7. ledger' \in [Keys -> Entries]
    <3>1. ASSUME NEW k \in Keys
          PROVE  (IF ledger[k].target = u THEN [ledger[k] EXCEPT !.target = Nobody]
                  ELSE ledger[k]) \in Entries
      BY DEF Typed, Entries, Optional
    <3>2. QED
      BY <2>3, <3>1 DEF ErasedFromLedger
  <2>8. last \in [status : Statuses, role : Roles]
    BY <2>2 DEF Statuses, Roles
  <2>9. logged' \in [Users -> [status : Statuses, role : Roles]]
    BY <2>3, <2>8 DEF Typed
  <2>10. ASSUME NEW v \in Users, Exists(v)' PROVE account'[v].name # Nobody
    <3>1. row.status = "CLOSED"
      BY <2>1 DEF NoAccount
    <3>2. v # u /\ account'[v] = account[v]
      BY <2>3, <2>4, <2>10, <3>1 DEF Exists
    <3>3. QED
      BY <2>10, <3>2 DEF Typed, Exists
  <2>11. QED
    BY <1>1, <2>5, <2>6, <2>7, <2>9, <2>10, Ended, NoneTold DEF Typed
<1>5. QED
  BY <1>3, <1>4

\* The steps of nobody's request.
LEMMA OutsideTyped ==
  ASSUME IInv, IInv', Typed,
         \/ \E u \in Users : Spend(u) \/ OpenSession(u) \/ EndCooldown(u)
         \/ \E n \in Names : EndQuarantine(n)
         \/ \E b \in Batches : RedeemCode(b)
         \/ BootstrapOwner
  PROVE  Typed'
<1>1. ASSUME NEW u \in Users, Spend(u) PROVE Typed'
  BY <1>1 DEF Spend, Typed, history, Exists
<1>2. ASSUME NEW u \in Users, OpenSession(u) \/ EndCooldown(u) \/ BootstrapOwner PROVE Typed'
  <2>1. /\ UNCHANGED <<claim, ledger, spent, batch, quarantine, trace, task, told>>
        /\ logged' \in [Users -> [status : Statuses, role : Roles]] /\ booted' \in BOOLEAN
    <3>1. CASE OpenSession(u) \/ EndCooldown(u)
      BY <3>1 DEF OpenSession, EndCooldown, Others, history, Typed
    <3>2. CASE BootstrapOwner
      <4>1. PICK last : last = [status |-> "ACTIVE", role |-> "ADMIN"]
        OBVIOUS
      <4>2. last \in [status : Statuses, role : Roles]
        BY <4>1 DEF Statuses, Roles
      <4>3. logged' = [logged EXCEPT ![Owner] = last]
        BY <3>2, <4>1 DEF BootstrapOwner
      <4>4. QED
        BY <3>2, <4>2, <4>3 DEF BootstrapOwner, history, Typed
    <3>3. QED
      BY <1>2, <3>1, <3>2
  <2>2. ASSUME NEW v \in Users
        PROVE  account'[v].status = account[v].status /\ account'[v].name = account[v].name
    <3>1. \/ account' = [account EXCEPT ![u].session = TRUE]
          \/ account' = [account EXCEPT ![u].cooling = FALSE]
          \/ account' = [account EXCEPT ![Owner].role = "ADMIN", ![Owner].session = FALSE]
      BY <1>2 DEF OpenSession, EndCooldown, BootstrapOwner
    <3>2. account \in [Users -> Accounts] /\ Owner \in Users
      BY AccountsAssumption DEF IInv, Shapes
    <3>3. QED
      BY <3>1, <3>2 DEF Accounts
  <2>3. QED
    BY <2>1, <2>2 DEF Typed, Exists
<1>3. ASSUME NEW n \in Names, EndQuarantine(n) PROVE Typed'
  BY <1>3 DEF EndQuarantine, Others, history, Typed, Exists
<1>4. ASSUME NEW b \in Batches, RedeemCode(b) PROVE Typed'
  <2>1. \A x \in Batches : batch'[x] \in BatchRows
    BY <1>4 DEF RedeemCode, Typed, BatchRows
  <2>2. batch' \in [Batches -> BatchRows]
    BY <1>4, <2>1 DEF RedeemCode, Typed
  <2>3. QED
    BY <1>4, <2>2 DEF RedeemCode, history, Typed, Exists
<1>5. CASE BootstrapOwner
  BY <1>2, <1>5, AccountsAssumption
<1>6. QED
  BY <1>1, <1>2, <1>3, <1>4, <1>5

LEMMA TypedStep ==
  ASSUME IInv, IInv', Typed, [Next]_vars
  PROVE  Typed'
<1>1. ASSUME NEW w \in Workers, AdmitClosure(w) \/ Crash(w) PROVE Typed'
  <2>1. UNCHANGED <<rows, told>> /\ (Finish(w) \/ \E pc \in Points : GoOn(w, pc))
    BY <1>1 DEF AdmitClosure, Crash, history, Points
  <2>2. QED
    BY <2>1, Ended, GoneOn, NoneTold, TypedSame
<1>2. CASE UNCHANGED vars
  BY <1>2 DEF vars, Typed, Exists
<1>3. QED
  BY <1>1, <1>2, ConsoleTyped, NamesTyped, CloseAccountTyped, OutsideTyped DEF Next

LEMMA TypedInit ==
  ASSUME Init
  PROVE  Typed
<1>1. account \in [Users -> {NoAccount} \cup Registered]
  BY DEF Init
<1>2. \A u \in Users : account[u].role \in Roles /\ (Exists(u) => account[u].name # Nobody)
  BY <1>1 DEF Registered, NoAccount, Accounts, Roles, Exists
<1>3. claim \in [Keys -> Claims]
  <2>1. \A b, c \in BOOLEAN :
          [made |-> b, asks |-> Nobody, answer |-> NoView, codes |-> c] \in Claims
    BY NoViewTyped, ZenonT(30) DEF Claims
  <2>2. NoClaim \in Claims
    BY <2>1 DEF NoClaim
  <2>3. QED
    BY <2>2 DEF Init
<1>4. ledger \in [Keys -> Entries]
  <2>1. \A b \in BOOLEAN : [made |-> b, target |-> Nobody, delta |-> 0, after |-> 0,
                            reverses |-> Nobody] \in Entries
    BY DEF Entries, Optional
  <2>2. NoEntry \in Entries
    BY <2>1 DEF NoEntry
  <2>3. QED
    BY <2>2 DEF Init
<1>5. batch \in [Batches -> BatchRows]
  <2>1. \A b \in BOOLEAN : [made |-> b, disabled |-> FALSE, code |-> "ACTIVE"] \in BatchRows
    BY DEF BatchRows
  <2>2. NoBatch = [made |-> FALSE, disabled |-> FALSE, code |-> "ACTIVE"]
    BY DEF NoBatch
  <2>3. \A b \in BOOLEAN : [NoBatch EXCEPT !.made = b] \in BatchRows
    BY ZenonT(20) DEF NoBatch, BatchRows
  <2>4. {NoBatch, [NoBatch EXCEPT !.made = TRUE]} \subseteq BatchRows
    BY <2>1, <2>2, <2>3
  <2>5. QED
    BY <2>4 DEF Init
<1>6. trace \in [Keys \cup Workers -> Traces]
  BY DEF Init, NoTrace, Traces, Optional
<1>7. task \in [Workers -> Tasks]
  BY IdleShape, IdleTyped, TaskOfShape DEF Init
<1>8. logged \in [Users -> [status : Statuses, role : Roles]]
  BY <1>2 DEF Init, Statuses
<1>9. told \in [Keys -> Answers]
  <2>1. [said |-> {}, disclosed |-> 0] \in Answers
    BY DEF Answers
  <2>2. QED
    BY <2>1 DEF Init
<1>10. QED
  BY <1>2, <1>3, <1>4, <1>5, <1>6, <1>7, <1>8, <1>9 DEF Init, Typed

\* Every row, lock, request and local has the type its column or variable
\* gives it, whatever the requests are and in whatever order they commit.
THEOREM AccountTypes == Spec => []TypeOK
<1>1. Init => Typed
  BY TypedInit
<1>2. IInv /\ IInv' /\ Typed /\ [Next]_vars => Typed'
  BY TypedStep
<1>3. IInv /\ Typed => TypeOK
  BY TypedIsTypeOK
<1>4. QED
  BY <1>1, <1>2, <1>3, LockedRowsAreKnown, PTL DEF Spec

-----------------------------------------------------------------------------
(* Balances.                                                               *)

\* An adjustment about to be written has read the balance as it is, and fits it.
Checked(w) ==
  task[w].pc = "apply" /\ request[w].action \in QuotaActions =>
    /\ task[w].seen.left = Balance(task[w].target)
    /\ Balance(task[w].target) + task[w].delta >= 0

\* The inductive invariant, beside IInv and Typed.
Solvent ==
  /\ \A k \in Keys : ~claim[k].made => ledger[k].target = Nobody
  /\ \A u \in Users : account[u].status = "ABSENT" => spent[u] = 0
  /\ \A u \in Users : Exists(u) => Balance(u) >= 0
  /\ \A w \in Workers : Checked(w)

\* A balance moves only when a unit is spent or an adjustment comes or goes.
LEMMA BalanceKept ==
  ASSUME Typed, NEW u \in Users, spent'[u] = spent[u], Adjustments(u)' = Adjustments(u),
         \A k \in Adjustments(u) : ledger'[k].delta = ledger[k].delta
  PROVE  Balance(u)' = Balance(u)
<1>1. IsFiniteSet(Adjustments(u)) /\ Deltas(Adjustments(u), ledger)
  BY BalanceInt
<1>2. PICK S : S = Adjustments(u)
  OBVIOUS
<1>3. PICK d : d = ledger
  OBVIOUS
<1>4. PICK e : e = ledger'
  OBVIOUS
<1>5. IsFiniteSet(S) /\ Deltas(S, d) /\ \A k \in S : e[k].delta = d[k].delta
  BY <1>1, <1>2, <1>3, <1>4
<1>6. Total(e, S) = Total(d, S)
  BY <1>5, TotalAgrees
<1>7. Balance(u)' = Grant - spent'[u] + Total(ledger', Adjustments(u)')
  BY DEF Balance, Total, Adjustments, MapThenSumSet, MapThenFoldSet
<1>8. QED
  BY <1>2, <1>3, <1>4, <1>6, <1>7, BalanceIs

\* Whoever is not registered yet will have the whole grant.
LEMMA NewcomersBalance ==
  ASSUME IInv, Typed, Solvent, NEW u \in Users, account[u].status = "ABSENT"
  PROVE  Balance(u) = Grant
<1>1. Adjustments(u) = {}
  BY AccountsAssumption DEF Adjustments, IInv, Fit, KeyFits, Remembered, Exists
<1>2. Total(ledger, Adjustments(u)) = 0
  BY <1>1, TotalNone
<1>3. spent[u] = 0
  BY DEF Solvent
<1>4. QED
  BY <1>2, <1>3, BalanceIs, AccountsAssumption

\* Users come and go, and none comes back.
Ages(u) ==
  /\ account'[u].status = "ABSENT" => account[u].status = "ABSENT"
  /\ Exists(u)' => Exists(u) \/ account[u].status = "ABSENT"

\* Claims are made and stay made.
ClaimsStay == \A k \in Keys : claim[k].made => claim'[k].made

\* The requests of everybody but v go on as they were.
OthersStay(v) == \A w \in Workers \ {v} : task'[w] = task[w]

\* A step that writes neither adjustments nor trips.
LEMMA Quiet ==
  ASSUME IInv, Typed, Solvent, UNCHANGED <<ledger, spent, request>>, \A u \in Users : Ages(u),
         ClaimsStay, NEW v, OthersStay(v), \A w \in Workers : w = v => Checked(w)'
  PROVE  Solvent'
<1>1. ASSUME NEW u \in Users PROVE Balance(u)' = Balance(u)
  BY BalanceKept DEF Adjustments
<1>2. ASSUME NEW k \in Keys, ~claim'[k].made PROVE ledger'[k].target = Nobody
  BY <1>2 DEF ClaimsStay, Solvent
<1>3. ASSUME NEW u \in Users, account'[u].status = "ABSENT" PROVE spent'[u] = 0
  BY <1>3 DEF Ages, Solvent
<1>4. ASSUME NEW u \in Users, Exists(u)' PROVE Balance(u)' >= 0
  <2>1. CASE Exists(u)
    BY <1>1, <2>1 DEF Solvent
  <2>2. CASE account[u].status = "ABSENT"
    BY <1>1, <2>2, NewcomersBalance, AccountsAssumption
  <2>3. QED
    BY <1>4, <2>1, <2>2 DEF Ages
<1>5. ASSUME NEW w \in Workers PROVE Checked(w)'
  <2>1. CASE w # v
    <3>1. task'[w] = task[w] /\ request'[w] = request[w] /\ Checked(w)
      BY <2>1 DEF OthersStay, Solvent
    <3>2. SUFFICES ASSUME task[w].pc = "apply", request[w].action \in QuotaActions
                   PROVE  Checked(w)'
      BY <3>1 DEF Checked
    <3>3. PICK u \in Users : u = task[w].target
      BY <3>2 DEF IInv, Shape, Targeted
    <3>4. /\ Balance(u)' = Balance(u)
          /\ task[w].seen.left = Balance(u) /\ Balance(u) + task[w].delta >= 0
      BY <1>1, <3>1, <3>2, <3>3 DEF Checked
    <3>5. task'[w].seen.left = Balance(u)' /\ Balance(u)' + task'[w].delta >= 0
      BY <3>1, <3>4
    <3>6. task'[w].target = u
      BY <3>1, <3>3
    <3>7. QED
      BY <3>5, <3>6 DEF Checked
  <2>2. QED
    BY <2>1
<1>6. QED
  BY <1>2, <1>3, <1>4, <1>5 DEF Solvent

LEMMA AgesSame ==
  ASSUME NEW u, account'[u].status = account[u].status
  PROVE  Ages(u)
BY DEF Ages, Exists

LEMMA SameAccounts ==
  ASSUME UNCHANGED account
  PROVE  \A u \in Users : Ages(u)
BY AgesSame

\* A request that is not about to write needs no balance.
LEMMA NotApplying ==
  ASSUME NEW w, task'[w].pc # "apply"
  PROVE  Checked(w)'
BY DEF Checked

LEMMA EndsUnchecked ==
  ASSUME IInv, NEW w \in Workers, Finish(w)
  PROVE  OthersStay(w) /\ Checked(w)'
<1>1. task' = [task EXCEPT ![w] = Idle]
  BY DEF Finish
<1>2. task'[w] = Idle /\ OthersStay(w)
  BY <1>1 DEF IInv, Shapes, OthersStay
<1>3. QED
  BY <1>2, IdleShape, NotApplying

LEMMA GoesUnchecked ==
  ASSUME IInv, NEW w \in Workers, NEW pc, pc # "apply", GoOn(w, pc)
  PROVE  OthersStay(w) /\ Checked(w)'
<1>1. TaskShape(task[w])
  BY DEF IInv, Shape
<1>2. task'[w].pc = pc /\ OthersStay(w)
  BY <1>1 DEF GoOn, IInv, Shapes, TaskShape, OthersStay
<1>3. QED
  BY <1>2, NotApplying

\* A step of one request that writes no row.
LEMMA QuietLook ==
  ASSUME IInv, Typed, Solvent, UNCHANGED <<rows, request>>, NEW w \in Workers,
         OthersStay(w), Checked(w)'
  PROVE  Solvent'
<1>1. UNCHANGED <<account, claim, ledger, spent>>
  BY DEF rows
<1>2. ClaimsStay
  BY <1>1 DEF ClaimsStay
<1>3. QED
  BY <1>1, <1>2, SameAccounts, Quiet

LEMMA RefusedUnchecked ==
  ASSUME IInv, Typed, Solvent, NEW w \in Workers, Refuse(w)
  PROVE  Solvent'
BY GoesUnchecked, QuietLook DEF Refuse

\* Looking, up to the lock of the target: everything but LockUserTarget.
LEMMA LookingSolvent ==
  ASSUME IInv, Typed, Solvent, NEW w \in Workers,
         \/ AdmitAdmin(w) \/ ClaimKey(w) \/ LookUpAdjustment(w) \/ LockInvitations(w)
         \/ LookUpRevealed(w) \/ LookUpCode(w)
         \/ AdmitRename(w) \/ ReadSelf(w) \/ LookForOwner(w)
         \/ (\E n \in Names : PickDefault(w, n)) \/ AdmitClosure(w) \/ Crash(w)
  PROVE  Solvent'
<1>1. task[w] \in Tasks /\ task \in [Workers -> Tasks]
  BY DEF Typed
<1>2. CASE Refuse(w)
  BY <1>2, RefusedUnchecked
<1>3. CASE /\ UNCHANGED <<rows, request>>
           /\ (Finish(w) \/ \E pc \in Points \ {"apply"} : GoOn(w, pc))
  BY <1>3, EndsUnchecked, GoesUnchecked, QuietLook
<1>4. CASE AdmitAdmin(w)
  <2>1. PICK r : r = request[w]
    OBVIOUS
  <2>2. PICK pc : pc # "apply" /\
          pc = IF Identity(r.by) = "USER" THEN "refused"
               ELSE IF r.action = "QUOTA_REVERSE" THEN "lookup"
               ELSE IF r.action \in Writes THEN "claim" ELSE "admitted"
    OBVIOUS
  <2>3. PICK k : k = [task[w] EXCEPT !.who = Identity(r.by), !.pc = pc,
                        !.target = IF r.on \in Users THEN r.on ELSE Nobody, !.delta = r.delta]
    OBVIOUS
  <2>4. task' = [task EXCEPT ![w] = k] /\ UNCHANGED <<rows, request>>
    BY <1>1, <1>4, <2>1, <2>2, <2>3 DEF AdmitAdmin
  <2>5. k.pc = pc
    BY <1>1, <2>3 DEF Tasks
  <2>6. task'[w].pc # "apply" /\ OthersStay(w)
    BY <1>1, <2>2, <2>4, <2>5 DEF OthersStay
  <2>7. QED
    BY <2>4, <2>6, NotApplying, QuietLook
<1>5. CASE ClaimKey(w) /\ ~Refuse(w)
  <2>1. UNCHANGED <<rows, request>> /\ (Finish(w) \/ GoOn(w, "target"))
    BY <1>5 DEF ClaimKey
  <2>2. QED
    BY <1>3, <2>1 DEF Points
<1>6. CASE LookUpAdjustment(w) /\ ~Refuse(w)
  <2>1. PICK e : e = ledger[request[w].on]
    OBVIOUS
  <2>2. PICK k : k = [task[w] EXCEPT !.pc = "claim", !.target = e.target, !.delta = -e.delta]
    OBVIOUS
  <2>3. task' = [task EXCEPT ![w] = k] /\ UNCHANGED <<rows, request>>
    BY <1>1, <1>6, <2>1, <2>2 DEF LookUpAdjustment
  <2>4. k.pc = "claim"
    BY <1>1, <2>2 DEF Tasks
  <2>5. task'[w].pc # "apply" /\ OthersStay(w)
    BY <1>1, <2>3, <2>4 DEF OthersStay
  <2>6. QED
    BY <2>3, <2>5, NotApplying, QuietLook
<1>7. CASE LockInvitations(w) /\ ~Refuse(w)
  <2>1. /\ GoOn(w, "apply") /\ UNCHANGED <<rows, request>>
        /\ request[w].action \in BatchActions
    BY <1>7 DEF LockInvitations
  <2>2. request'[w].action \notin QuotaActions
    BY <2>1 DEF BatchActions, QuotaActions
  <2>3. Checked(w)'
    BY <2>2 DEF Checked
  <2>4. OthersStay(w)
    BY <1>1, <2>1 DEF GoOn, OthersStay
  <2>5. QED
    BY <2>1, <2>3, <2>4, QuietLook
<1>8. CASE LookUpRevealed(w) \/ (LookUpCode(w) /\ ~Refuse(w)) \/ ReadSelf(w) \/ LookForOwner(w)
           \/ AdmitClosure(w) \/ Crash(w)
  <2>1. UNCHANGED <<rows, request>>
    BY <1>8 DEF LookUpRevealed, LookUpCode, ReadSelf, LookForOwner, AdmitClosure, Crash
  <2>2. Finish(w) \/ \E pc \in Points \ {"apply"} : GoOn(w, pc)
    BY <1>8 DEF LookUpRevealed, LookUpCode, ReadSelf, LookForOwner, AdmitClosure, Crash, Points
  <2>3. QED
    BY <1>3, <2>1, <2>2
<1>9. CASE AdmitRename(w) \/ \E n \in Names : PickDefault(w, n)
  <2>1. UNCHANGED <<rows, request>>
    BY <1>9 DEF AdmitRename, PickDefault
  <2>2. CASE AdmitRename(w)
    <3>1. PICK name, barred :
            task' = [task EXCEPT ![w].pc = "self", ![w].name = name, ![w].barred = barred]
      BY <2>2 DEF AdmitRename
    <3>2. task'[w].pc = "self" /\ OthersStay(w)
      BY <1>1, <3>1 DEF Tasks, OthersStay
    <3>3. QED
      BY <2>1, <3>2, NotApplying, QuietLook
  <2>3. CASE \E n \in Names : PickDefault(w, n)
    <3>1. PICK name : task' = [task EXCEPT ![w].pc = "insert", ![w].name = name]
      BY <2>3 DEF PickDefault
    <3>2. task'[w].pc = "insert" /\ OthersStay(w)
      BY <1>1, <3>1 DEF Tasks, OthersStay
    <3>3. QED
      BY <2>1, <3>2, NotApplying, QuietLook
  <2>4. QED
    BY <1>9, <2>2, <2>3
<1>10. QED
  BY <1>2, <1>4, <1>5, <1>6, <1>7, <1>8, <1>9

\* The lock of the target: the balance is checked as it will be committed.
LEMMA LockUserTargetSolvent ==
  ASSUME IInv, Typed, Solvent, NEW w \in Workers, LockUserTarget(w)
  PROVE  Solvent'
<1>1. CASE Refuse(w)
  BY <1>1, RefusedUnchecked
<1>2. CASE ~Refuse(w)
  <2>1. task[w] \in Tasks /\ task \in [Workers -> Tasks]
    BY DEF Typed
  <2>2. PICK u \in Users : u = task[w].target
    BY DEF IInv, Shape, Targeted, LockUserTarget
  <2>3. PICK d \in Int : d = task[w].delta
    BY <2>1 DEF Tasks
  <2>4. PICK k : k = [task[w] EXCEPT !.pc = "apply", !.seen = View(u)]
    OBVIOUS
  <2>5. task' = [task EXCEPT ![w] = k] /\ UNCHANGED <<rows, request>> /\ Exists(u)
    BY <1>2, <2>1, <2>2, <2>4 DEF LockUserTarget
  <2>6. k.target = u /\ k.delta = d /\ k.seen.left = Remaining(u)
    BY <2>1, <2>2, <2>3, <2>4 DEF Tasks, View
  <2>7. /\ task'[w].target = u /\ task'[w].delta = d /\ task'[w].seen.left = Remaining(u)
        /\ OthersStay(w)
    BY <2>1, <2>5, <2>6 DEF OthersStay
  <2>8. request[w].action \in QuotaActions => Balance(u) + d >= 0
    <3>1. SUFFICES ASSUME request[w].action \in QuotaActions PROVE Balance(u) + d >= 0
      OBVIOUS
    <3>2. Remaining(u) + d >= 0
      BY <1>2, <2>2, <2>3, <3>1 DEF LockUserTarget, Adjustable
    <3>3. Balance(u) >= 0
      BY <2>5 DEF Solvent
    <3>4. QED
      BY <3>2, <3>3, BalanceInt
  <2>9. Balance(u)' = Balance(u)
    BY <2>5, BalanceKept DEF rows, Adjustments
  <2>10. request'[w].action \in QuotaActions =>
           task'[w].seen.left = Balance(u)' /\ Balance(u)' + task'[w].delta >= 0
    <3>1. Remaining(u) = Balance(u)
      BY <2>5, BalanceInt DEF Solvent
    <3>2. QED
      BY <2>5, <2>7, <2>8, <2>9, <3>1
  <2>11. Checked(w)'
    BY <2>7, <2>10 DEF Checked
  <2>12. QED
    BY <2>5, <2>7, <2>11, QuietLook
<1>3. QED
  BY <1>1, <1>2

\* A commit makes a claim, ends the request and leaves the trips alone.
LEMMA CommitUnchecked ==
  ASSUME IInv, Typed, NEW w \in Workers, NEW answer, NEW codes, Complete(w, answer, codes)
  PROVE  /\ ClaimsStay /\ OthersStay(w) /\ Checked(w)' /\ UNCHANGED <<spent, request>>
         /\ \A k \in Keys : k # request[w].key => claim'[k] = claim[k]
         /\ request[w].key \in Keys => claim'[request[w].key].made
<1>1. PICK row : row = [made |-> TRUE, asks |-> request[w], answer |-> answer,
                      codes |-> Stored(codes)]
  OBVIOUS
<1>2. /\ claim' = [claim EXCEPT ![request[w].key] = row]
      /\ Finish(w) /\ UNCHANGED <<spent, request>>
  BY <1>1 DEF Complete
<1>3. row.made
  BY <1>1
<1>4. claim \in [Keys -> Claims]
  BY DEF Typed
<1>5. /\ \A k \in Keys : k # request[w].key => claim'[k] = claim[k]
      /\ request[w].key \in Keys => claim'[request[w].key] = row
  BY <1>2, <1>4
<1>6. ClaimsStay
  <2>1. ASSUME NEW k \in Keys, claim[k].made PROVE claim'[k].made
    BY <1>3, <1>5, <2>1
  <2>2. QED
    BY <2>1 DEF ClaimsStay
<1>7. QED
  BY <1>2, <1>3, <1>5, <1>6, EndsUnchecked

\* The writes of the console that leave the ledger alone.
LEMMA OtherWritesSolvent ==
  ASSUME IInv, Typed, Solvent, NEW w \in Workers,
         MutateUser(w) \/ CreateBatch(w) \/ DisableInvitations(w)
  PROVE  Solvent'
<1>1. PICK answer, codes : Complete(w, answer, codes) /\ UNCHANGED ledger
  BY DEF MutateUser, CreateBatch, DisableInvitations
<1>2. \A u \in Users : Ages(u)
  <2>1. CASE CreateBatch(w) \/ DisableInvitations(w)
    BY <2>1, SameAccounts DEF CreateBatch, DisableInvitations
  <2>2. CASE MutateUser(w)
    <3>1. task[w].pc = "apply" /\ request[w].action \in Targeted
      BY <2>2 DEF MutateUser, Targeted
    <3>2. PICK u \in Users : u = task[w].target
      BY <3>1 DEF IInv, Shape
    <3>3. Exists(u)
      BY <3>1, <3>2 DEF IInv, Knows
    <3>4. task[w].seen \in Views
      BY <3>1, AtCommit
    <3>5. PICK after \in Views : after = Mutated(task[w].seen, request[w].action)
      BY <3>4 DEF Mutated, Views, Statuses, Roles
    <3>6. task[w].seen.status = account[u].status
      <4>1. Knows(w) /\ task[w].pc = "apply" /\ request[w].action \in Targeted
        BY <3>1 DEF IInv
      <4>2. task[w].seen = [user |-> task[w].target,
                            status |-> account[task[w].target].status,
                            role |-> account[task[w].target].role, left |-> task[w].seen.left]
        BY <4>1 DEF Knows
      <4>3. task[w].seen.status = account[task[w].target].status
        BY <4>2
      <4>4. QED
        BY <3>2, <4>3
    <3>7. after.status \in {account[u].status, "ACTIVE", "DISABLED"}
      BY <3>4, <3>5, <3>6 DEF Mutated, Views
    <3>8. PICK seen : seen = task[w].seen
      OBVIOUS
    <3>9. PICK restores : restores = (request[w].action = "RESTORE_USER")
      OBVIOUS
    <3>10. account' = [account EXCEPT
             ![u].status = IF after.status = seen.status THEN @ ELSE after.status,
             ![u].role = IF after.role = seen.role THEN @ ELSE after.role,
             ![u].session = @ /\ restores]
      BY <2>2, <3>2, <3>5, <3>8, <3>9 DEF MutateUser
    <3>11. /\ account'[u].status \in {account[u].status, "ACTIVE", "DISABLED"}
           /\ \A v \in Users \ {u} : account'[v] = account[v]
      BY <3>7, <3>10 DEF IInv, Shapes, Accounts
    <3>12. ASSUME NEW v \in Users PROVE Ages(v)
      BY <3>3, <3>11 DEF Ages, Exists
    <3>13. QED
      BY <3>12
  <2>3. QED
    BY <2>1, <2>2
<1>3. QED
  BY <1>1, <1>2, CommitUnchecked, Quiet

\* The target of a request about to write is locked by it, and by nobody else.
LEMMA TargetLocked ==
  ASSUME IInv, NEW w \in Workers, task[w].pc = "apply", request[w].action \in QuotaActions
  PROVE  task[w].target \in Users /\ lock[task[w].target] = w /\ Exists(task[w].target)
BY DEF IInv, Shape, Knows, Targeted

\* Writing the balance of one user leaves the checks of others as they were.
LEMMA OthersChecked ==
  ASSUME IInv, Solvent, NEW v, OthersStay(v), UNCHANGED request, NEW x,
         lock[x] \in {v, Nobody}, \A u \in Users \ {x} : Balance(u)' = Balance(u)
  PROVE  \A w \in Workers \ {v} : Checked(w)'
<1>1. ASSUME NEW w \in Workers \ {v} PROVE Checked(w)'
  <2>1. task'[w] = task[w] /\ request'[w] = request[w] /\ Checked(w)
    BY DEF OthersStay, Solvent
  <2>2. SUFFICES ASSUME task[w].pc = "apply", request[w].action \in QuotaActions
                 PROVE  Checked(w)'
    BY <2>1 DEF Checked
  <2>3. PICK u \in Users : u = task[w].target /\ lock[u] = w
    BY <2>2, TargetLocked
  <2>4. u # x
    BY <2>3, AccountsAssumption
  <2>5. task'[w].seen.left = Balance(u)' /\ Balance(u)' + task'[w].delta >= 0
    BY <2>1, <2>2, <2>3, <2>4 DEF Checked
  <2>6. task'[w].target = u
    BY <2>1, <2>3
  <2>7. QED
    BY <2>5, <2>6 DEF Checked
<1>2. QED
  BY <1>1

\* What create_quota_adjustment writes, and the key it writes it under.
LEMMA EntryWritten ==
  ASSUME IInv, Typed, NEW w \in Workers, AdjustQuota(w)
  PROVE  /\ request[w].key \in Keys /\ ~claim[request[w].key].made
         /\ task[w].target \in Users /\ lock[task[w].target] = w /\ Exists(task[w].target)
         /\ task[w].delta \in Int /\ UNCHANGED account
         /\ \E answer, codes : Complete(w, answer, codes)
         /\ \A k \in Keys :
              IF k = request[w].key
              THEN /\ ledger'[k].made /\ ledger'[k].target = task[w].target
                   /\ ledger'[k].delta = task[w].delta
                   /\ ledger'[k].after = task[w].seen.left + task[w].delta
                   /\ ledger'[k].reverses = IF request[w].action = "QUOTA_REVERSE"
                                            THEN request[w].on ELSE Nobody
              ELSE ledger'[k] = ledger[k]
<1>1. /\ request[w].key \in Keys /\ task[w].seen \in Views /\ task[w].delta \in Int
      /\ request[w].action \in QuotaActions /\ task[w].pc = "apply"
  BY AtCommit DEF AdjustQuota
<1>2. ~claim[request[w].key].made
  BY <1>1 DEF IInv, Knows
<1>3. PICK answer : answer = [task[w].seen EXCEPT !.left = @ + task[w].delta]
  OBVIOUS
<1>4. answer.left = task[w].seen.left + task[w].delta
  BY <1>1, <1>3 DEF Views
<1>5. PICK e : e = [made |-> TRUE, target |-> task[w].target, delta |-> task[w].delta,
                    after |-> answer.left,
                    reverses |-> IF request[w].action = "QUOTA_REVERSE" THEN request[w].on
                                 ELSE Nobody]
  OBVIOUS
<1>6. /\ Complete(w, answer, FALSE) /\ UNCHANGED account
      /\ ledger' = [ledger EXCEPT ![request[w].key] = e]
  BY <1>3, <1>5 DEF AdjustQuota
<1>7. /\ e.made /\ e.target = task[w].target /\ e.delta = task[w].delta
      /\ e.after = task[w].seen.left + task[w].delta
      /\ e.reverses = IF request[w].action = "QUOTA_REVERSE" THEN request[w].on ELSE Nobody
  BY <1>4, <1>5
<1>8. /\ ledger'[request[w].key] = e
      /\ \A k \in Keys : k # request[w].key => ledger'[k] = ledger[k]
  BY <1>1, <1>6 DEF Typed
<1>9. QED
  BY <1>1, <1>2, <1>6, <1>7, <1>8, TargetLocked

\* The adjustment moves the balance of its target by its delta, and no other:
\* its key had no adjustment before.
LEMMA BalanceAdjusted ==
  ASSUME IInv, Typed, Solvent, NEW w \in Workers, AdjustQuota(w),
         NEW u \in Users, u = task[w].target
  PROVE  /\ Balance(u)' = Balance(u) + task[w].delta
         /\ \A v \in Users \ {u} : Balance(v)' = Balance(v)
<1>1. PICK k \in Keys : k = request[w].key /\ ~claim[k].made
  BY EntryWritten
<1>2. PICK answer, codes : Complete(w, answer, codes)
  BY EntryWritten
<1>3. UNCHANGED spent
  BY <1>2 DEF Complete
<1>4. /\ ledger'[k].target = u /\ ledger'[k].delta = task[w].delta /\ task[w].delta \in Int
      /\ \A j \in Keys \ {k} : ledger'[j] = ledger[j]
  BY <1>1, EntryWritten
<1>5. ledger[k].target = Nobody /\ \A v \in Users : v # Nobody
  BY <1>1, AccountsAssumption DEF Solvent
<1>6. ASSUME NEW v \in Users \ {u} PROVE Balance(v)' = Balance(v)
  <2>1. Adjustments(v)' = Adjustments(v) /\ k \notin Adjustments(v)
    BY <1>4, <1>5 DEF Adjustments
  <2>2. \A j \in Adjustments(v) : ledger'[j].delta = ledger[j].delta
    BY <1>4, <2>1 DEF Adjustments
  <2>3. QED
    BY <1>3, <2>1, <2>2, BalanceKept
<1>7. Balance(u)' = Balance(u) + task[w].delta
  <2>1. PICK S : S = Adjustments(u)
    OBVIOUS
  <2>2. IsFiniteSet(S) /\ Deltas(S, ledger) /\ k \notin S
    BY <1>5, <2>1, BalanceInt DEF Adjustments
  <2>3. Adjustments(u)' = S \cup {k}
    BY <1>4, <1>5, <2>1 DEF Adjustments
  <2>4. PICK d : d = ledger
    OBVIOUS
  <2>5. PICK f : f = ledger'
    OBVIOUS
  <2>6. \A j \in S : f[j].delta = d[j].delta
    BY <1>4, <2>1, <2>2, <2>4, <2>5 DEF Adjustments
  <2>7. Deltas(S, d) /\ f[k].delta = task[w].delta
    BY <1>4, <2>2, <2>4, <2>5
  <2>8. Total(f, S) = Total(d, S)
    BY <2>2, <2>6, <2>7, TotalAgrees
  <2>9. Deltas(S \cup {k}, f)
    BY <1>4, <2>6, <2>7 DEF Deltas
  <2>10. Total(f, S \cup {k}) = f[k].delta + Total(f, S)
    BY <2>2, <2>9, TotalInsert
  <2>11. Balance(u)' = Grant - spent'[u] + Total(ledger', Adjustments(u)')
    BY DEF Balance, Total, Adjustments, MapThenSumSet, MapThenFoldSet
  <2>12. Balance(u)' = Grant - spent[u] + Total(f, S \cup {k})
    BY <1>3, <2>3, <2>5, <2>11
  <2>13. Balance(u) = Grant - spent[u] + Total(d, S)
    BY <2>1, <2>4, BalanceIs
  <2>14. Total(d, S) \in Int /\ spent[u] \in Nat /\ Grant \in Nat
    BY <2>2, <2>7, TotalInt, AccountsAssumption DEF Typed
  <2>15. QED
    BY <1>4, <2>7, <2>8, <2>10, <2>12, <2>13, <2>14
<1>8. QED
  BY <1>6, <1>7

\* The adjustment is written: the balance that was checked under the lock is
\* the balance still.
LEMMA AdjustQuotaSolvent ==
  ASSUME IInv, Typed, Solvent, NEW w \in Workers, AdjustQuota(w)
  PROVE  Solvent'
<1>1. PICK u \in Users : u = task[w].target /\ lock[u] = w
  BY EntryWritten
<1>2. PICK answer, codes : Complete(w, answer, codes) /\ UNCHANGED account
  BY EntryWritten
<1>3. /\ OthersStay(w) /\ Checked(w)' /\ UNCHANGED <<spent, request>>
      /\ \A k \in Keys : k # request[w].key => claim'[k] = claim[k]
      /\ claim'[request[w].key].made
  BY <1>2, EntryWritten, CommitUnchecked
<1>4. Balance(u)' >= 0
  <2>1. Balance(u) + task[w].delta >= 0
    BY <1>1 DEF AdjustQuota, Solvent, Checked
  <2>2. QED
    BY <1>1, <2>1, BalanceAdjusted
<1>5. \A v \in Users \ {u} : Balance(v)' = Balance(v)
  BY <1>1, BalanceAdjusted
<1>6. ASSUME NEW v \in Users, Exists(v)' PROVE Balance(v)' >= 0
  <2>1. Exists(v)
    BY <1>2, <1>6 DEF Exists
  <2>2. CASE v = u
    BY <1>4, <2>2
  <2>3. CASE v # u
    BY <1>5, <2>1, <2>3 DEF Solvent
  <2>4. QED
    BY <2>2, <2>3
<1>7. ASSUME NEW k \in Keys, ~claim'[k].made PROVE ledger'[k].target = Nobody
  <2>1. k # request[w].key /\ ~claim[k].made
    BY <1>3, <1>7
  <2>2. ledger'[k] = ledger[k]
    BY <2>1, EntryWritten
  <2>3. QED
    BY <2>1, <2>2 DEF Solvent
<1>8. \A v \in Users : account'[v].status = "ABSENT" => spent'[v] = 0
  BY <1>2, <1>3 DEF Solvent
<1>9. \A v \in Workers : Checked(v)'
  <2>1. \A v \in Workers \ {w} : Checked(v)'
    BY <1>1, <1>3, <1>5, OthersChecked
  <2>2. QED
    BY <1>3, <2>1
<1>10. QED
  BY <1>6, <1>7, <1>8, <1>9 DEF Solvent

\* A unit is spent where one is left, and where nobody has the user locked.
LEMMA SpendSolvent ==
  ASSUME IInv, Typed, Solvent, NEW u \in Users, Spend(u)
  PROVE  Solvent'
<1>1. /\ UNCHANGED <<account, claim, ledger, lock, request, task>>
      /\ spent' = [spent EXCEPT ![u] = @ + 1] /\ spent \in [Users -> Nat]
      /\ account[u].status = "ACTIVE" /\ lock[u] = Nobody /\ Remaining(u) > 0
  BY DEF Spend, Typed
<1>2. ASSUME NEW v \in Users \ {u} PROVE Balance(v)' = Balance(v)
  BY <1>1, BalanceKept DEF Adjustments
<1>3. Balance(u)' = Balance(u) - 1
  <2>1. Adjustments(u)' = Adjustments(u) /\ ledger' = ledger
    BY <1>1 DEF Adjustments
  <2>2. Balance(u)' = Grant - spent'[u] + Total(ledger', Adjustments(u)')
    BY DEF Balance, Total, Adjustments, MapThenSumSet, MapThenFoldSet
  <2>3. Balance(u) = Grant - spent[u] + Total(ledger, Adjustments(u))
    BY BalanceIs
  <2>4. Total(ledger, Adjustments(u)) \in Int
    BY BalanceInt, TotalInt
  <2>5. PICK t \in Int : t = Total(ledger, Adjustments(u))
    BY <2>4
  <2>6. Balance(u)' = Grant - (spent[u] + 1) + t /\ Balance(u) = Grant - spent[u] + t
    BY <1>1, <2>1, <2>2, <2>3, <2>5
  <2>7. QED
    BY <1>1, <2>6, AccountsAssumption
<1>4. Balance(u)' >= 0
  BY <1>1, <1>3, BalanceInt
<1>5. ASSUME NEW v \in Users, Exists(v)' PROVE Balance(v)' >= 0
  <2>1. Exists(v)
    BY <1>1, <1>5 DEF Exists
  <2>2. CASE v = u
    BY <1>4, <2>2
  <2>3. CASE v # u
    BY <1>2, <2>1, <2>3 DEF Solvent
  <2>4. QED
    BY <2>2, <2>3
<1>6. /\ \A k \in Keys : ~claim'[k].made => ledger'[k].target = Nobody
      /\ \A v \in Users : account'[v].status = "ABSENT" => spent'[v] = 0
  BY <1>1 DEF Solvent
<1>7. \A w \in Workers : Checked(w)'
  <2>1. OthersStay(Nobody) /\ UNCHANGED request /\ lock[u] \in {Nobody, Nobody}
    BY <1>1 DEF OthersStay
  <2>2. \A w \in Workers \ {Nobody} : Checked(w)'
    BY <1>2, <2>1, OthersChecked
  <2>3. QED
    BY <2>2, AccountsAssumption
<1>8. QED
  BY <1>5, <1>6, <1>7 DEF Solvent

\* A closure erases the adjustments of its own user, who is gone with them.
LEMMA CloseAccountSolvent ==
  ASSUME IInv, Typed, Solvent, NEW w \in Workers, CloseAccount(w)
  PROVE  Solvent'
<1>1. UNCHANGED <<claim, spent, request>> /\ Finish(w)
  BY DEF CloseAccount
<1>2. OthersStay(w) /\ Checked(w)'
  BY <1>1, EndsUnchecked
<1>3. PICK u \in Users : u = request[w].by /\ lock[u] \in {w, Nobody}
  BY NamedBy DEF CloseAccount, Free
<1>4. CASE ~StillThere(u)
  <2>1. UNCHANGED <<account, ledger>>
    BY <1>3, <1>4 DEF CloseAccount
  <2>2. ClaimsStay
    BY <1>1 DEF ClaimsStay
  <2>3. QED
    BY <1>1, <1>2, <2>1, <2>2, SameAccounts, Quiet
<1>5. CASE StillThere(u)
  <2>1. PICK row : row = [NoAccount EXCEPT !.status = "CLOSED"]
    OBVIOUS
  <2>2. row.status = "CLOSED"
    BY <2>1 DEF NoAccount
  <2>3. account' = [account EXCEPT ![u] = row] /\ ErasedFromLedger(u)
    BY <1>3, <1>5, <2>1 DEF CloseAccount
  <2>4. account'[u] = row /\ \A v \in Users \ {u} : account'[v] = account[v]
    BY <2>3 DEF IInv, Shapes
  <2>5. u # Nobody /\ \A v \in Users : v # Nobody
    BY AccountsAssumption
  <2>6. ASSUME NEW k \in Keys
        PROVE  /\ ledger'[k].target = IF ledger[k].target = u THEN Nobody ELSE ledger[k].target
               /\ ledger'[k].delta = ledger[k].delta
    <3>1. ledger[k] \in Entries
      BY DEF Typed
    <3>2. ledger'[k] = IF ledger[k].target = u THEN [ledger[k] EXCEPT !.target = Nobody]
                       ELSE ledger[k]
      BY <2>3 DEF ErasedFromLedger
    <3>3. QED
      BY <3>1, <3>2 DEF Entries
  <2>7. ASSUME NEW v \in Users \ {u} PROVE Balance(v)' = Balance(v)
    <3>1. Adjustments(v)' = Adjustments(v)
      BY <2>5, <2>6 DEF Adjustments
    <3>2. \A k \in Adjustments(v) : ledger'[k].delta = ledger[k].delta
      BY <2>6 DEF Adjustments
    <3>3. QED
      BY <1>1, <3>1, <3>2, BalanceKept
  <2>8. ASSUME NEW v \in Users, Exists(v)' PROVE Balance(v)' >= 0
    <3>1. v # u /\ Exists(v)
      BY <2>2, <2>4, <2>8 DEF Exists
    <3>2. QED
      BY <2>7, <3>1 DEF Solvent
  <2>9. ASSUME NEW v \in Users, account'[v].status = "ABSENT" PROVE spent'[v] = 0
    BY <1>1, <2>2, <2>4, <2>9 DEF Solvent
  <2>10. ASSUME NEW k \in Keys, ~claim'[k].made PROVE ledger'[k].target = Nobody
    BY <1>1, <2>6, <2>10 DEF Solvent
  <2>11. \A v \in Workers \ {w} : Checked(v)'
    BY <1>1, <1>2, <1>3, <2>7, OthersChecked
  <2>12. QED
    BY <1>2, <2>8, <2>9, <2>10, <2>11 DEF Solvent
<1>6. QED
  BY <1>4, <1>5

\* Renaming, registering, and the rows of users written outside requests.
LEMMA UsersSolvent ==
  ASSUME IInv, Typed, Solvent, NEW w \in Workers, Rename(w) \/ CreateUser(w)
  PROVE  Solvent'
<1>1. UNCHANGED <<claim, ledger, spent, request>>
  BY DEF Rename, CreateUser, Others
<1>2. ClaimsStay
  BY <1>1 DEF ClaimsStay
<1>3. account \in [Users -> Accounts]
  BY DEF IInv, Shapes
<1>4. PICK u \in Users : u = request[w].by
  BY NamedBy
<1>5. CASE Rename(w)
  <2>1. PICK n : n = task[w].name
    OBVIOUS
  <2>2. \/ account' = account
        \/ account' = [account EXCEPT ![u].name = n, ![u].cooling = TRUE]
    BY <1>4, <1>5, <2>1 DEF Rename
  <2>3. ASSUME NEW v \in Users PROVE Ages(v)
    <3>1. account'[v].status = account[v].status
      BY <1>3, <2>2 DEF Accounts
    <3>2. QED
      BY <3>1, AgesSame
  <2>4. OthersStay(w) /\ Checked(w)'
    BY <1>5, EndsUnchecked DEF Rename
  <2>5. QED
    BY <1>1, <1>2, <2>3, <2>4, Quiet
<1>6. CASE CreateUser(w)
  <2>1. PICK row : row = [NoAccount EXCEPT !.status = "ACTIVE", !.name = task[w].name,
                                           !.session = TRUE]
    OBVIOUS
  <2>2. row.status = "ACTIVE"
    BY <2>1 DEF NoAccount
  <2>3. \/ account' = account
        \/ account[u].status = "ABSENT" /\ account' = [account EXCEPT ![u] = row]
    BY <1>4, <1>6, <2>1 DEF CreateUser
  <2>4. ASSUME NEW v \in Users PROVE Ages(v)
    <3>1. account'[v].status = account[v].status \/ account[v].status = "ABSENT"
      BY <1>3, <2>3
    <3>2. account'[v].status = "ABSENT" => account[v].status = "ABSENT"
      BY <1>3, <2>2, <2>3
    <3>3. QED
      BY <3>1, <3>2 DEF Ages, Exists
  <2>5. OthersStay(w) /\ Checked(w)'
    <3>1. CASE Finish(w)
      BY <3>1, EndsUnchecked
    <3>2. CASE task' = [task EXCEPT ![w].pc = "pick", ![w].name = Nobody]
      <4>1. task \in [Workers -> Tasks]
        BY DEF Typed
      <4>2. task'[w].pc = "pick" /\ OthersStay(w)
        BY <3>2, <4>1 DEF Tasks, OthersStay
      <4>3. QED
        BY <4>2, NotApplying
    <3>3. QED
      BY <1>6, <3>1, <3>2 DEF CreateUser
  <2>6. QED
    BY <1>1, <1>2, <2>4, <2>5, Quiet
<1>7. QED
  BY <1>5, <1>6

\* A step of nobody's request that writes neither adjustments nor trips.
LEMMA OutsideSolvent ==
  ASSUME IInv, Typed, Solvent,
         \/ \E u \in Users : OpenSession(u) \/ EndCooldown(u)
         \/ \E n \in Names : EndQuarantine(n)
         \/ \E b \in Batches : RedeemCode(b)
         \/ BootstrapOwner
         \/ \E w \in Workers : RecordRefusal(w) \/ Reveal(w)
         \/ UNCHANGED vars
  PROVE  Solvent'
<1>1. UNCHANGED <<claim, ledger, spent, request>>
  BY DEF OpenSession, EndCooldown, EndQuarantine, RedeemCode, BootstrapOwner, RecordRefusal,
         Reveal, Others, vars
<1>2. ClaimsStay
  BY <1>1 DEF ClaimsStay
<1>3. ASSUME NEW v \in Users PROVE Ages(v)
  <2>1. \/ account' = account
        \/ \E u \in Users : account' = [account EXCEPT ![u].session = TRUE]
        \/ \E u \in Users : account' = [account EXCEPT ![u].cooling = FALSE]
        \/ account' = [account EXCEPT ![Owner].role = "ADMIN", ![Owner].session = FALSE]
    BY DEF OpenSession, EndCooldown, EndQuarantine, RedeemCode, BootstrapOwner, RecordRefusal,
           Reveal, vars
  <2>2. account \in [Users -> Accounts]
    BY DEF IInv, Shapes
  <2>3. account'[v].status = account[v].status
    BY <2>1, <2>2 DEF Accounts
  <2>4. QED
    BY <2>3, AgesSame
<1>4. \E x : OthersStay(x) /\ \A w \in Workers : w = x => Checked(w)'
  <2>1. CASE task' = task
    <3>1. OthersStay(Nobody) /\ Nobody \notin Workers
      BY <2>1, AccountsAssumption DEF OthersStay
    <3>2. QED
      BY <3>1
  <2>2. CASE \E w \in Workers : Finish(w)
    BY <2>2, EndsUnchecked
  <2>3. QED
    BY <2>1, <2>2 DEF OpenSession, EndCooldown, EndQuarantine, RedeemCode, BootstrapOwner,
                      RecordRefusal, Reveal, vars
<1>5. QED
  BY <1>1, <1>2, <1>3, <1>4, Quiet

LEMMA SolventStep ==
  ASSUME IInv, Typed, Solvent, [Next]_vars
  PROVE  Solvent'
<1>1. ASSUME NEW w \in Workers, ConsoleStep(w) PROVE Solvent'
  BY <1>1, LookingSolvent, LockUserTargetSolvent, OtherWritesSolvent, AdjustQuotaSolvent,
     OutsideSolvent DEF ConsoleStep
<1>2. ASSUME NEW w \in Workers, NamesStep(w) PROVE Solvent'
  BY <1>2, LookingSolvent, UsersSolvent DEF NamesStep
<1>3. ASSUME NEW w \in Workers, AdmitClosure(w) \/ CloseAccount(w) \/ Crash(w) PROVE Solvent'
  BY <1>3, LookingSolvent, CloseAccountSolvent
<1>4. ASSUME NEW u \in Users, Spend(u) PROVE Solvent'
  BY <1>4, SpendSolvent
<1>5. QED
  BY <1>1, <1>2, <1>3, <1>4, OutsideSolvent DEF Next

LEMMA SolventInit ==
  ASSUME Init
  PROVE  Solvent
<1>1. Typed
  BY TypedInit
<1>2. ledger = [k \in Keys |-> NoEntry] /\ \A k \in Keys : ledger[k].target = Nobody
  BY DEF Init, NoEntry
<1>3. spent = [u \in Users |-> 0]
  BY DEF Init
<1>4. ASSUME NEW u \in Users PROVE Balance(u) >= 0
  <2>1. Adjustments(u) = {}
    BY <1>2, AccountsAssumption DEF Adjustments
  <2>2. Total(ledger, Adjustments(u)) = 0
    BY <2>1, TotalNone
  <2>3. QED
    BY <1>3, <2>2, BalanceIs, AccountsAssumption
<1>5. ASSUME NEW w \in Workers PROVE Checked(w)
  BY IdleShape DEF Init, Checked
<1>6. QED
  BY <1>2, <1>3, <1>4, <1>5 DEF Solvent

LEMMA SolventAlways == Spec => [](IInv /\ Typed /\ Solvent)
<1>1. Init => Typed /\ Solvent
  BY TypedInit, SolventInit
<1>2. IInv /\ IInv' /\ Typed /\ Solvent /\ [Next]_vars => Typed' /\ Solvent'
  BY TypedStep, SolventStep
<1>3. QED
  BY <1>1, <1>2, LockedRowsAreKnown, PTL DEF Spec

\* create_quota_adjustment checks the balance of its target under the lock of
\* the user row and writes it with that lock, a trip takes its unit under the
\* same lock, and a closure takes the adjustments with the user: no order of
\* adjustments, reversals, trips and closures overdraws anybody.
THEOREM BalancesHold == Spec => []BalanceNeverNegative
<1>1. Solvent => BalanceNeverNegative
  BY DEF Solvent, BalanceNeverNegative
<1>2. QED
  BY <1>1, SolventAlways, PTL

\* The balance_after of an adjustment, which its answer tells and which an
\* append-only row keeps, is the balance that its commit leaves.
AdjustmentsTellBalance ==
  [][\A w \in Workers, u \in Users :
       AdjustQuota(w) /\ task[w].target = u
         => ledger'[request[w].key].after = Balance(u)']_vars

\* create_quota_adjustment computes balance_after from a snapshot it took at
\* the lock: no trip and no other adjustment comes between the two.
THEOREM AdjustmentsTellBalanceAlways == Spec => AdjustmentsTellBalance
<1>. DEFINE A == \A w \in Workers, u \in Users :
                   AdjustQuota(w) /\ task[w].target = u
                     => ledger'[request[w].key].after = Balance(u)'
<1>1. ASSUME IInv, Typed, Solvent, NEW w \in Workers, NEW u \in Users, AdjustQuota(w),
             task[w].target = u
      PROVE  ledger'[request[w].key].after = Balance(u)'
  <2>1. ledger'[request[w].key].after = task[w].seen.left + task[w].delta
    BY <1>1, EntryWritten
  <2>2. task[w].seen.left = Balance(u)
    BY <1>1 DEF AdjustQuota, Solvent, Checked
  <2>3. Balance(u)' = Balance(u) + task[w].delta
    BY <1>1, BalanceAdjusted
  <2>4. QED
    BY <2>1, <2>2, <2>3
<1>2. IInv /\ Typed /\ Solvent => A
  BY <1>1
<1>. HIDE DEF A
<1>3. Spec => [][A]_vars
  BY <1>2, SolventAlways, PTL
<1>4. QED
  BY <1>3 DEF A, AdjustmentsTellBalance

-----------------------------------------------------------------------------
(* Reversals.                                                              *)

\* A reversal is of an adjustment of the same user, and undoes it.
Cancels(k) ==
  LET e == ledger[ledger[k].reverses] IN
  ledger[k].reverses \in Keys =>
    e.made /\ e.target = ledger[k].target /\ ledger[k].delta = -e.delta

\* The sign check of create_quota_adjustment never fails: every adjustment that
\* reverses another one cancels it.
ReversalsCancel == \A k \in Keys : Cancels(k)

\* What a reversal knows of the adjustment it looked up without a lock.
Reversing(w) ==
  LET k == task[w]
      e == ledger[request[w].on] IN
  request[w].action = "QUOTA_REVERSE" =>
    /\ k.pc \in {"claim", "target", "apply"} => e.made /\ k.delta = -e.delta
    /\ k.pc = "apply" => e.target = k.target

\* The inductive invariant, beside IInv and Typed.
Backed ==
  /\ \A k \in Keys : ledger[k].made => claim[k].made
  /\ ReversalsCancel
  /\ \A w \in Workers : Reversing(w)

\* A step that leaves the ledger alone.
LEMMA LedgerQuiet ==
  ASSUME Backed, UNCHANGED <<ledger, request>>, ClaimsStay, NEW v, OthersStay(v),
         \A w \in Workers : w = v => Reversing(w)'
  PROVE  Backed'
<1>1. \A k \in Keys : ledger'[k].made => claim'[k].made
  BY DEF Backed, ClaimsStay
<1>2. ReversalsCancel'
  BY DEF Backed, ReversalsCancel, Cancels
<1>3. ASSUME NEW w \in Workers PROVE Reversing(w)'
  <2>1. CASE w # v
    <3>1. Reversing(w) /\ task'[w] = task[w]
      BY <2>1 DEF Backed, OthersStay
    <3>2. QED
      BY <3>1 DEF Reversing
  <2>2. QED
    BY <2>1
<1>4. QED
  BY <1>1, <1>2, <1>3 DEF Backed

LEMMA RowsQuiet ==
  ASSUME Backed, UNCHANGED <<rows, request>>, NEW w \in Workers, OthersStay(w), Reversing(w)'
  PROVE  Backed'
<1>1. UNCHANGED <<ledger, request>> /\ ClaimsStay
  BY DEF rows, ClaimsStay
<1>2. QED
  BY <1>1, LedgerQuiet

LEMMA NotReversing ==
  ASSUME NEW w, \/ task'[w].pc \notin {"claim", "target", "apply"}
                \/ request'[w].action # "QUOTA_REVERSE"
  PROVE  Reversing(w)'
BY DEF Reversing

LEMMA EndsBacked ==
  ASSUME IInv, NEW w \in Workers, Finish(w)
  PROVE  OthersStay(w) /\ Reversing(w)'
<1>1. task' = [task EXCEPT ![w] = Idle]
  BY DEF Finish
<1>2. task'[w] = Idle /\ OthersStay(w)
  BY <1>1 DEF IInv, Shapes, OthersStay
<1>3. QED
  BY <1>2, IdleShape, NotReversing

LEMMA GoesBacked ==
  ASSUME IInv, NEW w \in Workers, NEW pc, GoOn(w, pc)
  PROVE  /\ OthersStay(w) /\ task'[w].pc = pc /\ task'[w].delta = task[w].delta
         /\ pc \notin {"claim", "target", "apply"} => Reversing(w)'
<1>1. TaskShape(task[w])
  BY DEF IInv, Shape
<1>2. task'[w].pc = pc /\ task'[w].delta = task[w].delta /\ OthersStay(w)
  BY <1>1 DEF GoOn, IInv, Shapes, TaskShape, OthersStay
<1>3. QED
  BY <1>2, NotReversing

LEMMA RefusedBacked ==
  ASSUME IInv, Backed, NEW w \in Workers, Refuse(w)
  PROVE  Backed'
BY GoesBacked, RowsQuiet DEF Refuse

\* Steps that write no row and are no reversal's, or leave what it knows alone.
LEMMA LookingBacked ==
  ASSUME IInv, Typed, Backed, NEW w \in Workers,
         \/ ClaimKey(w) \/ LockInvitations(w) \/ LookUpRevealed(w) \/ LookUpCode(w)
         \/ ReadSelf(w) \/ LookForOwner(w) \/ AdmitClosure(w) \/ Crash(w)
  PROVE  Backed'
<1>1. CASE Refuse(w)
  BY <1>1, RefusedBacked
<1>2. CASE /\ UNCHANGED <<rows, request>>
           /\ (Finish(w) \/ \E pc \in Points \ {"claim", "target", "apply"} : GoOn(w, pc))
  BY <1>2, EndsBacked, GoesBacked, RowsQuiet
<1>3. CASE ClaimKey(w) /\ ~Refuse(w)
  <2>1. UNCHANGED <<rows, request>> /\ task[w].pc = "claim"
    BY <1>3 DEF ClaimKey
  <2>2. CASE Finish(w)
    BY <1>2, <2>1, <2>2
  <2>3. CASE GoOn(w, "target")
    <3>1. OthersStay(w) /\ task'[w].pc = "target" /\ task'[w].delta = task[w].delta
      BY <2>3, GoesBacked
    <3>2. Reversing(w) /\ ledger' = ledger
      BY <2>1 DEF Backed, rows
    <3>3. Reversing(w)'
      BY <2>1, <3>1, <3>2 DEF Reversing
    <3>4. QED
      BY <2>1, <3>1, <3>3, RowsQuiet
  <2>4. QED
    BY <1>3, <2>2, <2>3 DEF ClaimKey
<1>4. CASE LockInvitations(w) /\ ~Refuse(w)
  <2>1. /\ GoOn(w, "apply") /\ UNCHANGED <<rows, request>>
        /\ request[w].action \in BatchActions
    BY <1>4 DEF LockInvitations
  <2>2. request'[w].action # "QUOTA_REVERSE"
    BY <2>1 DEF BatchActions
  <2>3. QED
    BY <2>1, <2>2, GoesBacked, NotReversing, RowsQuiet
<1>5. CASE LookUpRevealed(w) \/ (LookUpCode(w) /\ ~Refuse(w)) \/ ReadSelf(w) \/ LookForOwner(w)
           \/ AdmitClosure(w) \/ Crash(w)
  <2>1. UNCHANGED <<rows, request>>
    BY <1>5 DEF LookUpRevealed, LookUpCode, ReadSelf, LookForOwner, AdmitClosure, Crash
  <2>2. Finish(w) \/ \E pc \in Points \ {"claim", "target", "apply"} : GoOn(w, pc)
    BY <1>5 DEF LookUpRevealed, LookUpCode, ReadSelf, LookForOwner, AdmitClosure, Crash, Points
  <2>3. QED
    BY <1>2, <2>1, <2>2
<1>6. QED
  BY <1>1, <1>3, <1>4, <1>5

\* A request is admitted to look its adjustment up first.
LEMMA AdmittedBacked ==
  ASSUME IInv, Typed, Backed, NEW w \in Workers,
         AdmitAdmin(w) \/ AdmitRename(w) \/ \E n \in Names : PickDefault(w, n)
  PROVE  Backed'
<1>1. task[w] \in Tasks /\ task \in [Workers -> Tasks]
  BY DEF Typed
<1>2. UNCHANGED <<rows, request>>
  BY DEF AdmitAdmin, AdmitRename, PickDefault
<1>3. CASE AdmitAdmin(w)
  <2>1. PICK r : r = request[w]
    OBVIOUS
  <2>2. PICK pc : /\ r.action = "QUOTA_REVERSE" => pc \notin {"claim", "target", "apply"}
                  /\ pc = IF Identity(r.by) = "USER" THEN "refused"
                          ELSE IF r.action = "QUOTA_REVERSE" THEN "lookup"
                          ELSE IF r.action \in Writes THEN "claim" ELSE "admitted"
    OBVIOUS
  <2>3. PICK k : k = [task[w] EXCEPT !.who = Identity(r.by), !.pc = pc,
                        !.target = IF r.on \in Users THEN r.on ELSE Nobody, !.delta = r.delta]
    OBVIOUS
  <2>4. task' = [task EXCEPT ![w] = k]
    BY <1>1, <1>3, <2>1, <2>2, <2>3 DEF AdmitAdmin
  <2>5. k.pc = pc
    BY <1>1, <2>3 DEF Tasks
  <2>6. task'[w].pc = pc /\ request'[w] = r /\ OthersStay(w)
    BY <1>1, <1>2, <2>1, <2>4, <2>5 DEF OthersStay
  <2>7. QED
    BY <1>2, <2>2, <2>6, NotReversing, RowsQuiet
<1>4. CASE AdmitRename(w)
  <2>1. PICK name, barred :
          task' = [task EXCEPT ![w].pc = "self", ![w].name = name, ![w].barred = barred]
    BY <1>4 DEF AdmitRename
  <2>2. task'[w].pc = "self" /\ OthersStay(w)
    BY <1>1, <2>1 DEF Tasks, OthersStay
  <2>3. QED
    BY <1>2, <2>2, NotReversing, RowsQuiet
<1>5. CASE \E n \in Names : PickDefault(w, n)
  <2>1. PICK name : task' = [task EXCEPT ![w].pc = "insert", ![w].name = name]
    BY <1>5 DEF PickDefault
  <2>2. task'[w].pc = "insert" /\ OthersStay(w)
    BY <1>1, <2>1 DEF Tasks, OthersStay
  <2>3. QED
    BY <1>2, <2>2, NotReversing, RowsQuiet
<1>6. QED
  BY <1>3, <1>4, <1>5

\* The adjustment is looked up, with no lock on it ...
LEMMA LookUpAdjustmentBacked ==
  ASSUME IInv, Typed, Backed, NEW w \in Workers, LookUpAdjustment(w)
  PROVE  Backed'
<1>1. CASE Refuse(w)
  BY <1>1, RefusedBacked
<1>2. CASE ~Refuse(w)
  <2>1. task[w] \in Tasks /\ task \in [Workers -> Tasks]
    BY DEF Typed
  <2>2. PICK e : e = ledger[request[w].on]
    OBVIOUS
  <2>3. PICK k : k = [task[w] EXCEPT !.pc = "claim", !.target = e.target, !.delta = -e.delta]
    OBVIOUS
  <2>4. task' = [task EXCEPT ![w] = k] /\ UNCHANGED <<rows, request>> /\ e.made
    BY <1>2, <2>1, <2>2, <2>3 DEF LookUpAdjustment
  <2>5. k.pc = "claim" /\ k.delta = -e.delta
    BY <2>1, <2>3 DEF Tasks
  <2>6. task'[w] = k /\ OthersStay(w)
    BY <2>1, <2>4 DEF OthersStay
  <2>7. ledger'[request'[w].on] = e
    BY <2>2, <2>4 DEF rows
  <2>8. Reversing(w)'
    BY <2>4, <2>5, <2>6, <2>7 DEF Reversing
  <2>9. QED
    BY <2>4, <2>6, <2>8, RowsQuiet
<1>3. QED
  BY <1>1, <1>2

\* ... and its target is compared with the one that was locked.
LEMMA LockUserTargetBacked ==
  ASSUME IInv, Typed, Backed, NEW w \in Workers, LockUserTarget(w)
  PROVE  Backed'
<1>1. CASE Refuse(w)
  BY <1>1, RefusedBacked
<1>2. CASE ~Refuse(w)
  <2>1. task[w] \in Tasks /\ task \in [Workers -> Tasks]
    BY DEF Typed
  <2>2. PICK k : k = [task[w] EXCEPT !.pc = "apply", !.seen = View(task[w].target)]
    OBVIOUS
  <2>3. /\ task' = [task EXCEPT ![w] = k] /\ UNCHANGED <<rows, request>>
        /\ task[w].pc = "target"
        /\ request[w].action = "QUOTA_REVERSE" =>
             ledger[request[w].on].target = task[w].target
    BY <1>2, <2>1, <2>2 DEF LockUserTarget, Adjustable, QuotaActions
  <2>4. k.pc = "apply" /\ k.delta = task[w].delta /\ k.target = task[w].target
    BY <2>1, <2>2 DEF Tasks
  <2>5. task'[w] = k /\ OthersStay(w)
    BY <2>1, <2>3 DEF OthersStay
  <2>6. Reversing(w) /\ ledger' = ledger
    BY <2>3 DEF Backed, rows
  <2>7. Reversing(w)'
    BY <2>3, <2>4, <2>5, <2>6 DEF Reversing
  <2>8. QED
    BY <2>3, <2>5, <2>7, RowsQuiet
<1>3. QED
  BY <1>1, <1>2

LEMMA AdjustQuotaBacked ==
  ASSUME IInv, Typed, Backed, NEW w \in Workers, AdjustQuota(w)
  PROVE  Backed'
<1>1. PICK k \in Keys : k = request[w].key /\ ~claim[k].made
  BY EntryWritten
<1>2. PICK answer, codes : Complete(w, answer, codes)
  BY EntryWritten
<1>3. /\ ClaimsStay /\ UNCHANGED request /\ claim'[k].made /\ OthersStay(w)
      /\ \A j \in Keys \ {k} : claim'[j] = claim[j]
  BY <1>1, <1>2, CommitUnchecked
<1>4. Reversing(w)'
  BY <1>2, EndsBacked DEF Complete
<1>5. /\ ledger'[k].made /\ ledger'[k].target = task[w].target
      /\ ledger'[k].delta = task[w].delta
      /\ ledger'[k].reverses = IF request[w].action = "QUOTA_REVERSE" THEN request[w].on ELSE Nobody
      /\ \A j \in Keys \ {k} : ledger'[j] = ledger[j]
  BY <1>1, EntryWritten
<1>6. ~ledger[k].made
  BY <1>1 DEF Backed
<1>7. \A j \in Keys : ledger'[j].made => claim'[j].made
  BY <1>3, <1>5 DEF Backed
<1>8. ASSUME NEW j \in Keys PROVE Cancels(j)'
  <2>1. CASE j # k
    <3>1. SUFFICES ASSUME ledger[j].reverses \in Keys PROVE Cancels(j)'
      BY <1>5, <2>1 DEF Cancels
    <3>2. PICK i \in Keys : i = ledger[j].reverses
      BY <3>1
    <3>3. ledger[i].made /\ ledger[i].target = ledger[j].target /\ ledger[j].delta = -ledger[i].delta
      BY <3>2 DEF Backed, ReversalsCancel, Cancels
    <3>4. ledger'[i] = ledger[i] /\ ledger'[j] = ledger[j]
      BY <1>5, <1>6, <2>1, <3>3
    <3>5. QED
      BY <3>2, <3>3, <3>4 DEF Cancels
  <2>2. CASE j = k /\ request[w].action = "QUOTA_REVERSE"
    <3>1. PICK i \in Keys : i = request[w].on
      BY <2>2, AccountsAssumption DEF IInv, Shapes
    <3>2. ledger[i].made /\ ledger[i].target = task[w].target /\ task[w].delta = -ledger[i].delta
      BY <2>2, <3>1 DEF Backed, Reversing, AdjustQuota
    <3>3. ledger'[i] = ledger[i] /\ ledger'[j].reverses = i
      BY <1>5, <1>6, <2>2, <3>1, <3>2
    <3>4. QED
      BY <1>5, <2>2, <3>2, <3>3 DEF Cancels
  <2>3. CASE j = k /\ request[w].action # "QUOTA_REVERSE"
    BY <1>5, <2>3, AccountsAssumption DEF Cancels
  <2>4. QED
    BY <2>1, <2>2, <2>3
<1>9. ASSUME NEW v \in Workers \ {w} PROVE Reversing(v)'
  <2>1. task'[v] = task[v] /\ request'[v] = request[v] /\ Reversing(v)
    BY <1>3 DEF OthersStay, Backed
  <2>2. SUFFICES ASSUME request[v].action = "QUOTA_REVERSE",
                        task[v].pc \in {"claim", "target", "apply"}
                 PROVE  Reversing(v)'
    BY <2>1 DEF Reversing
  <2>3. PICK i \in Keys : i = request[v].on
    BY <2>2, AccountsAssumption DEF IInv, Shapes
  <2>4. ledger[i].made
    BY <2>1, <2>2, <2>3 DEF Reversing
  <2>5. ledger'[request'[v].on] = ledger[request[v].on]
    BY <1>5, <1>6, <2>1, <2>3, <2>4
  <2>6. QED
    BY <2>1, <2>5 DEF Reversing
<1>10. QED
  BY <1>4, <1>7, <1>8, <1>9 DEF Backed, ReversalsCancel

\* A closure erases the target of an adjustment and of its reversal alike.
LEMMA CloseAccountBacked ==
  ASSUME IInv, Typed, Backed, NEW w \in Workers, CloseAccount(w)
  PROVE  Backed'
<1>1. UNCHANGED <<claim, request>> /\ Finish(w)
  BY DEF CloseAccount
<1>2. OthersStay(w) /\ Reversing(w)'
  BY <1>1, EndsBacked
<1>3. ClaimsStay
  BY <1>1 DEF ClaimsStay
<1>4. PICK u \in Users : u = request[w].by /\ lock[u] \in {w, Nobody}
  BY NamedBy DEF CloseAccount, Free
<1>5. CASE ~StillThere(u)
  <2>1. UNCHANGED ledger
    BY <1>4, <1>5 DEF CloseAccount
  <2>2. QED
    BY <1>1, <1>2, <1>3, <2>1, LedgerQuiet
<1>6. CASE StillThere(u)
  <2>1. ASSUME NEW k \in Keys
        PROVE  /\ ledger'[k].target = IF ledger[k].target = u THEN Nobody ELSE ledger[k].target
               /\ ledger'[k].delta = ledger[k].delta /\ ledger'[k].made = ledger[k].made
               /\ ledger'[k].reverses = ledger[k].reverses
    <3>1. ledger[k] \in Entries
      BY DEF Typed
    <3>2. ledger'[k] = IF ledger[k].target = u THEN [ledger[k] EXCEPT !.target = Nobody]
                       ELSE ledger[k]
      BY <1>4, <1>6 DEF CloseAccount, ErasedFromLedger
    <3>3. QED
      BY <3>1, <3>2 DEF Entries
  <2>2. \A k \in Keys : ledger'[k].made => claim'[k].made
    BY <1>1, <2>1 DEF Backed
  <2>3. ASSUME NEW k \in Keys PROVE Cancels(k)'
    <3>1. SUFFICES ASSUME ledger[k].reverses \in Keys PROVE Cancels(k)'
      BY <2>1 DEF Cancels
    <3>2. PICK i \in Keys : i = ledger[k].reverses
      BY <3>1
    <3>3. ledger[i].made /\ ledger[i].target = ledger[k].target /\ ledger[k].delta = -ledger[i].delta
      BY <3>2 DEF Backed, ReversalsCancel, Cancels
    <3>4. ledger'[i].made /\ ledger'[i].target = ledger'[k].target /\ ledger'[k].delta = -ledger'[i].delta
      BY <2>1, <3>3
    <3>5. ledger'[k].reverses = i
      BY <2>1, <3>2
    <3>6. QED
      BY <3>4, <3>5 DEF Cancels
  <2>4. ASSUME NEW v \in Workers \ {w} PROVE Reversing(v)'
    <3>1. task'[v] = task[v] /\ request'[v] = request[v] /\ Reversing(v)
      BY <1>1, <1>2 DEF OthersStay, Backed
    <3>2. SUFFICES ASSUME request[v].action = "QUOTA_REVERSE" PROVE Reversing(v)'
      BY <3>1 DEF Reversing
    <3>3. PICK i \in Keys : i = request[v].on
      BY <3>2, AccountsAssumption DEF IInv, Shapes
    <3>4. task[v].pc \in {"claim", "target", "apply"} =>
            ledger[i].made /\ task[v].delta = -ledger[i].delta
      BY <3>1, <3>2, <3>3 DEF Reversing
    <3>5. task[v].pc = "apply" => ledger'[i].target = task[v].target
      <4>1. SUFFICES ASSUME task[v].pc = "apply" PROVE ledger'[i].target = task[v].target
        OBVIOUS
      <4>2. ledger[i].target = task[v].target /\ lock[task[v].target] = v
        BY <3>1, <3>2, <3>3, <4>1, TargetLocked DEF Reversing, QuotaActions
      <4>3. task[v].target # u
        BY <1>4, <4>2, AccountsAssumption
      <4>4. QED
        BY <2>1, <4>2, <4>3
    <3>6. ledger'[i].made = ledger[i].made /\ ledger'[i].delta = ledger[i].delta
      BY <2>1
    <3>7. request'[v].on = i
      BY <3>1, <3>3
    <3>8. QED
      BY <3>1, <3>4, <3>5, <3>6, <3>7 DEF Reversing
  <2>5. QED
    BY <1>2, <2>2, <2>3, <2>4 DEF Backed, ReversalsCancel
<1>7. QED
  BY <1>5, <1>6

\* Every other step writes rows that reversals do not read.
LEMMA OthersBacked ==
  ASSUME IInv, Typed, Backed,
         \/ \E w \in Workers : \/ MutateUser(w) \/ CreateBatch(w) \/ DisableInvitations(w)
                               \/ RecordRefusal(w) \/ Reveal(w) \/ Rename(w) \/ CreateUser(w)
         \/ \E u \in Users : Spend(u) \/ OpenSession(u) \/ EndCooldown(u)
         \/ \E n \in Names : EndQuarantine(n)
         \/ \E b \in Batches : RedeemCode(b)
         \/ BootstrapOwner
         \/ UNCHANGED vars
  PROVE  Backed'
<1>1. UNCHANGED <<ledger, request>>
  BY DEF MutateUser, CreateBatch, DisableInvitations, Complete, RecordRefusal, Reveal, Rename,
         CreateUser, Spend, OpenSession, EndCooldown, EndQuarantine, RedeemCode, BootstrapOwner,
         Others, vars
<1>2. CASE \E w \in Workers : MutateUser(w) \/ CreateBatch(w) \/ DisableInvitations(w)
  <2>1. PICK w \in Workers : \E answer, codes : Complete(w, answer, codes)
    BY <1>2 DEF MutateUser, CreateBatch, DisableInvitations
  <2>2. ClaimsStay
    BY <2>1, CommitUnchecked
  <2>3. OthersStay(w) /\ Reversing(w)'
    BY <2>1, EndsBacked DEF Complete
  <2>4. QED
    BY <1>1, <2>2, <2>3, LedgerQuiet
<1>3. CASE ~\E w \in Workers : MutateUser(w) \/ CreateBatch(w) \/ DisableInvitations(w)
  <2>1. UNCHANGED claim
    BY <1>3 DEF RecordRefusal, Reveal, Rename, CreateUser, Spend, OpenSession, EndCooldown,
                EndQuarantine, RedeemCode, BootstrapOwner, Others, vars
  <2>2. ClaimsStay
    BY <2>1 DEF ClaimsStay
  <2>3. \E x : OthersStay(x) /\ \A w \in Workers : w = x => Reversing(w)'
    <3>1. CASE task' = task
      <4>1. OthersStay(Nobody) /\ Nobody \notin Workers
        BY <3>1, AccountsAssumption DEF OthersStay
      <4>2. QED
        BY <4>1
    <3>2. CASE \E w \in Workers : Finish(w)
      BY <3>2, EndsBacked
    <3>3. CASE \E w \in Workers : task' = [task EXCEPT ![w].pc = "pick", ![w].name = Nobody]
      <4>1. PICK w \in Workers : task' = [task EXCEPT ![w].pc = "pick", ![w].name = Nobody]
        BY <3>3
      <4>2. task'[w].pc = "pick" /\ OthersStay(w)
        BY <4>1 DEF Typed, Tasks, OthersStay
      <4>3. QED
        BY <4>2, NotReversing
    <3>4. QED
      BY <1>3, <3>1, <3>2, <3>3 DEF RecordRefusal, Reveal, Rename, CreateUser, Spend,
         OpenSession, EndCooldown, EndQuarantine, RedeemCode, BootstrapOwner, Others, vars
  <2>4. QED
    BY <1>1, <2>2, <2>3, LedgerQuiet
<1>4. QED
  BY <1>2, <1>3

LEMMA BackedStep ==
  ASSUME IInv, Typed, Backed, [Next]_vars
  PROVE  Backed'
<1>1. ASSUME NEW w \in Workers, ConsoleStep(w) PROVE Backed'
  BY <1>1, AdmittedBacked, LookingBacked, LookUpAdjustmentBacked, LockUserTargetBacked,
     AdjustQuotaBacked, OthersBacked DEF ConsoleStep
<1>2. ASSUME NEW w \in Workers, NamesStep(w) PROVE Backed'
  BY <1>2, AdmittedBacked, LookingBacked, OthersBacked DEF NamesStep
<1>3. ASSUME NEW w \in Workers, AdmitClosure(w) \/ CloseAccount(w) \/ Crash(w) PROVE Backed'
  BY <1>3, LookingBacked, CloseAccountBacked
<1>4. QED
  BY <1>1, <1>2, <1>3, OthersBacked DEF Next

LEMMA BackedInit ==
  ASSUME Init
  PROVE  Backed
<1>1. \A k \in Keys : ~ledger[k].made /\ ledger[k].reverses = Nobody
  BY DEF Init, NoEntry
<1>2. ASSUME NEW w \in Workers PROVE Reversing(w)
  BY IdleShape DEF Init, Reversing
<1>3. QED
  BY <1>1, <1>2, AccountsAssumption DEF Backed, ReversalsCancel, Cancels

\* reverse_quota_adjustment looks the adjustment and its target up in a
\* transaction that ends before create_quota_adjustment begins: what it found
\* is there still, so that the RuntimeError is never raised, and a reversal is
\* always of the same user and of the same number of units.
THEOREM ReversalsCancelAlways == Spec => []ReversalsCancel
<1>1. Init => Typed /\ Backed
  BY TypedInit, BackedInit
<1>2. IInv /\ IInv' /\ Typed /\ Backed /\ [Next]_vars => Typed' /\ Backed'
  BY TypedStep, BackedStep
<1>3. Backed => ReversalsCancel
  BY DEF Backed
<1>4. QED
  BY <1>1, <1>2, <1>3, LockedRowsAreKnown, PTL DEF Spec
=============================================================================
