--------------------------- MODULE CleanupRunProofs ---------------------------
(***************************************************************************)
(* Theorems about the cleanup run, for every set of tasks, every cost and  *)
(* every cap: its type invariant, that the hold count is the number of     *)
(* sessions in flight, how far past the cap a run can spend, that no kept  *)
(* helper is re-inlined, and that the ledger tells what became of every    *)
(* task and of the tree.                                                   *)
(***************************************************************************)
EXTENDS CleanupRun, FiniteSetTheorems, SequenceTheorems, TLAPS

-----------------------------------------------------------------------------
(* What the integration gate keeps. *)

\* Every candidate of the revert search is a sequence of the spliced lanes.
LEMMA CandidatesType ==
  ASSUME NEW S, NEW order \in Seq(S)
  PROVE  Candidates(order) \in Seq(Seq(S))
<1> DEFINE n == Len(order)
<1>0. n \in Nat /\ order \in [1 .. n -> S]
  BY LenProperties
<1>1. SingleReverts(order) \in Seq(Seq(S))
  <2>1. ASSUME NEW i \in 1 .. n
        PROVE  Without(order, n + 1 - i) \in Seq(S)
    <3>1. n - 1 \in Nat
      BY <1>0, <2>1
    <3>2. ASSUME NEW j \in 1 .. n - 1
          PROVE  (IF j < n + 1 - i THEN order[j] ELSE order[j + 1]) \in S
      BY <1>0
    <3>3. Without(order, n + 1 - i) \in [1 .. n - 1 -> S]
      BY <3>2 DEF Without
    <3> QED
      BY <3>1, <3>3, SeqDef
  <2>2. SingleReverts(order) \in [1 .. n -> Seq(S)]
    BY <2>1 DEF SingleReverts
  <2> QED
    BY <1>0, <2>2, SeqDef
<1>2. Prefixes(order) \in Seq(Seq(S))
  <2> DEFINE m == IF n > 2 THEN n - 2 ELSE 0
  <2>1. m \in Nat
    BY <1>0
  <2>2. ASSUME NEW i \in 1 .. m
        PROVE  SubSeq(order, 1, n - 1 - i) \in Seq(S)
    <3>1. \A j \in 1 .. n - 1 - i : order[j] \in S
      BY <1>0
    <3> QED
      BY <1>0, <3>1, SubSeqProperties
  <2>3. Prefixes(order) \in [1 .. m -> Seq(S)]
    BY <2>2 DEF Prefixes
  <2> QED
    BY <2>1, <2>3, SeqDef
<1>3. <<order>> \in Seq(Seq(S)) /\ <<>> \in Seq(Seq(S))
  OBVIOUS
<1>4. <<order>> \o SingleReverts(order) \in Seq(Seq(S))
  BY <1>1, <1>3, ConcatProperties
<1>5. (<<order>> \o SingleReverts(order)) \o Prefixes(order) \in Seq(Seq(S))
  BY <1>2, <1>4, ConcatProperties
<1> QED
  BY <1>3, <1>5 DEF Candidates

\* The gate keeps a subset of the lanes the splice placed.
LEMMA OutcomesType ==
  ASSUME NEW S, NEW order \in Seq(S)
  PROVE  Outcomes(order) \subseteq SUBSET S
<1>1. ASSUME NEW c \in Lanes(Candidates(order))
      PROVE  Lanes(c) \subseteq S
  <2>1. c \in Seq(S)
    BY CandidatesType, LenProperties, ElementOfSeq DEF Lanes
  <2> QED
    BY <2>1, LenProperties DEF Lanes
<1> QED
  BY <1>1 DEF Outcomes

\* What the splice places is a sequence of accepted lanes.
LEMMA SplicedOrdersType ==
  ASSUME NEW accepted \in SUBSET Tasks, NEW order \in SplicedOrders(accepted)
  PROVE  order \in Seq(accepted)
<1>1. PICK S \in SUBSET accepted : order \in Ascending(S)
  BY DEF SplicedOrders
<1>2. IsFiniteSet(S) /\ Cardinality(S) \in Nat
  BY FS_Subset, FS_CardinalityType, CleanupAssumption
<1>3. order \in [1 .. Cardinality(S) -> S]
  BY <1>1 DEF Ascending
<1>4. order \in Seq(S)
  BY <1>2, <1>3, SeqDef
<1> QED
  BY <1>4, SeqMonotonic

LEMMA MergedType ==
  ASSUME NEW accepted \in SUBSET Tasks, NEW order \in SplicedOrders(accepted),
         NEW keep \in Outcomes(order)
  PROVE  keep \subseteq accepted
BY SplicedOrdersType, OutcomesType

-----------------------------------------------------------------------------
(* Type correctness. *)

LEMMA TaskRowType ==
  ASSUME TypeOK, NEW t \in Tasks, NEW keep \in BOOLEAN,
         NEW out \in {"accept", "reject", "review-unavailable", "skip"}
  PROVE  TaskRow(t, out, keep) \in Row
BY DEF TypeOK, TaskRow, Row

LEMMA KeptNewType ==
  ASSUME ledger \in Seq(Row)
  PROVE  KeptNew \in SUBSET Tasks
<1>1. \A i \in DOMAIN ledger : ledger[i] \in Row
  BY LenProperties, ElementOfSeq
<1>2. \A i \in DOMAIN ledger : ledger[i].new \in SUBSET Tasks
  BY <1>1 DEF Row
<1> QED
  BY <1>2 DEF KeptNew

\* Symbols that changed alter no other field of their rows.
LEMMA ChangedType ==
  ASSUME ledger \in Seq(Row), NEW S
  PROVE  /\ Changed(S) \in Seq(Row)
         /\ DOMAIN Changed(S) = DOMAIN ledger
         /\ \A i \in DOMAIN ledger :
              /\ Changed(S)[i].kept = ledger[i].kept /\ Changed(S)[i].new = ledger[i].new
              /\ Changed(S)[i].earlier = ledger[i].earlier
<1>1. Len(ledger) \in Nat /\ DOMAIN ledger = 1 .. Len(ledger)
  BY LenProperties
<1>2. ASSUME NEW i \in DOMAIN ledger
      PROVE  /\ Changed(S)[i] \in Row
             /\ Changed(S)[i].kept = ledger[i].kept /\ Changed(S)[i].new = ledger[i].new
             /\ Changed(S)[i].earlier = ledger[i].earlier
  <2>1. ledger[i] \in Row
    BY <1>1, ElementOfSeq
  <2> QED
    BY <2>1 DEF Changed, Row
<1>3. DOMAIN Changed(S) = DOMAIN ledger
  BY DEF Changed
<1>4. Changed(S) \in [1 .. Len(ledger) -> Row]
  BY <1>1, <1>2 DEF Changed
<1> QED
  BY <1>1, <1>2, <1>3, <1>4, SeqDef

LEMMA TypeInit == Init => TypeOK
<1> SUFFICES ASSUME Init PROVE TypeOK
  OBVIOUS
<1>1. ledger \in Seq(Row)
  BY CleanupAssumption DEF Init
<1>2. fns \in SUBSET Tasks /\ baseFns \in SUBSET Tasks
  BY <1>1, KeptNewType DEF Init
<1> QED
  BY <1>1, <1>2, CleanupAssumption DEF Init, TypeOK, NoChange, Steps

LEMMA AtFinite ==
  ASSUME TypeOK, NEW S
  PROVE  /\ IsFiniteSet(At(S))
         /\ Cardinality(At(S)) \in Nat
         /\ Cardinality(At(S)) <= Cardinality(Tasks)
BY FS_Subset, FS_CardinalityType, CleanupAssumption DEF At

\* Releasing a hold is safe because the count is exact: `held` would leave Nat
\* otherwise, so type correctness needs LaneInv.
LEMMA TypeStep == TypeOK /\ LaneInv /\ [Next]_vars => TypeOK'
<1> SUFFICES ASSUME TypeOK, LaneInv, [Next]_vars PROVE TypeOK'
  OBVIOUS
<1> USE DEF TypeOK, Steps
<1>0. CASE UNCHANGED vars
  BY <1>0 DEF vars, plan, lanes, money, tree
<1>1. CASE Plan
  <2>1. Pending \in SUBSET Tasks
    BY DEF Pending
  <2>2. PICK rank \in [Pending -> PlanWaves], k \in [Pending -> Kinds \cup {NoEdit}] :
          /\ wave' = IF waves = 0 THEN SharedWave ELSE NextWave(Pending \ Shared, rank)
          /\ kind' = [t \in Tasks |-> IF t \in Pending THEN k[t] ELSE NoEdit]
    BY <1>1 DEF Plan
  <2>3. \A S \in SUBSET Tasks : Cardinality(S) \in Nat
    BY FS_Subset, FS_CardinalityType, CleanupAssumption
  <2>4. wave' \in [tasks : SUBSET Tasks, lanes : Nat]
    BY <2>1, <2>2, <2>3, CleanupAssumption DEF SharedWave, NextWave
  <2>5. kind' \in [Tasks -> Kinds \cup {NoEdit}]
    BY <2>1, <2>2
  <2>6. phase' = "wave" /\ waves' = waves + 1 /\ todo' = wave'.tasks
    BY <1>1 DEF Plan
  <2>7. UNCHANGED <<done, merged, ledger, pc, attempt, edit, outcome>>
    BY <1>1 DEF Plan, lanes
  <2>8. UNCHANGED <<spent, held, est, reviewed, applied, fns, hot, baseFns>>
    BY <1>1 DEF Plan, money, tree
  <2> QED
    BY <2>4, <2>5, <2>6, <2>7, <2>8
<1>2. CASE End
  BY <1>2 DEF End, plan, lanes, money, tree
<1>3. ASSUME NEW t \in Tasks, StartTask(t)
      PROVE  TypeOK'
  <2>1. TaskRow(t, "skip", FALSE) \in Row
    BY TaskRowType
  <2>2. CASE SkipReason(t)
    <3>1. /\ ledger' = Append(ledger, TaskRow(t, "skip", FALSE))
          /\ UNCHANGED <<lanes, money>>
      BY <1>3, <2>2 DEF StartTask
    <3>2. ledger' \in Seq(Row)
      BY <2>1, <3>1, AppendProperties
    <3>3. todo' \in SUBSET Tasks
      BY <1>3 DEF StartTask
    <3>4. UNCHANGED <<phase, plan, merged, tree>>
      BY <1>3 DEF StartTask
    <3> QED
      BY <3>1, <3>2, <3>3, <3>4 DEF plan, lanes, money, tree
  <2>3. CASE ~ SkipReason(t)
    <3>1. /\ Reserve /\ pc' = [pc EXCEPT ![t] = "queued"]
          /\ UNCHANGED <<attempt, edit, outcome, ledger>>
      BY <1>3, <2>3 DEF StartTask
    <3>2. spent' \in Nat /\ held' \in Nat /\ est' \in Nat /\ reviewed' \in Nat
      BY <3>1 DEF Reserve
    <3>3. pc' \in [Tasks -> Steps]
      BY <3>1
    <3>4. todo' \in SUBSET Tasks
      BY <1>3 DEF StartTask
    <3>5. UNCHANGED <<phase, plan, merged, tree>>
      BY <1>3 DEF StartTask
    <3> QED
      BY <3>1, <3>2, <3>3, <3>4, <3>5 DEF plan, tree
  <2> QED
    BY <2>2, <2>3
<1>4. ASSUME NEW t \in Tasks, BeginSession(t)
      PROVE  TypeOK'
  BY <1>4 DEF BeginSession, plan, money, tree
<1>5. ASSUME NEW t \in Tasks, EndSession(t)
      PROVE  TypeOK'
  <2>1. held - 1 \in Nat
    <3>1. t \in At(Holding)
      BY <1>5 DEF EndSession, At, Holding
    <3>2. Cardinality(At(Holding)) # 0
      BY <3>1, AtFinite, FS_EmptySet
    <3> QED
      BY <3>2, AtFinite DEF LaneInv, HeldIsInFlight
  <2>2. spent' \in Nat /\ held' \in Nat /\ est' \in Nat /\ reviewed' \in Nat
    BY <1>5, <2>1, CleanupAssumption DEF EndSession, ChargeSession
  <2>3. edit' \in [Tasks -> [new : SUBSET Tasks, gone : SUBSET Tasks]]
    BY <1>5 DEF EndSession
  <2> QED
    BY <1>5, <2>2, <2>3 DEF EndSession, plan, tree
<1>6. ASSUME NEW t \in Tasks, Judge(t)
      PROVE  TypeOK'
  BY <1>6, CleanupAssumption DEF Judge, ChargeReview, plan, tree
<1>7. ASSUME NEW t \in Tasks, Retry(t)
      PROVE  TypeOK'
  <2>1. /\ spent' \in Nat /\ held' \in Nat /\ est' \in Nat /\ reviewed' \in Nat
        /\ attempt' \in [Tasks -> 0 .. 2]
    BY <1>7 DEF Retry, Reserve, money
  <2>2. pc' \in [Tasks -> Steps]
    BY <1>7 DEF Retry
  <2> QED
    BY <1>7, <2>1, <2>2 DEF Retry, plan, tree
<1>8. ASSUME NEW t \in Tasks, LaneRaises(t)
      PROVE  TypeOK'
  BY <1>8 DEF LaneRaises, plan, money, tree
<1>9. ASSUME NEW t \in Tasks, AppendRow(t)
      PROVE  TypeOK'
  <2>1. TaskRow(t, outcome[t], outcome[t] = "accept" /\ t \in merged) \in Row
    BY TaskRowType
  <2> QED
    BY <1>9, <2>1 DEF AppendRow, plan, lanes, money, tree
<1>10. CASE Die
  BY <1>10 DEF Die, plan, lanes, money, tree
<1>11. CASE IntegrateLanes
  <2> DEFINE accepted == {t \in At({"finished"}) : outcome[t] = "accept"}
  <2>1. accepted \in SUBSET Tasks
    BY DEF At
  <2>2. PICK order \in SplicedOrders(accepted) : merged' \in Outcomes(order)
    BY <1>11 DEF IntegrateLanes
  <2>3. merged' \in SUBSET Tasks
    BY <2>1, <2>2, MergedType
  <2>4. Removed(merged') \in SUBSET Tasks /\ Added(merged') \in SUBSET Tasks
    BY <2>3 DEF Removed, Added
  <2>5. fns' \in SUBSET Tasks /\ applied' \in SUBSET Tasks /\ hot' \in SUBSET Tasks
    BY <1>11, <2>3, <2>4 DEF IntegrateLanes
  <2>6. todo' \in SUBSET Tasks
    BY <1>11 DEF IntegrateLanes, At
  <2>7. ledger' \in Seq(Row)
    <3>1. CASE ledger' = ledger
      BY <3>1
    <3>2. CASE \E S \in SUBSET Tasks : ledger' = Changed(S)
      BY <3>2, ChangedType
    <3> QED
      BY <1>11, <3>1, <3>2 DEF IntegrateLanes
  <2>8. UNCHANGED <<plan, lanes, money, baseFns>> /\ phase' = "rows"
    BY <1>11 DEF IntegrateLanes
  <2> QED
    BY <2>3, <2>5, <2>6, <2>7, <2>8 DEF plan, lanes, money
<1>12. CASE EndWave
  BY <1>12 DEF EndWave, NoChange, money, tree
<1> QED
  BY <1>0, <1>1, <1>2, <1>3, <1>4, <1>5, <1>6, <1>7, <1>8, <1>9, <1>10,
     <1>11, <1>12
  DEF Next, LaneStep

-----------------------------------------------------------------------------
(* Lanes and holds. *)

\* A lane that takes a hold.
LEMMA AtAdd ==
  ASSUME TypeOK, NEW t \in Tasks, NEW S, NEW s \in S, pc[t] \notin S,
         pc' = [pc EXCEPT ![t] = s]
  PROVE  Cardinality(At(S)') = Cardinality(At(S)) + 1
<1>1. At(S)' = At(S) \cup {t}
  BY DEF TypeOK, At
<1>2. t \notin At(S)
  BY DEF At
<1> QED
  BY <1>1, <1>2, AtFinite, FS_AddElement

\* A lane that gives its hold back.
LEMMA AtRemove ==
  ASSUME TypeOK, NEW t \in Tasks, NEW S, NEW s, s \notin S, pc[t] \in S,
         pc' = [pc EXCEPT ![t] = s]
  PROVE  Cardinality(At(S)') = Cardinality(At(S)) - 1
<1>1. At(S)' = At(S) \ {t}
  BY DEF TypeOK, At
<1>2. t \in At(S)
  BY DEF At
<1> QED
  BY <1>1, <1>2, AtFinite, FS_RemoveElement

\* A lane that moves on with its hold, or without one.
LEMMA AtSame ==
  ASSUME TypeOK, NEW t \in Tasks, NEW S, NEW s, s \in S <=> pc[t] \in S,
         pc' = [pc EXCEPT ![t] = s]
  PROVE  At(S)' = At(S)
BY DEF TypeOK, At

LEMMA LaneInit == Init => LaneInv
<1> SUFFICES ASSUME Init PROVE LaneInv
  OBVIOUS
<1>1. At(Holding) = {}
  BY DEF Init, At, Holding
<1>2. HeldIsInFlight
  BY <1>1, FS_EmptySet DEF Init, HeldIsInFlight
<1> QED
  BY <1>2 DEF Init, LaneInv

LEMMA LaneStepInv == TypeOK /\ LaneInv /\ [Next]_vars => LaneInv'
<1> SUFFICES ASSUME TypeOK, LaneInv, [Next]_vars PROVE LaneInv'
  OBVIOUS
<1>0. CASE UNCHANGED vars
  BY <1>0 DEF vars, plan, lanes, money, tree, LaneInv, HeldIsInFlight, At
<1>1. CASE Plan
  <2>1. UNCHANGED <<pc, held>> /\ phase = "plan" /\ phase' = "wave"
    BY <1>1 DEF Plan, lanes, money
  <2>2. todo' \in SUBSET Tasks
    BY <1>1, TypeStep DEF TypeOK
  <2> QED
    BY <2>1, <2>2 DEF LaneInv, HeldIsInFlight, At
<1>2. CASE End
  BY <1>2 DEF End, lanes, money, LaneInv, HeldIsInFlight, At
<1>3. ASSUME NEW t \in Tasks, StartTask(t)
      PROVE  LaneInv'
  <2>1. phase = "wave" /\ phase' = "wave" /\ todo' = todo \ {t} /\ pc[t] = "idle"
    BY <1>3 DEF StartTask, LaneInv, First
  <2>2. CASE SkipReason(t)
    <3>1. UNCHANGED <<pc, held>>
      BY <1>3, <2>2 DEF StartTask, lanes, money
    <3> QED
      BY <2>1, <3>1 DEF LaneInv, HeldIsInFlight, At
  <2>3. CASE ~ SkipReason(t)
    <3>1. held' = held + 1 /\ pc' = [pc EXCEPT ![t] = "queued"]
      BY <1>3, <2>3 DEF StartTask, Reserve
    <3>2. "queued" \in Holding /\ "idle" \notin Holding
      BY DEF Holding
    <3>3. Cardinality(At(Holding)') = Cardinality(At(Holding)) + 1
      BY <2>1, <3>1, <3>2, AtAdd
    <3>4. HeldIsInFlight'
      BY <3>1, <3>3 DEF LaneInv, HeldIsInFlight, Holding
    <3>5. \A u \in todo' : pc'[u] = "idle"
      BY <2>1, <3>1 DEF LaneInv, TypeOK
    <3> QED
      BY <2>1, <3>4, <3>5 DEF LaneInv
  <2> QED
    BY <2>2, <2>3
<1>4. ASSUME NEW t \in Tasks, BeginSession(t)
      PROVE  LaneInv'
  <2>1. pc' = [pc EXCEPT ![t] = "session"] /\ pc[t] = "queued"
    BY <1>4 DEF BeginSession, First, At
  <2>2. At(Holding)' = At(Holding)
    BY <2>1, AtSame DEF Holding
  <2> QED
    BY <1>4, <2>2 DEF BeginSession, LanesRun, money, LaneInv, HeldIsInFlight, Holding
<1>5. ASSUME NEW t \in Tasks, EndSession(t)
      PROVE  LaneInv'
  <2>1. pc' = [pc EXCEPT ![t] = "judge"] /\ pc[t] = "session" /\ held' = held - 1
    BY <1>5 DEF EndSession, ChargeSession
  <2>2. "judge" \notin Holding /\ "session" \in Holding
    BY DEF Holding
  <2>3. Cardinality(At(Holding)') = Cardinality(At(Holding)) - 1
    BY <2>1, <2>2, AtRemove
  <2> QED
    BY <1>5, <2>1, <2>3 DEF EndSession, LanesRun, LaneInv, HeldIsInFlight, Holding
<1>6. ASSUME NEW t \in Tasks, Judge(t)
      PROVE  LaneInv'
  <2>1. PICK s \in {"retry", "finished"} : pc' = [pc EXCEPT ![t] = s]
    BY <1>6 DEF Judge
  <2>2. pc[t] = "judge" /\ held' = held
    BY <1>6 DEF Judge, ChargeReview
  <2>3. At(Holding)' = At(Holding)
    BY <2>1, <2>2, AtSame DEF Holding
  <2> QED
    BY <1>6, <2>2, <2>3 DEF Judge, LanesRun, LaneInv, HeldIsInFlight, Holding
<1>7. ASSUME NEW t \in Tasks, Retry(t)
      PROVE  LaneInv'
  <2>1. pc[t] = "retry" /\ LanesRun /\ UNCHANGED <<phase, todo>>
    BY <1>7 DEF Retry
  <2>2. CASE Reserve /\ pc' = [pc EXCEPT ![t] = "session"]
    <3>1. "session" \in Holding /\ "retry" \notin Holding
      BY DEF Holding
    <3>2. Cardinality(At(Holding)') = Cardinality(At(Holding)) + 1
      BY <2>1, <2>2, <3>1, AtAdd
    <3> QED
      BY <2>1, <2>2, <3>2 DEF Reserve, LanesRun, LaneInv, HeldIsInFlight, Holding
  <2>3. CASE pc' = [pc EXCEPT ![t] = "finished"] /\ held' = held
    <3>1. At(Holding)' = At(Holding)
      BY <2>1, <2>3, AtSame DEF Holding
    <3> QED
      BY <2>1, <2>3, <3>1 DEF LanesRun, LaneInv, HeldIsInFlight, Holding
  <2> QED
    BY <1>7, <2>2, <2>3 DEF Retry, money
<1>8. ASSUME NEW t \in Tasks, LaneRaises(t)
      PROVE  LaneInv'
  <2>1. PICK s \in {"lost", "failed"} :
          /\ pc' = [pc EXCEPT ![t] = s]
          /\ \/ pc[t] = "session" /\ s = "lost"
             \/ pc[t] = "judge" /\ s = "failed"
    BY <1>8 DEF LaneRaises
  <2>2. At(Holding)' = At(Holding)
    BY <2>1, AtSame DEF Holding
  <2> QED
    BY <1>8, <2>2 DEF LaneRaises, LanesRun, money, LaneInv, HeldIsInFlight, Holding
<1>9. ASSUME NEW t \in Tasks, AppendRow(t)
      PROVE  LaneInv'
  BY <1>9 DEF AppendRow, lanes, money, LaneInv, HeldIsInFlight, At
<1>10. CASE Die
  BY <1>10 DEF Die, lanes, money, LaneInv, HeldIsInFlight, At
<1>11. CASE IntegrateLanes
  <2>1. \A t \in Tasks : pc[t] \in {"idle", "finished"}
    BY <1>11 DEF IntegrateLanes, At, TypeOK, Steps
  <2>2. UNCHANGED <<pc, held>> /\ phase' = "rows"
    BY <1>11 DEF IntegrateLanes, lanes, money
  <2> QED
    BY <2>1, <2>2 DEF LaneInv, HeldIsInFlight, At
<1>12. CASE EndWave
  <2>1. At(Holding) = {} /\ At(Holding)' = {}
    BY <1>12 DEF EndWave, LaneInv, At, Holding
  <2>2. held' = held /\ phase' = "plan" /\ \A t \in Tasks : pc'[t] = "idle"
    BY <1>12 DEF EndWave, money
  <2> QED
    BY <2>1, <2>2 DEF LaneInv, HeldIsInFlight
<1> QED
  BY <1>0, <1>1, <1>2, <1>3, <1>4, <1>5, <1>6, <1>7, <1>8, <1>9, <1>10,
     <1>11, <1>12
  DEF Next, LaneStep

\* Every variable keeps its type, `held` included: it never goes negative.
THEOREM TypeCorrect == Spec => []TypeOK
<1>1. Init => TypeOK /\ LaneInv
  BY TypeInit, LaneInit
<1>2. TypeOK /\ LaneInv /\ [Next]_vars => TypeOK' /\ LaneInv'
  BY TypeStep, LaneStepInv
<1> QED
  BY <1>1, <1>2, PTL DEF Spec

\* Whatever the interleaving of reservations and charges, the hold count is
\* the number of sessions promised or running (Run.reserve, Run.charge).
THEOREM HoldsAreExact == Spec => []HeldIsInFlight
<1>1. Init => TypeOK /\ LaneInv
  BY TypeInit, LaneInit
<1>2. TypeOK /\ LaneInv /\ [Next]_vars => TypeOK' /\ LaneInv'
  BY TypeStep, LaneStepInv
<1>3. LaneInv => HeldIsInFlight
  BY DEF LaneInv
<1> QED
  BY <1>1, <1>2, <1>3, PTL DEF Spec

-----------------------------------------------------------------------------
(* The dollar cap. *)

LEMMA TimesMonotonic ==
  ASSUME NEW a \in Nat, NEW b \in Nat, NEW c \in Nat, NEW d \in Nat, a <= b, c <= d
  PROVE  a * c <= b * d
<1>1. PICK k \in Nat : b = a + k
  <2>1. b - a \in Nat /\ b = a + (b - a)
    OBVIOUS
  <2> QED
    BY <2>1
<1>2. PICK m \in Nat : d = c + m
  <2>1. d - c \in Nat /\ d = c + (d - c)
    OBVIOUS
  <2> QED
    BY <2>1
<1>3. b * d = a * c + a * m + k * c + k * m
  BY <1>1, <1>2
<1>4. a * c \in Nat /\ a * m \in Nat /\ k * c \in Nat /\ k * m \in Nat
  OBVIOUS
<1> QED
  BY <1>3, <1>4

\* Room for one more session at the current estimate leaves room for what all
\* the sessions then in flight can cost over the estimates they were held at.
LEMMA ReserveKeepsBudget ==
  ASSUME TypeOK, LaneInv, BudgetInv, NEW t \in Tasks, pc[t] \notin Holding, Reserve
  PROVE  BudgetInv'
<1> DEFINE n == Cardinality(Tasks) - 1
<1>1. Cardinality(Tasks) \in Nat
  BY FS_CardinalityType, CleanupAssumption
<1>2. held <= n /\ n \in Nat
  <2>1. At(Holding) \subseteq Tasks \ {t}
    BY DEF At
  <2>2. /\ IsFiniteSet(Tasks \ {t})
        /\ Cardinality(Tasks \ {t}) = n
    BY FS_RemoveElement, CleanupAssumption
  <2>3. Cardinality(At(Holding)) <= n
    BY <2>1, <2>2, FS_Subset
  <2> QED
    BY <1>1, <2>2, <2>3, FS_CardinalityType DEF LaneInv, HeldIsInFlight, TypeOK
<1>3. /\ est \in Nat /\ SessionUsd \in Nat /\ DearestUsd \in Nat /\ MaxUsd \in Nat
      /\ SessionUsd <= est /\ est <= DearestUsd
      /\ held \in Nat /\ spent \in Nat /\ reviewed \in Nat
  BY CleanupAssumption DEF TypeOK, BudgetInv
<1> DEFINE over == DearestUsd - est
           most == DearestUsd - SessionUsd
<1>4. over \in Nat /\ most \in Nat /\ over <= most
  BY <1>3
<1>5. held * over <= n * most
  BY <1>2, <1>3, <1>4, TimesMonotonic
<1>6. /\ held * DearestUsd = held * est + held * over
      /\ (held + 1) * DearestUsd = held * DearestUsd + DearestUsd
  BY <1>3
<1>7. spent + held * est < MaxUsd
  BY DEF Reserve, CanReserve
<1>8. held * est \in Nat /\ held * over \in Nat /\ n * most \in Nat /\ held * DearestUsd \in Nat
  BY <1>2, <1>3, <1>4
<1>9. spent + (held + 1) * DearestUsd < MaxUsd + reviewed + DearestUsd + n * most
  <2> HIDE DEF n, over, most
  <2> QED
    BY <1>3, <1>5, <1>6, <1>7, <1>8
<1>10. held' = held + 1 /\ UNCHANGED <<spent, est, reviewed>>
  BY DEF Reserve
<1> QED
  BY <1>3, <1>9, <1>10 DEF BudgetInv

LEMMA BudgetInit == Init => BudgetInv
<1> SUFFICES ASSUME Init PROVE BudgetInv
  OBVIOUS
<1> DEFINE n == Cardinality(Tasks)
           most == DearestUsd - SessionUsd
<1>1. n \in Nat /\ most \in Nat /\ DearestUsd \in Nat /\ MaxUsd \in Nat
      /\ most < DearestUsd
  BY FS_CardinalityType, CleanupAssumption
<1>2. (n - 1) * most = n * most - most /\ n * most \in Nat
  BY <1>1
<1>3. 0 < MaxUsd + DearestUsd + (n - 1) * most
  <2> HIDE DEF n, most
  <2> QED
    BY <1>1, <1>2
<1> QED
  BY <1>3, CleanupAssumption DEF Init, BudgetInv

LEMMA BudgetStep == TypeOK /\ LaneInv /\ BudgetInv /\ [Next]_vars => BudgetInv'
<1> SUFFICES ASSUME TypeOK, LaneInv, BudgetInv, [Next]_vars PROVE BudgetInv'
  OBVIOUS
<1> DEFINE n == Cardinality(Tasks) - 1
           most == DearestUsd - SessionUsd
           slack == n * most
<1>0. /\ DearestUsd \in Nat /\ SessionUsd \in Nat /\ MaxUsd \in Nat
      /\ spent \in Nat /\ held \in Nat /\ est \in Nat /\ reviewed \in Nat
      /\ Cardinality(Tasks) \in Nat
  BY FS_CardinalityType, CleanupAssumption DEF TypeOK
<1>1. slack \in Int
  BY <1>0
<1>2. CASE UNCHANGED money
  BY <1>2 DEF money, BudgetInv
<1>3. ASSUME NEW t \in Tasks, StartTask(t)
      PROVE  BudgetInv'
  <2>1. pc[t] \notin Holding
    BY <1>3 DEF StartTask, First, LaneInv, Holding
  <2> QED
    BY <1>2, <1>3, <2>1, ReserveKeepsBudget DEF StartTask
<1>4. ASSUME NEW t \in Tasks, EndSession(t)
      PROVE  BudgetInv'
  <2>1. PICK usd \in SessionCosts : ChargeSession(usd)
    BY <1>4 DEF EndSession
  <2>2. usd \in Nat /\ usd <= DearestUsd
    BY CleanupAssumption
  <2>3. (held - 1) * DearestUsd = held * DearestUsd - DearestUsd
    BY <1>0
  <2>4. held * DearestUsd \in Nat
    BY <1>0
  <2>5. spent + held * DearestUsd < MaxUsd + reviewed + DearestUsd + slack
    BY DEF BudgetInv
  <2>6. spent + usd + (held - 1) * DearestUsd < MaxUsd + reviewed + DearestUsd + slack
    <3> HIDE DEF slack
    <3> QED
      BY <1>0, <1>1, <2>2, <2>3, <2>4, <2>5
  <2>7. SessionUsd <= est' /\ est' <= DearestUsd
    BY <1>0, <2>1, <2>2 DEF ChargeSession, BudgetInv
  <2> QED
    BY <2>1, <2>6, <2>7 DEF ChargeSession, BudgetInv
<1>5. ASSUME NEW t \in Tasks, Judge(t)
      PROVE  BudgetInv'
  <2>1. PICK usd \in ReviewCosts : ChargeReview(usd)
    BY <1>5 DEF Judge
  <2>2. usd \in Nat
    BY CleanupAssumption
  <2>3. held * DearestUsd \in Nat
    BY <1>0
  <2>4. spent + held * DearestUsd < MaxUsd + reviewed + DearestUsd + slack
    BY DEF BudgetInv
  <2>5. spent + usd + held * DearestUsd
          < MaxUsd + (reviewed + usd) + DearestUsd + slack
    <3> HIDE DEF slack
    <3> QED
      BY <1>0, <1>1, <2>2, <2>3, <2>4
  <2> QED
    BY <2>1, <2>5 DEF ChargeReview, BudgetInv
<1>6. ASSUME NEW t \in Tasks, Retry(t)
      PROVE  BudgetInv'
  <2>1. pc[t] \notin Holding
    BY <1>6 DEF Retry, Holding
  <2> QED
    BY <1>2, <1>6, <2>1, ReserveKeepsBudget DEF Retry
<1> QED
  BY <1>2, <1>3, <1>4, <1>5, <1>6
  DEF Next, LaneStep, vars, Plan, End, BeginSession, LaneRaises, AppendRow, Die,
      IntegrateLanes, EndWave

\* Whatever the sessions cost, a run ends less than one dearest session past
\* its cap (the reviewers' bills aside), plus what each of the other lanes can
\* cost over the first estimate it was held at: the guarantee the shared cap
\* (Run.reserve under Run.lock) really gives.
THEOREM OverrunIsBounded == Spec => []OverrunBound
<1>1. Init => TypeOK /\ LaneInv /\ BudgetInv
  BY TypeInit, LaneInit, BudgetInit
<1>2. TypeOK /\ LaneInv /\ BudgetInv /\ [Next]_vars
        => TypeOK' /\ LaneInv' /\ BudgetInv'
  BY TypeStep, LaneStepInv, BudgetStep
<1>3. TypeOK /\ BudgetInv => OverrunBound
  <2> SUFFICES ASSUME TypeOK, BudgetInv PROVE OverrunBound
    OBVIOUS
  <2> DEFINE slack == (Cardinality(Tasks) - 1) * (DearestUsd - SessionUsd)
  <2>1. /\ DearestUsd \in Nat /\ SessionUsd \in Nat /\ MaxUsd \in Nat
        /\ spent \in Nat /\ held \in Nat /\ reviewed \in Nat
        /\ Cardinality(Tasks) \in Nat
    BY FS_CardinalityType, CleanupAssumption DEF TypeOK
  <2>2. slack \in Int /\ held * DearestUsd \in Nat
    BY <2>1
  <2>3. spent + held * DearestUsd < MaxUsd + reviewed + DearestUsd + slack
    BY DEF BudgetInv
  <2>4. spent < MaxUsd + reviewed + DearestUsd + slack
    <3> HIDE DEF slack
    <3> QED
      BY <2>1, <2>2, <2>3
  <2> QED
    BY <2>4 DEF OverrunBound
<1> QED
  BY <1>1, <1>2, <1>3, PTL DEF Spec

-----------------------------------------------------------------------------
(* Kept helpers. *)

\* A row that is not kept adds nothing to the kept helpers; a kept one adds
\* what its task split out.
LEMMA KeptNewAppend ==
  ASSUME ledger \in Seq(Row), NEW r \in Row, ledger' = Append(ledger, r)
  PROVE  KeptNew' = KeptNew \cup (IF r.kept THEN r.new ELSE {})
<1> DEFINE n == Len(ledger)
<1>1. /\ n \in Nat
      /\ DOMAIN ledger = 1 .. n /\ DOMAIN ledger' = 1 .. n + 1
      /\ \A i \in 1 .. n : ledger'[i] = ledger[i]
      /\ ledger'[n + 1] = r
  BY AppendProperties, LenProperties
<1>2. ASSUME NEW x \in KeptNew'
      PROVE  x \in KeptNew \cup (IF r.kept THEN r.new ELSE {})
  <2>1. PICK i \in 1 .. n + 1 : ledger'[i].kept /\ x \in ledger'[i].new
    BY <1>1, <1>2 DEF KeptNew
  <2>2. CASE i = n + 1
    BY <1>1, <2>1, <2>2
  <2>3. CASE i \in 1 .. n
    <3>1. ledger[i].kept /\ x \in ledger[i].new
      BY <1>1, <2>1, <2>3
    <3> QED
      BY <1>1, <2>3, <3>1 DEF KeptNew
  <2> QED
    BY <1>1, <2>2, <2>3
<1>3. ASSUME NEW x \in KeptNew
      PROVE  x \in KeptNew'
  <2>1. PICK i \in 1 .. n : ledger[i].kept /\ x \in ledger[i].new
    BY <1>1, <1>3 DEF KeptNew
  <2>2. i \in 1 .. n + 1 /\ ledger'[i].kept /\ x \in ledger'[i].new
    BY <1>1, <2>1
  <2> QED
    BY <1>1, <2>2 DEF KeptNew
<1>4. ASSUME r.kept, NEW x \in r.new
      PROVE  x \in KeptNew'
  <2>1. n + 1 \in 1 .. n + 1 /\ ledger'[n + 1].kept /\ x \in ledger'[n + 1].new
    BY <1>1, <1>4
  <2> QED
    BY <1>1, <2>1 DEF KeptNew
<1> QED
  BY <1>2, <1>3, <1>4

LEMMA HelperInit == Init => HelperInv
<1> SUFFICES ASSUME Init PROVE HelperInv
  OBVIOUS
<1>1. \A i \in DOMAIN ledger : ledger[i].earlier
  BY CleanupAssumption DEF Init
<1> QED
  BY <1>1 DEF Init, HelperInv, KeptHelpersSurvive, Helpers

\* Outside the appends, the kept helpers are those of the same ledger.
LEMMA KeptNewSame ==
  ASSUME ledger' = ledger
  PROVE  KeptNew' = KeptNew
BY DEF KeptNew

\* An appended row takes no helper away, and its own are in the tree if it is kept.
LEMMA HelpersAppend ==
  ASSUME ledger \in Seq(Row), NEW r \in Row, ledger' = Append(ledger, r),
         KeptHelpersSurvive, UNCHANGED <<fns, baseFns>>, r.kept => r.new \subseteq fns
  PROVE  KeptHelpersSurvive'
<1>1. ASSUME NEW i \in DOMAIN ledger', ledger'[i].kept
      PROVE  Helpers(ledger[i])' \subseteq fns
  <2>1. \/ i \in DOMAIN ledger /\ ledger'[i] = ledger[i]
        \/ ledger'[i] = r
    BY <1>1, AppendProperties, LenProperties
  <2> QED
    BY <1>1, <2>1 DEF KeptHelpersSurvive, Helpers
<1> QED
  BY <1>1 DEF KeptHelpersSurvive

LEMMA HelperStep ==
  TypeOK /\ LaneInv /\ HelperInv /\ [Next]_vars => HelperInv'
<1> SUFFICES ASSUME TypeOK, LaneInv, HelperInv, [Next]_vars PROVE HelperInv'
  OBVIOUS
<1> USE DEF HelperInv, KeptHelpersSurvive
<1>0. CASE UNCHANGED vars
  BY <1>0, KeptNewSame DEF Helpers, vars, plan, lanes, money, tree, Reinlines
<1>1. CASE Plan
  <2>1. phase = "plan" /\ phase' = "wave" /\ UNCHANGED <<outcome, fns, baseFns, ledger>>
    BY <1>1 DEF Plan, lanes, tree
  <2> QED
    BY <2>1, KeptNewSame DEF Helpers
<1>2. CASE End
  BY <1>2, KeptNewSame DEF Helpers, End, tree
<1>3. ASSUME NEW t \in Tasks, StartTask(t)
      PROVE  HelperInv'
  <2>1. /\ phase = "wave" /\ phase' = "wave" /\ pc[t] = "idle"
        /\ UNCHANGED <<edit, outcome, fns, baseFns>>
    BY <1>3 DEF StartTask, First, LaneInv, lanes, tree
  <2>2. KeptNew' = KeptNew /\ KeptHelpersSurvive'
    <3>1. CASE ledger' = Append(ledger, TaskRow(t, "skip", FALSE))
      <4> DEFINE r == TaskRow(t, "skip", FALSE)
      <4>1. r \in Row
        BY TaskRowType
      <4>2. ~ r.kept
        BY DEF TaskRow
      <4>3. KeptNew' = KeptNew \cup (IF r.kept THEN r.new ELSE {})
        BY <3>1, <4>1, KeptNewAppend DEF TypeOK
      <4>4. KeptHelpersSurvive'
        BY <2>1, <3>1, <4>1, <4>2, HelpersAppend DEF TypeOK
      <4> QED
        BY <4>2, <4>3, <4>4
    <3>2. CASE ledger' = ledger
      BY <2>1, <3>2, KeptNewSame DEF Helpers
    <3> QED
      BY <1>3, <3>1, <3>2 DEF StartTask
  <2>3. \A u \in Tasks : u # t => pc'[u] = pc[u]
    BY <1>3 DEF StartTask, lanes, TypeOK
  <2>4. outcome[t] # "accept"
    BY <2>1
  <2> QED
    BY <2>1, <2>2, <2>3, <2>4 DEF Reinlines
<1>4. ASSUME NEW t \in Tasks, BeginSession(t)
      PROVE  HelperInv'
  <2>1. /\ phase = "wave" /\ pc[t] = "queued" /\ pc' = [pc EXCEPT ![t] = "session"]
        /\ UNCHANGED <<phase, edit, outcome, fns, baseFns, ledger>>
    BY <1>4 DEF BeginSession, LanesRun, First, At, tree
  <2> QED
    BY <2>1, KeptNewSame DEF Helpers, Reinlines, TypeOK
<1>5. ASSUME NEW t \in Tasks, EndSession(t)
      PROVE  HelperInv'
  <2>1. /\ phase = "wave" /\ pc[t] = "session" /\ pc' = [pc EXCEPT ![t] = "judge"]
        /\ UNCHANGED <<phase, outcome, fns, baseFns, ledger>>
        /\ \A u \in Tasks \ {t} : edit'[u] = edit[u]
    BY <1>5 DEF EndSession, LanesRun, tree, TypeOK
  <2>2. outcome[t] # "accept"
    BY <2>1
  <2> QED
    BY <2>1, <2>2, KeptNewSame DEF Helpers, Reinlines, TypeOK
<1>6. ASSUME NEW t \in Tasks, Judge(t)
      PROVE  HelperInv'
  <2>1. /\ phase = "wave" /\ UNCHANGED <<phase, edit, fns, baseFns, ledger>>
        /\ \A u \in Tasks \ {t} : pc'[u] = pc[u] /\ outcome'[u] = outcome[u]
    BY <1>6 DEF Judge, LanesRun, tree, TypeOK
  <2>2. outcome'[t] = "accept" => pc'[t] = "finished" /\ ~ Reinlines(t)
    BY <1>6 DEF Judge, TypeOK
  <2> QED
    BY <2>1, <2>2, KeptNewSame DEF Helpers, Reinlines
<1>7. ASSUME NEW t \in Tasks, Retry(t)
      PROVE  HelperInv'
  <2>1. /\ phase = "wave" /\ pc[t] = "retry"
        /\ UNCHANGED <<phase, edit, outcome, fns, baseFns, ledger>>
        /\ \A u \in Tasks \ {t} : pc'[u] = pc[u]
    BY <1>7 DEF Retry, LanesRun, tree, TypeOK
  <2> QED
    BY <2>1, KeptNewSame DEF Helpers, Reinlines
<1>8. ASSUME NEW t \in Tasks, LaneRaises(t)
      PROVE  HelperInv'
  <2>1. /\ phase = "wave" /\ pc[t] # "finished"
        /\ UNCHANGED <<phase, edit, outcome, fns, baseFns, ledger>>
        /\ \A u \in Tasks \ {t} : pc'[u] = pc[u]
    BY <1>8 DEF LaneRaises, LanesRun, tree, TypeOK
  <2> QED
    BY <2>1, KeptNewSame DEF Helpers, Reinlines
<1>9. ASSUME NEW t \in Tasks, AppendRow(t)
      PROVE  HelperInv'
  <2> DEFINE r == TaskRow(t, outcome[t], outcome[t] = "accept" /\ t \in merged)
  <2>1. /\ phase = "rows" /\ ledger' = Append(ledger, r)
        /\ UNCHANGED <<phase, edit, merged, fns, baseFns>>
    BY <1>9 DEF AppendRow, lanes, tree
  <2>2. r \in Row
    BY TaskRowType DEF TypeOK
  <2>3. r.kept => t \in merged /\ r.new \subseteq edit[t].new
    BY DEF TaskRow
  <2>4. KeptHelpersSurvive'
    BY <2>1, <2>2, <2>3, HelpersAppend DEF TypeOK
  <2> QED
    BY <2>1, <2>4
<1>10. CASE Die
  BY <1>10, KeptNewSame DEF Helpers, Die, tree
<1>11. CASE IntegrateLanes
  <2> DEFINE accepted == {t \in At({"finished"}) : outcome[t] = "accept"}
  <2>1. accepted \in SUBSET Tasks
    BY DEF At
  <2>2. PICK order \in SplicedOrders(accepted) : merged' \in Outcomes(order)
    BY <1>11 DEF IntegrateLanes
  <2>3. merged' \subseteq accepted
    BY <2>1, <2>2, MergedType
  <2>4. \A t \in merged' : edit[t].gone \cap KeptNew = {}
    BY <1>11, <2>3 DEF IntegrateLanes, LanesRun, At, Reinlines
  <2>5. /\ fns' = (fns \ Removed(merged')) \cup Added(merged')
        /\ UNCHANGED <<edit, baseFns>> /\ phase' = "rows"
    BY <1>11 DEF IntegrateLanes, lanes
  <2>6. /\ DOMAIN ledger' = DOMAIN ledger
        /\ \A i \in DOMAIN ledger :
             /\ ledger'[i].kept = ledger[i].kept /\ ledger'[i].new = ledger[i].new
             /\ ledger'[i].earlier = ledger[i].earlier
    <3>1. CASE ledger' = ledger
      BY <3>1
    <3>2. ASSUME NEW S \in SUBSET Tasks, ledger' = Changed(S)
          PROVE  <2>6!:
      BY <3>2, ChangedType DEF TypeOK
    <3> QED
      BY <1>11, <3>1, <3>2 DEF IntegrateLanes
  <2>8. ASSUME NEW i \in DOMAIN ledger', ledger'[i].kept
        PROVE  Helpers(ledger[i])' \subseteq fns'
    <3>1. Helpers(ledger[i])' = Helpers(ledger[i]) /\ Helpers(ledger[i]) \subseteq fns
      BY <2>5, <2>6, <2>8 DEF Helpers
    <3>2. Helpers(ledger[i]) \subseteq KeptNew
      BY <2>6, <2>8 DEF Helpers, KeptNew
    <3> QED
      BY <2>4, <2>5, <3>1, <3>2 DEF Removed
  <2>7. \A t \in merged' : edit[t].new \subseteq fns'
    BY <2>5 DEF Added
  <2> QED
    BY <2>5, <2>7, <2>8
<1>12. CASE EndWave
  <2>1. /\ phase' = "plan" /\ UNCHANGED <<ledger, fns, baseFns>>
        /\ \A t \in Tasks : outcome'[t] = "reject"
    BY <1>12 DEF EndWave, tree
  <2> QED
    BY <2>1, KeptNewSame DEF Helpers
<1> QED
  BY <1>0, <1>1, <1>2, <1>3, <1>4, <1>5, <1>6, <1>7, <1>8, <1>9, <1>10,
     <1>11, <1>12
  DEF Next, LaneStep

\* No later wave, concurrent lane or retry removes a function that a kept task
\* split out: the T2 re-inline check is enough, whatever the lanes do.
THEOREM HelpersSurvive == Spec => []KeptHelpersSurvive
<1>1. Init => TypeOK /\ LaneInv /\ HelperInv
  BY TypeInit, LaneInit, HelperInit
<1>2. TypeOK /\ LaneInv /\ HelperInv /\ [Next]_vars
        => TypeOK' /\ LaneInv' /\ HelperInv'
  BY TypeStep, LaneStepInv, HelperStep
<1>3. HelperInv => KeptHelpersSurvive
  BY DEF HelperInv
<1> QED
  BY <1>1, <1>2, <1>3, PTL DEF Spec

-----------------------------------------------------------------------------
(* The ledger tells the tree. *)

HasRow == {t \in Tasks : RunRows(t) # {}}
HasKeptRow == {t \in Tasks : \E i \in RunRows(t) : ledger[i].kept}

\* A task has its row once its wave gave it one.
RowsSoFar ==
  /\ \A t \in Tasks : \A i, j \in RunRows(t) : i = j
  /\ done \subseteq HasRow
  /\ phase \in {"plan", "ended"} => HasRow = done
  /\ phase \in {"wave", "rows"} => wave.tasks \cap done = {} /\ todo \subseteq wave.tasks
  /\ phase = "wave" =>
       /\ At(Steps \ {"idle"}) \subseteq wave.tasks \ todo
       /\ HasRow = done \cup ((wave.tasks \ todo) \cap At({"idle"}))
  /\ phase = "rows" =>
       /\ todo \subseteq At({"finished"}) /\ At({"finished"}) \subseteq wave.tasks
       /\ HasRow = done \cup (wave.tasks \ todo)

\* The tree is ahead of the ledger by the merged lanes whose rows are to come.
TreeAhead ==
  /\ phase \in {"plan", "wave", "ended"} => applied = HasKeptRow
  /\ phase = "rows" => /\ applied = HasKeptRow \cup (merged \cap todo)
                       /\ \A t \in merged : outcome[t] = "accept"

\* A lane under way repeats no kept row.
NoLaneRepeats ==
  /\ phase = "wave" => \A t \in At(Steps \ {"idle"}) : ~ Repeat(t)
  /\ phase = "rows" => \A t \in todo : ~ Repeat(t)

LedgerInv == RowsSoFar /\ TreeAhead /\ NoLaneRepeats /\ NoRepeatedKeep

\* A row of this run, appended.
LEMMA RowAppended ==
  ASSUME ledger \in Seq(Row), NEW r \in Row, ~ r.earlier,
         ledger' = Append(ledger, r), kind' = kind
  PROVE  /\ \A u : RunRows(u)' = RunRows(u) \cup (IF u = r.task THEN {Len(ledger) + 1} ELSE {})
         /\ HasRow' = HasRow \cup {r.task}
         /\ HasKeptRow' = HasKeptRow \cup (IF r.kept THEN {r.task} ELSE {})
         /\ \A u : (u # r.task \/ ~ r.kept) => (Repeat(u)' => Repeat(u))
         /\ (r.kept => \A i \in DOMAIN ledger :
               (/\ ledger[i].kept /\ ledger[i].current
                /\ ledger[i].task = r.task) => ledger[i].kind # r.kind)
              /\ NoRepeatedKeep => NoRepeatedKeep'
<1> DEFINE n == Len(ledger)
<1>1. /\ n \in Nat /\ DOMAIN ledger = 1 .. n /\ DOMAIN ledger' = 1 .. n + 1
      /\ \A i \in 1 .. n : ledger'[i] = ledger[i]
      /\ ledger'[n + 1] = r
  BY LenProperties, AppendProperties
<1>2. r.task \in Tasks
  BY DEF Row
<1>3. \A i \in DOMAIN ledger' : i = n + 1 \/ i \in DOMAIN ledger
  BY <1>1
<1>4. n + 1 \in DOMAIN ledger' /\ n + 1 \notin DOMAIN ledger /\ DOMAIN ledger \subseteq DOMAIN ledger'
  BY <1>1
<1>5. \A i \in DOMAIN ledger : ledger'[i] = ledger[i]
  BY <1>1
<1>6. ledger'[n + 1] = r
  BY <1>1
<1> HIDE DEF n
<1>7. ASSUME NEW u
      PROVE  RunRows(u)' = RunRows(u) \cup (IF u = r.task THEN {n + 1} ELSE {})
  BY <1>3, <1>4, <1>5, <1>6 DEF RunRows
<1>8. HasRow' = HasRow \cup {r.task}
  BY <1>2, <1>7 DEF HasRow
<1>9. \A u : \A i \in RunRows(u) : ledger'[i] = ledger[i]
  BY <1>5 DEF RunRows
<1>10. HasKeptRow' = HasKeptRow \cup (IF r.kept THEN {r.task} ELSE {})
  BY <1>2, <1>6, <1>7, <1>9 DEF HasKeptRow
<1>11. ASSUME NEW u, u # r.task \/ ~ r.kept, Repeat(u)'
       PROVE  Repeat(u)
  BY <1>3, <1>5, <1>6, <1>11 DEF Repeat
<1>12. ASSUME NoRepeatedKeep,
              r.kept => \A i \in DOMAIN ledger :
                (/\ ledger[i].kept /\ ledger[i].current
                 /\ ledger[i].task = r.task) => ledger[i].kind # r.kind
       PROVE  NoRepeatedKeep'
  <2> SUFFICES ASSUME NEW i \in DOMAIN ledger', NEW j \in DOMAIN ledger', i < j,
                      ledger'[i].task = ledger'[j].task, ledger'[i].kind = ledger'[j].kind,
                      ledger'[i].kept, ledger'[j].kept
               PROVE  ~ ledger'[i].current
    BY DEF NoRepeatedKeep, NoRepeat
  <2>1. i \in DOMAIN ledger
    BY <1>1 DEF n
  <2>2. CASE j \in DOMAIN ledger
    BY <1>5, <1>12, <2>1, <2>2 DEF NoRepeatedKeep, NoRepeat
  <2>3. CASE j = n + 1
    BY <1>5, <1>6, <1>12, <2>1, <2>3
  <2> QED
    BY <1>3, <2>2, <2>3
<1> QED
  BY <1>7, <1>8, <1>10, <1>11, <1>12 DEF n

\* The same rows, or rows whose symbols changed.
LEMMA RowsKept ==
  ASSUME DOMAIN ledger' = DOMAIN ledger,
         \A i \in DOMAIN ledger :
           /\ ledger'[i].task = ledger[i].task /\ ledger'[i].kind = ledger[i].kind
           /\ ledger'[i].kept = ledger[i].kept /\ ledger'[i].earlier = ledger[i].earlier
           /\ ledger'[i].current => ledger[i].current
  PROVE  /\ \A u : RunRows(u)' = RunRows(u)
         /\ HasRow' = HasRow /\ HasKeptRow' = HasKeptRow
         /\ kind' = kind => \A u : Repeat(u)' => Repeat(u)
         /\ NoRepeatedKeep => NoRepeatedKeep'
<1>1. ASSUME NEW u PROVE RunRows(u)' = RunRows(u)
  BY DEF RunRows
<1>2. HasRow' = HasRow
  BY <1>1 DEF HasRow
<1>3. HasKeptRow' = HasKeptRow
  <2>1. ASSUME NEW u, NEW i \in RunRows(u) PROVE ledger'[i].kept = ledger[i].kept
    BY DEF RunRows
  <2> QED
    BY <1>1, <2>1 DEF HasKeptRow
<1>4. ASSUME kind' = kind, NEW u, Repeat(u)' PROVE Repeat(u)
  BY <1>4 DEF Repeat
<1>5. ASSUME NoRepeatedKeep PROVE NoRepeatedKeep'
  BY <1>5 DEF NoRepeatedKeep, NoRepeat
<1> QED
  BY <1>1, <1>2, <1>3, <1>4, <1>5

\* Where a lane goes next, the ledger does not move with it.
LEMMA LaneMoves ==
  ASSUME TypeOK, NEW t \in Tasks, LaneStep(t)
  PROVE  /\ phase = "wave"
         /\ UNCHANGED <<phase, wave, kind, done, todo, merged, ledger, applied>>
         /\ At({"idle"})' = At({"idle"})
         /\ At(Steps \ {"idle"})' = At(Steps \ {"idle"})
<1>1. \A u \in Tasks \ {t} : pc'[u] = pc[u]
  BY DEF LaneStep, BeginSession, EndSession, Judge, Retry, LaneRaises, TypeOK
<1>2. pc[t] \in Steps \ {"idle"} /\ pc'[t] \in Steps \ {"idle"}
  BY DEF LaneStep, BeginSession, EndSession, Judge, Retry, LaneRaises, TypeOK,
         First, At, Steps
<1>3. phase = "wave" /\ UNCHANGED <<phase, todo, merged, ledger>>
  BY DEF LaneStep, BeginSession, EndSession, Judge, Retry, LaneRaises, LanesRun
<1>4. UNCHANGED <<wave, kind, done, applied>>
  BY DEF LaneStep, BeginSession, EndSession, Judge, Retry, LaneRaises, plan, tree
<1> QED
  BY <1>1, <1>2, <1>3, <1>4 DEF At

LEMMA ChangedRows ==
  ASSUME ledger \in Seq(Row), NEW S, ledger' = Changed(S)
  PROVE  /\ DOMAIN ledger' = DOMAIN ledger
         /\ \A i \in DOMAIN ledger :
              /\ ledger'[i].task = ledger[i].task /\ ledger'[i].kind = ledger[i].kind
              /\ ledger'[i].kept = ledger[i].kept /\ ledger'[i].earlier = ledger[i].earlier
              /\ ledger'[i].current => ledger[i].current
<1>1. DOMAIN ledger' = DOMAIN ledger
  BY DEF Changed
<1>2. ASSUME NEW i \in DOMAIN ledger
      PROVE  /\ ledger'[i].task = ledger[i].task /\ ledger'[i].kind = ledger[i].kind
             /\ ledger'[i].kept = ledger[i].kept /\ ledger'[i].earlier = ledger[i].earlier
             /\ ledger'[i].current => ledger[i].current
  <2>1. ledger[i] \in Row
    BY LenProperties, ElementOfSeq
  <2> QED
    BY <2>1 DEF Changed, Row
<1> QED
  BY <1>1, <1>2

LEMMA LedgerInit == Init => LedgerInv
<1> SUFFICES ASSUME Init PROVE LedgerInv
  OBVIOUS
<1>1. \A u \in Tasks : RunRows(u) = {}
  BY CleanupAssumption DEF Init, RunRows
<1>2. HasRow = {} /\ HasKeptRow = {}
  BY <1>1 DEF HasRow, HasKeptRow
<1>3. NoRepeatedKeep
  BY CleanupAssumption DEF Init, NoRepeatedKeep
<1> QED
  BY <1>1, <1>2, <1>3 DEF Init, LedgerInv, RowsSoFar, TreeAhead, NoLaneRepeats

LEMMA LedgerStep ==
  TypeOK /\ LaneInv /\ LedgerInv /\ [Next]_vars => LedgerInv'
<1> SUFFICES ASSUME TypeOK, LaneInv, LedgerInv, [Next]_vars PROVE LedgerInv'
  OBVIOUS
<1>t. /\ ledger \in Seq(Row) /\ wave.tasks \in SUBSET Tasks /\ todo \in SUBSET Tasks
      /\ done \in SUBSET Tasks /\ pc \in [Tasks -> Steps] /\ merged \in SUBSET Tasks
      /\ kind \in [Tasks -> Kinds \cup {NoEdit}]
  BY DEF TypeOK
<1>r. ledger' = ledger =>
        /\ \A u : RunRows(u)' = RunRows(u)
        /\ HasRow' = HasRow /\ HasKeptRow' = HasKeptRow
        /\ kind' = kind => \A u : Repeat(u)' => Repeat(u)
        /\ NoRepeatedKeep => NoRepeatedKeep'
  BY RowsKept
<1> USE DEF LedgerInv
<1>0. CASE UNCHANGED vars
  <2>1. UNCHANGED <<phase, wave, kind, done, todo, merged, ledger, applied, pc, outcome>>
    BY <1>0 DEF vars, plan, lanes, tree
  <2>2. RowsSoFar'
    BY <1>r, <2>1 DEF RowsSoFar, At
  <2>3. TreeAhead'
    BY <1>r, <2>1 DEF TreeAhead
  <2>4. NoLaneRepeats'
    BY <1>r, <2>1 DEF NoLaneRepeats, At
  <2> QED
    BY <1>r, <2>1, <2>2, <2>3, <2>4
<1>1. CASE Plan
  <2>1. /\ phase = "plan" /\ phase' = "wave" /\ todo' = wave'.tasks
        /\ UNCHANGED <<done, pc, ledger, applied>>
    BY <1>1 DEF Plan, lanes, tree
  <2>2. wave'.tasks \cap done = {} /\ wave'.tasks \subseteq Tasks
    BY <1>1, <1>t DEF Plan, SharedWave, NextWave, Pending, TypeOK
  <2>3. At({"idle"})' = Tasks /\ At(Steps \ {"idle"})' = {}
    BY <2>1 DEF LaneInv, At
  <2>4. RowsSoFar'
    BY <1>r, <2>1, <2>2, <2>3 DEF RowsSoFar
  <2>5. TreeAhead'
    BY <1>r, <2>1 DEF TreeAhead
  <2>6. NoLaneRepeats'
    BY <2>1, <2>3 DEF NoLaneRepeats
  <2> QED
    BY <1>r, <2>1, <2>4, <2>5, <2>6
<1>2. CASE End
  <2>1. /\ phase = "plan" /\ phase' = "ended"
        /\ UNCHANGED <<done, ledger, applied>>
    BY <1>2 DEF End, plan, tree
  <2>2. RowsSoFar'
    BY <1>r, <2>1 DEF RowsSoFar
  <2>3. TreeAhead'
    BY <1>r, <2>1 DEF TreeAhead
  <2> QED
    BY <1>r, <2>1, <2>2, <2>3 DEF NoLaneRepeats
<1>3. ASSUME NEW t \in Tasks, StartTask(t)
      PROVE  LedgerInv'
  <2>1. /\ phase = "wave" /\ phase' = "wave" /\ t \in todo /\ todo' = todo \ {t}
        /\ UNCHANGED <<wave, kind, done, merged, applied>>
    BY <1>3 DEF StartTask, First, plan, tree
  <2>2. pc[t] = "idle"
    BY <2>1 DEF LaneInv
  <2>3. t \in wave.tasks /\ t \notin done
    BY <2>1 DEF RowsSoFar
  <2>4. t \notin HasRow
    BY <2>1, <2>3 DEF RowsSoFar
  <2>5. CASE ledger' = Append(ledger, TaskRow(t, "skip", FALSE)) /\ UNCHANGED lanes
    <3> DEFINE r == TaskRow(t, "skip", FALSE)
    <3>1. r \in Row
      BY TaskRowType
    <3>2. ~ r.earlier /\ r.task = t /\ ~ r.kept
      BY DEF TaskRow
    <3> HIDE DEF r
    <3>3. /\ \A u : RunRows(u)' = RunRows(u) \cup (IF u = t THEN {Len(ledger) + 1} ELSE {})
          /\ HasRow' = HasRow \cup {t} /\ HasKeptRow' = HasKeptRow
          /\ \A u : Repeat(u)' => Repeat(u)
          /\ NoRepeatedKeep'
      <4>1. ledger' = Append(ledger, r)
        BY <2>5 DEF r
      <4> QED
        BY <1>t, <2>1, <3>1, <3>2, <4>1, RowAppended
    <3>4. /\ At({"idle"})' = At({"idle"})
          /\ At(Steps \ {"idle"})' = At(Steps \ {"idle"})
      BY <2>5 DEF lanes, At
    <3>5. t \in At({"idle"})
      BY <2>2 DEF At
    <3>6. RunRows(t) = {}
      BY <2>4 DEF HasRow
    <3>7. \A u \in Tasks : \A i, j \in RunRows(u)' : i = j
      BY <3>3, <3>6 DEF RowsSoFar
    <3>8. HasRow' = done' \cup ((wave'.tasks \ todo') \cap At({"idle"})')
      BY <2>1, <2>3, <3>3, <3>4, <3>5 DEF RowsSoFar
    <3>9. At(Steps \ {"idle"})' \subseteq wave'.tasks \ todo'
      BY <2>1, <3>4 DEF RowsSoFar
    <3>10. RowsSoFar'
      BY <2>1, <3>3, <3>7, <3>8, <3>9 DEF RowsSoFar
    <3>11. TreeAhead' /\ NoLaneRepeats'
      BY <2>1, <3>3, <3>4 DEF TreeAhead, NoLaneRepeats
    <3> QED
      BY <3>3, <3>10, <3>11
  <2>6. CASE ~ SkipReason(t) /\ ledger' = ledger /\ pc' = [pc EXCEPT ![t] = "queued"]
    <3>1. ~ Repeat(t)
      BY <2>6 DEF SkipReason
    <3>2. /\ At({"idle"})' = At({"idle"}) \ {t}
          /\ At(Steps \ {"idle"})' = At(Steps \ {"idle"}) \cup {t}
      BY <1>t, <2>2, <2>6 DEF At, Steps
    <3>3. HasRow' = done' \cup ((wave'.tasks \ todo') \cap At({"idle"})')
      BY <1>r, <2>1, <2>3, <2>4, <2>6, <3>2 DEF RowsSoFar
    <3>4. At(Steps \ {"idle"})' \subseteq wave'.tasks \ todo'
      BY <2>1, <2>3, <3>2 DEF RowsSoFar
    <3>5. RowsSoFar'
      BY <1>r, <2>1, <2>6, <3>3, <3>4 DEF RowsSoFar
    <3>6. TreeAhead'
      BY <1>r, <2>1, <2>6 DEF TreeAhead
    <3>7. NoLaneRepeats'
      BY <1>r, <2>1, <2>6, <3>1, <3>2 DEF NoLaneRepeats
    <3> QED
      BY <1>r, <2>6, <3>5, <3>6, <3>7
  <2> QED
    BY <1>3, <2>5, <2>6 DEF StartTask
<1>4. ASSUME NEW t \in Tasks, LaneStep(t)
      PROVE  LedgerInv'
  <2>1. /\ phase = "wave" /\ phase' = "wave"
        /\ UNCHANGED <<wave, kind, done, todo, merged, ledger, applied>>
        /\ At({"idle"})' = At({"idle"})
        /\ At(Steps \ {"idle"})' = At(Steps \ {"idle"})
    BY <1>4, LaneMoves
  <2>2. RowsSoFar'
    BY <1>r, <2>1 DEF RowsSoFar
  <2>3. TreeAhead' /\ NoLaneRepeats'
    BY <1>r, <2>1 DEF TreeAhead, NoLaneRepeats
  <2> QED
    BY <1>r, <2>1, <2>2, <2>3
<1>5. ASSUME NEW t \in Tasks, AppendRow(t)
      PROVE  LedgerInv'
  <2> DEFINE keep == outcome[t] = "accept" /\ t \in merged
             r == TaskRow(t, outcome[t], keep)
  <2>1. /\ phase = "rows" /\ phase' = "rows" /\ t \in todo /\ todo' = todo \ {t}
        /\ UNCHANGED <<wave, kind, done, merged, applied, pc, outcome>>
        /\ ledger' = Append(ledger, r)
    BY <1>5 DEF AppendRow, First, plan, lanes, tree
  <2>2. r \in Row
    BY TaskRowType DEF TypeOK
  <2>3. ~ r.earlier /\ r.task = t /\ r.kind = kind[t]
    BY DEF TaskRow
  <2>4. r.kept <=> t \in merged
    <3>1. r.kept <=> keep
      BY DEF TaskRow
    <3>2. t \in merged => outcome[t] = "accept"
      BY <2>1 DEF TreeAhead
    <3> QED
      BY <3>1, <3>2
  <2> HIDE DEF r
  <2>5. t \in wave.tasks /\ t \notin done /\ t \notin HasRow /\ ~ Repeat(t)
    BY <2>1 DEF RowsSoFar, NoLaneRepeats
  <2>6. \A i \in DOMAIN ledger :
          (ledger[i].kept /\ ledger[i].current /\ ledger[i].task = r.task)
             => ledger[i].kind # r.kind
    BY <2>3, <2>5 DEF Repeat
  <2>7. /\ \A u : RunRows(u)' = RunRows(u) \cup (IF u = t THEN {Len(ledger) + 1} ELSE {})
        /\ HasRow' = HasRow \cup {t}
        /\ HasKeptRow' = HasKeptRow \cup (IF t \in merged THEN {t} ELSE {})
        /\ \A u : u # t => (Repeat(u)' => Repeat(u))
        /\ NoRepeatedKeep'
    BY <1>t, <2>1, <2>2, <2>3, <2>4, <2>6, RowAppended
  <2>8. RunRows(t) = {}
    BY <2>5 DEF HasRow
  <2>9. \A u \in Tasks : \A i, j \in RunRows(u)' : i = j
    BY <2>7, <2>8 DEF RowsSoFar
  <2>10. HasRow' = done' \cup (wave'.tasks \ todo')
    BY <2>1, <2>5, <2>7 DEF RowsSoFar
  <2>11. RowsSoFar'
    BY <2>1, <2>7, <2>9, <2>10 DEF RowsSoFar, At
  <2>12. TreeAhead'
    BY <2>1, <2>7 DEF TreeAhead
  <2>13. NoLaneRepeats'
    BY <2>1, <2>7 DEF NoLaneRepeats
  <2> QED
    BY <2>7, <2>11, <2>12, <2>13
<1>6. CASE Die
  <2>1. phase' = "dead" /\ UNCHANGED <<done, ledger>>
    BY <1>6 DEF Die, plan
  <2> QED
    BY <1>r, <2>1 DEF RowsSoFar, TreeAhead, NoLaneRepeats
<1>7. CASE IntegrateLanes
  <2> DEFINE accepted == {t \in At({"finished"}) : outcome[t] = "accept"}
  <2>1. /\ phase = "wave" /\ phase' = "rows" /\ todo = {} /\ todo' = At({"finished"})
        /\ At(Steps \ {"idle", "finished"}) = {}
        /\ applied' = applied \cup merged'
        /\ UNCHANGED <<wave, kind, done, pc, outcome>>
    BY <1>7 DEF IntegrateLanes, LanesRun, plan, lanes
  <2>2. accepted \in SUBSET Tasks
    BY DEF At
  <2>3. PICK order \in SplicedOrders(accepted) : merged' \in Outcomes(order)
    BY <1>7 DEF IntegrateLanes
  <2>4. merged' \subseteq accepted
    BY <2>2, <2>3, MergedType
  <2>5. /\ \A u : RunRows(u)' = RunRows(u)
        /\ HasRow' = HasRow /\ HasKeptRow' = HasKeptRow
        /\ \A u : Repeat(u)' => Repeat(u)
        /\ NoRepeatedKeep'
    <3>1. CASE ledger' = ledger
      BY <1>r, <2>1, <3>1
    <3>2. ASSUME NEW S \in SUBSET Tasks, ledger' = Changed(S)
          PROVE  /\ \A u : RunRows(u)' = RunRows(u)
                 /\ HasRow' = HasRow /\ HasKeptRow' = HasKeptRow
                 /\ \A u : Repeat(u)' => Repeat(u)
                 /\ NoRepeatedKeep'
      <4>1. /\ DOMAIN ledger' = DOMAIN ledger
            /\ \A i \in DOMAIN ledger :
                 /\ ledger'[i].task = ledger[i].task /\ ledger'[i].kind = ledger[i].kind
                 /\ ledger'[i].kept = ledger[i].kept /\ ledger'[i].earlier = ledger[i].earlier
                 /\ ledger'[i].current => ledger[i].current
        BY <1>t, <3>2, ChangedRows
      <4> QED
        BY <2>1, <4>1, RowsKept
    <3> QED
      BY <1>7, <3>1, <3>2 DEF IntegrateLanes
  <2>6. At({"finished"})' = At({"finished"})
    BY <2>1 DEF At
  <2>7. At({"finished"}) \subseteq At(Steps \ {"idle"})
    BY DEF At, Steps
  <2>8. At({"finished"}) \subseteq wave.tasks
    BY <2>1, <2>7 DEF RowsSoFar
  <2>9. wave.tasks \ At({"finished"}) = wave.tasks \cap At({"idle"})
    BY <1>t, <2>1 DEF At
  <2>10. HasRow' = done' \cup (wave'.tasks \ todo')
    BY <2>1, <2>5, <2>9 DEF RowsSoFar
  <2>11. RowsSoFar'
    BY <2>1, <2>5, <2>6, <2>8, <2>10 DEF RowsSoFar
  <2>12. TreeAhead'
    BY <2>1, <2>4, <2>5 DEF TreeAhead
  <2>13. NoLaneRepeats'
    BY <2>1, <2>5, <2>7 DEF NoLaneRepeats
  <2> QED
    BY <2>5, <2>11, <2>12, <2>13
<1>8. CASE EndWave
  <2>1. /\ phase = "rows" /\ phase' = "plan" /\ todo = {} /\ done' = done \cup wave.tasks
        /\ UNCHANGED <<ledger, applied>>
    BY <1>8 DEF EndWave, tree
  <2>2. RowsSoFar'
    BY <1>r, <2>1 DEF RowsSoFar
  <2>3. TreeAhead'
    BY <1>r, <2>1 DEF TreeAhead
  <2> QED
    BY <1>r, <2>1, <2>2, <2>3 DEF NoLaneRepeats
<1> QED
  BY <1>0, <1>1, <1>2, <1>3, <1>4, <1>5, <1>6, <1>7, <1>8 DEF Next

\* The ledger tells what happened to every task, once: a task of a finished wave
\* has one row of this run and none ever has two, the tree between waves is that
\* of the rows marked kept, and no edit is kept twice while its symbol stands.
THEOREM LedgerTellsTheTree == Spec => []LedgerIsTheTree
<1>1. Init => TypeOK /\ LaneInv /\ LedgerInv
  BY TypeInit, LaneInit, LedgerInit
<1>2. TypeOK /\ LaneInv /\ LedgerInv /\ [Next]_vars
        => TypeOK' /\ LaneInv' /\ LedgerInv'
  BY TypeStep, LaneStepInv, LedgerStep
<1>3. TypeOK /\ LedgerInv => LedgerIsTheTree
  <2> SUFFICES ASSUME TypeOK, LedgerInv PROVE LedgerIsTheTree
    OBVIOUS
  <2>1. ASSUME NEW t \in Tasks
        PROVE  /\ RunRows(t) = {} \/ \E i : RunRows(t) = {i}
               /\ t \in done => RunRows(t) # {}
    BY DEF LedgerInv, RowsSoFar, HasRow
  <2>2. Cardinality({}) = 0 /\ \A i : Cardinality({i}) = 1
    BY FS_EmptySet, FS_Singleton
  <2>3. \A t \in Tasks : Cardinality(RunRows(t)) \in {0, 1}
    BY <2>1, <2>2
  <2>5. done \subseteq Tasks
    BY DEF TypeOK
  <2>6. \A t \in done : Cardinality(RunRows(t)) = 1
    BY <2>1, <2>2, <2>5
  <2>7. OneRowPerTask
    BY <2>3, <2>6 DEF OneRowPerTask
  <2>4. TreeIsKeptRows
    BY DEF LedgerInv, TreeAhead, HasKeptRow, TreeIsKeptRows
  <2> QED
    BY <2>4, <2>7 DEF LedgerInv, LedgerIsTheTree
<1> QED
  BY <1>1, <1>2, <1>3, PTL DEF Spec
=============================================================================
