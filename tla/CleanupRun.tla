------------------------------ MODULE CleanupRun ------------------------------
(***************************************************************************)
(* The cleanup run of the benchmark (bench/scbench/runner/run.py with      *)
(* schedule.py and ledger/rules.py): the tree is planned, a wave of tasks  *)
(* runs as concurrent lanes (one session each, judged by the final gate,   *)
(* one retry after a reject), the accepted lanes are spliced and pass the  *)
(* integration gate, every task gets a ledger row, and the tree is planned *)
(* again, until no task is left.  A dollar cap, shared by the lanes, holds *)
(* room for the sessions in flight.                                        *)
(*                                                                         *)
(* External: the planner's ranking, what a session edits and costs, and    *)
(* what the gates answer.  Money is in whole units.  The tree is what the  *)
(* ledger's rules read of it: the tasks whose edit is spliced in, the      *)
(* functions tasks split out, and the heads that are still hot.  A task    *)
(* splits out at most one function, named by the task.                     *)
(***************************************************************************)
EXTENDS RevertSearch, FiniteSets

CONSTANTS
  Tasks,          \* task ids; the plan lists them in their order
  Only,           \* the ids --only allows (all of Tasks without it)
  Shared,         \* the tasks the plan marks as shared work
  Splitters,      \* the tasks whose session may split out a function
  Kinds,          \* task types (the recipes of the chosen edits)
  PlanWaves,      \* the ranks the planner can give
  LANES,          \* most concurrent lanes in a cluster wave
  MaxUsd,         \* --max-usd
  SessionUsd,     \* the first estimate of a session's cost
  SessionCosts,   \* what one session can cost
  DearestUsd,     \* a bound on the estimate and on every session's cost
  ReviewCosts,    \* what the T3 reviewer can cost in one judgement
  PriorLedgers    \* the ledgers earlier runs over the same directory left

NoEdit == "no feasible edit"       \* the planner chose nothing for the task

Row == [task : Tasks, kind : Kinds \cup {NoEdit}, earlier : BOOLEAN,
        outcome : {"accept", "reject", "review-unavailable", "skip"},
        kept : BOOLEAN, new : SUBSET Tasks, current : BOOLEAN]

\* No two kept rows for the same task and type, but for a symbol that changed in
\* between.
NoRepeat(rows) ==
  \A i, j \in DOMAIN rows :
    (/\ i < j /\ rows[i].task = rows[j].task /\ rows[i].kind = rows[j].kind
     /\ rows[i].kept /\ rows[j].kept) => ~ rows[i].current

\* What an earlier run left, this run could have left: see LedgerIsTheTree.
ASSUME CleanupAssumption ==
  /\ Tasks \subseteq Nat /\ IsFiniteSet(Tasks)
  /\ Only \subseteq Tasks /\ Shared \subseteq Tasks /\ Splitters \subseteq Tasks
  /\ PlanWaves \subseteq Nat /\ PlanWaves # {}
  /\ LANES \in Nat \ {0}
  /\ NoEdit \notin Kinds
  /\ MaxUsd \in Nat /\ SessionUsd \in Nat \ {0}
  /\ SessionCosts \subseteq Nat /\ ReviewCosts \subseteq Nat
  /\ DearestUsd \in Nat /\ SessionUsd <= DearestUsd
  /\ \A c \in SessionCosts : c <= DearestUsd
  /\ PriorLedgers \subseteq Seq(Row)
  /\ \A l \in PriorLedgers : NoRepeat(l) /\ \A i \in DOMAIN l : l[i].earlier

\* A directory no run has written to has an empty ledger.
NewDirectory == {<<>>}

VARIABLES
  phase,      \* "plan", "wave", "rows", "ended", "dead"
  waves,      \* waves run so far
  wave,       \* the current wave: its tasks and how many lanes run at once
  kind,       \* the type the current plan gives each task
  done,       \* tasks of earlier waves
  todo,       \* wave tasks _start has not looked at; then lanes without a row
  pc,         \* where each task's lane is
  attempt,    \* sessions the lane has started
  edit,       \* the lane's change: functions split out and removed
  outcome,    \* the verdict on the lane's last attempt
  merged,     \* the lanes the integration gate kept
  spent, held, est,      \* Run.spent, Run.held, Run.session_usd
  reviewed,   \* history: the reviewers' part of spent
  ledger,     \* ledger.jsonl
  applied,    \* tasks whose edit the current tree holds
  fns,        \* split-out functions in the current tree
  hot,        \* tasks whose head the current tree still has over hot_cc
  baseFns     \* history: split-out functions the run's starting tree had

money   == <<spent, held, est, reviewed>>
tree    == <<applied, fns, hot, baseFns>>
lanes   == <<pc, attempt, edit, outcome>>
plan    == <<waves, wave, kind, done>>
vars    == <<phase, plan, todo, lanes, merged, money, ledger, tree>>

\* A lane: queued in the pool, in a session, waiting for its verdict, about
\* to ask for a retry, finished; or its thread raised, in the session (its
\* hold is then never released) or in the gate.
Steps == {"idle", "queued", "session", "judge", "retry", "finished", "lost", "failed"}
Holding == {"queued", "session", "lost"}
Running == {"session", "judge", "retry"}
At(S) == {t \in Tasks : pc[t] \in S}

First(t, S) == t \in S /\ \A u \in S : t <= u

NoChange == [new |-> {}, gone |-> {}]
Added(S) == UNION {edit[t].new : t \in S}
Removed(S) == UNION {edit[t].gone : t \in S}
KeptNew == UNION {ledger[i].new : i \in {j \in DOMAIN ledger : ledger[j].kept}}
\* Mutant: rows of earlier runs over the directory are forgotten.
Repeat_ThisRun(t) == \E i \in DOMAIN ledger : /\ ledger[i].kept /\ ~ ledger[i].earlier
                                              /\ ledger[i].current
                                              /\ ledger[i].task = t /\ ledger[i].kind = kind[t]

Repeat(t) == \E i \in DOMAIN ledger : /\ ledger[i].kept /\ ledger[i].current
                                      /\ ledger[i].task = t /\ ledger[i].kind = kind[t]

\* Mutant: only this run's kept rows are looked at.
Reinlines_ThisRun(t) ==
  edit[t].gone \cap UNION {ledger[i].new : i \in {j \in DOMAIN ledger :
                                        ledger[j].kept /\ ~ ledger[j].earlier}} # {}

Reinlines(t) == edit[t].gone \cap KeptNew # {}

\* The run starts on a copy of the frozen tree.  An earlier run's kept edits are
\* in it only if that run put them there (--apply, which is off by default): its
\* kept rows may name functions this tree never had.
Init ==
  /\ phase = "plan" /\ waves = 0 /\ wave = [tasks |-> {}, lanes |-> 1]
  /\ kind = [t \in Tasks |-> NoEdit] /\ done = {} /\ todo = {} /\ merged = {}
  /\ pc = [t \in Tasks |-> "idle"] /\ attempt = [t \in Tasks |-> 0]
  /\ edit = [t \in Tasks |-> NoChange] /\ outcome = [t \in Tasks |-> "reject"]
  /\ spent = 0 /\ held = 0 /\ est = SessionUsd /\ reviewed = 0
  /\ ledger \in PriorLedgers
  /\ applied = {} /\ hot \in SUBSET Tasks
  /\ baseFns \in SUBSET KeptNew /\ fns = baseFns

-----------------------------------------------------------------------------
(* The wave scheduler. *)

Pending == (hot \cap Only) \ done

SharedWave == [tasks |-> Pending \cap Shared, lanes |-> 1]

NextWave(left, rank) ==
  LET tasks == {t \in left : \A u \in left : rank[t] <= rank[u]}
  IN  [tasks |-> tasks,
       lanes |-> IF Cardinality(tasks) < LANES THEN Cardinality(tasks) ELSE LANES]

Plan ==
  /\ phase = "plan"
  /\ waves = 0 \/ Pending \ Shared # {}
  /\ \E rank \in [Pending -> PlanWaves], k \in [Pending -> Kinds \cup {NoEdit}] :
       /\ wave' = IF waves = 0 THEN SharedWave ELSE NextWave(Pending \ Shared, rank)
       /\ kind' = [t \in Tasks |-> IF t \in Pending THEN k[t] ELSE NoEdit]
  /\ todo' = wave'.tasks
  /\ waves' = waves + 1 /\ phase' = "wave"
  /\ UNCHANGED <<done, lanes, merged, money, ledger, tree>>

\* run.json is written and, with --apply, the final tree copied back.
End ==
  /\ phase = "plan" /\ waves > 0 /\ Pending \ Shared = {}
  /\ phase' = "ended"
  /\ UNCHANGED <<plan, todo, lanes, merged, money, ledger, tree>>

-----------------------------------------------------------------------------
(* The dollar cap: both run under Run.lock. *)

\* Mutant: the sessions in flight are not counted.
CanReserve_NoHeld == spent < MaxUsd

CanReserve == spent + held * est < MaxUsd

Reserve ==
  /\ CanReserve
  /\ held' = held + 1
  /\ UNCHANGED <<spent, est, reviewed>>

ChargeSession(usd) ==
  /\ spent' = spent + usd
  /\ held' = held - 1
  /\ est' = IF usd > est THEN usd ELSE est
  /\ UNCHANGED reviewed

ChargeReview(usd) ==
  /\ spent' = spent + usd
  /\ reviewed' = reviewed + usd
  /\ UNCHANGED <<held, est>>

-----------------------------------------------------------------------------
(* Wave start, in task order: a skip row or a lane. *)

TaskRow(t, out, keep) ==
  [task |-> t, kind |-> kind[t], earlier |-> FALSE, outcome |-> out,
   kept |-> keep, new |-> IF out = "skip" THEN {} ELSE edit[t].new,
   current |-> out # "skip"]

SkipReason(t) == t \notin hot \/ Repeat(t) \/ kind[t] = NoEdit \/ ~ CanReserve

StartTask(t) ==
  /\ phase = "wave" /\ First(t, todo)
  /\ todo' = todo \ {t}
  /\ \/ /\ SkipReason(t)
        /\ ledger' = Append(ledger, TaskRow(t, "skip", FALSE))
        /\ UNCHANGED <<lanes, money>>
     \/ /\ ~ SkipReason(t)
        /\ Reserve
        /\ pc' = [pc EXCEPT ![t] = "queued"]
        /\ UNCHANGED <<attempt, edit, outcome, ledger>>
  /\ UNCHANGED <<phase, plan, merged, tree>>

-----------------------------------------------------------------------------
(* The lanes, concurrently. *)

LanesRun == phase = "wave" /\ todo = {}
\* Mutant: off by one, a pool of one lane has no room.
PoolRoom_Short == Cardinality(At(Running)) < wave.lanes - 1

PoolRoom == Cardinality(At(Running)) < IF wave.lanes > 1 THEN wave.lanes ELSE 1

BeginSession(t) ==
  /\ LanesRun /\ PoolRoom /\ First(t, At({"queued"}))
  /\ pc' = [pc EXCEPT ![t] = "session"]
  /\ attempt' = [attempt EXCEPT ![t] = 1]
  /\ UNCHANGED <<phase, plan, todo, edit, outcome, merged, money, ledger, tree>>

\* The session returns: a change of the lane's copy of the base, and a bill.
EndSession(t) ==
  /\ LanesRun /\ pc[t] = "session"
  /\ \E usd \in SessionCosts : ChargeSession(usd)
  /\ \E new \in SUBSET (({t} \cap Splitters) \ fns), gone \in SUBSET fns :
       edit' = [edit EXCEPT ![t] = [new |-> new, gone |-> gone]]
  /\ pc' = [pc EXCEPT ![t] = "judge"]
  /\ UNCHANGED <<phase, plan, todo, attempt, outcome, merged, ledger, tree>>

\* The final gate answers; T2's re-inline check can only turn it to a reject.
Judge(t) ==
  /\ LanesRun /\ pc[t] = "judge"
  /\ \E usd \in ReviewCosts : ChargeReview(usd)
  /\ \E verdict \in {"accept", "reject", "review-unavailable"} :
       outcome' = [outcome EXCEPT ![t] =
                     IF Reinlines(t) THEN "reject" ELSE verdict]
  /\ pc' = [pc EXCEPT ![t] = IF outcome'[t] = "reject" /\ attempt[t] = 1
                             THEN "retry" ELSE "finished"]
  /\ UNCHANGED <<phase, plan, todo, attempt, edit, merged, ledger, tree>>

\* Mutant: a retry asks whether there is room and takes none.
Retry_NoHold(t) ==
  /\ LanesRun /\ pc[t] = "retry"
  /\ pc' = [pc EXCEPT ![t] = IF CanReserve THEN "session" ELSE "finished"]
  /\ attempt' = [attempt EXCEPT ![t] = IF CanReserve THEN 2 ELSE @]
  /\ UNCHANGED <<phase, plan, todo, edit, outcome, merged, money, ledger, tree>>

\* A rejected first attempt asks for room for a second one.
Retry(t) ==
  /\ LanesRun /\ pc[t] = "retry"
  /\ \/ /\ Reserve
        /\ pc' = [pc EXCEPT ![t] = "session"]
        /\ attempt' = [attempt EXCEPT ![t] = 2]
     \/ /\ ~ CanReserve
        /\ pc' = [pc EXCEPT ![t] = "finished"]
        /\ UNCHANGED <<attempt, money>>
  /\ UNCHANGED <<phase, plan, todo, edit, outcome, merged, ledger, tree>>

\* A step of the lane raises (no docker, no token, a file that is not there).
LaneRaises(t) ==
  /\ LanesRun /\ pc[t] \in {"session", "judge"}
  /\ pc' = [pc EXCEPT ![t] = IF pc[t] = "session" THEN "lost" ELSE "failed"]
  /\ UNCHANGED <<phase, plan, todo, attempt, edit, outcome, merged, money, ledger, tree>>

\* The pool lets the running lanes finish, then the exception ends the run:
\* no row for the wave's lanes, no run.json.
Die ==
  /\ LanesRun /\ At({"lost", "failed"}) # {} /\ At(Running) = {}
  /\ phase' = "dead"
  /\ UNCHANGED <<plan, todo, lanes, merged, money, ledger, tree>>

-----------------------------------------------------------------------------
(* Wave end: splice, integration gate, one row per lane. *)

Ascending(S) ==
  {o \in [1 .. Cardinality(S) -> S] :
     \A i, j \in 1 .. Cardinality(S) : i < j => o[i] < o[j]}

\* The lanes the splice places, in task order; the rest are splice conflicts.
\* A lane alone in every file it touches cannot conflict.
SplicedOrders(accepted) ==
  UNION {Ascending(S) : S \in {T \in SUBSET accepted :
                                 Cardinality(accepted) = 1 => T = accepted}}

\* Digests of the symbols of S are no longer those their kept rows recorded.
Changed(S) ==
  [i \in DOMAIN ledger |->
     IF ledger[i].task \in S THEN [ledger[i] EXCEPT !.current = FALSE] ELSE ledger[i]]

IntegrateLanes ==
  /\ LanesRun /\ At(Steps \ {"idle", "finished"}) = {}
  /\ LET accepted == {t \in At({"finished"}) : outcome[t] = "accept"}
     IN \E order \in SplicedOrders(accepted) : merged' \in Outcomes(order)
  /\ applied' = applied \cup merged'
  /\ fns' = (fns \ Removed(merged')) \cup Added(merged')
  /\ IF merged' = {} THEN UNCHANGED <<hot, ledger>>
     ELSE hot' \in SUBSET Tasks /\ \E S \in SUBSET Tasks : ledger' = Changed(S)
  /\ todo' = At({"finished"})
  /\ phase' = "rows"
  /\ UNCHANGED <<plan, lanes, money, baseFns>>

AppendRow(t) ==
  /\ phase = "rows" /\ First(t, todo)
  /\ ledger' = Append(ledger, TaskRow(t, outcome[t], outcome[t] = "accept" /\ t \in merged))
  /\ todo' = todo \ {t}
  /\ UNCHANGED <<phase, plan, lanes, merged, money, tree>>

EndWave ==
  /\ phase = "rows" /\ todo = {}
  /\ done' = done \cup wave.tasks
  /\ pc' = [t \in Tasks |-> "idle"] /\ attempt' = [t \in Tasks |-> 0]
  /\ edit' = [t \in Tasks |-> NoChange] /\ outcome' = [t \in Tasks |-> "reject"]
  /\ merged' = {}
  /\ phase' = "plan"
  /\ UNCHANGED <<waves, wave, kind, todo, money, ledger, tree>>

LaneStep(t) ==
  BeginSession(t) \/ EndSession(t) \/ Judge(t) \/ Retry(t) \/ LaneRaises(t)

Next ==
  \/ Plan \/ End
  \/ \E t \in Tasks : StartTask(t) \/ LaneStep(t) \/ AppendRow(t)
  \/ Die \/ IntegrateLanes \/ EndWave

Spec == Init /\ [][Next]_vars

\* Sessions return (the container runs a bounded number of turns), the gates
\* answer, and the main thread goes on.
FairSpec == Spec /\ WF_vars(Next)

-----------------------------------------------------------------------------
(* Properties *)

TypeOK ==
  /\ phase \in {"plan", "wave", "rows", "ended", "dead"}
  /\ waves \in Nat /\ wave \in [tasks : SUBSET Tasks, lanes : Nat]
  /\ kind \in [Tasks -> Kinds \cup {NoEdit}]
  /\ done \in SUBSET Tasks /\ todo \in SUBSET Tasks /\ merged \in SUBSET Tasks
  /\ pc \in [Tasks -> Steps] /\ attempt \in [Tasks -> 0 .. 2]
  /\ edit \in [Tasks -> [new : SUBSET Tasks, gone : SUBSET Tasks]]
  /\ outcome \in [Tasks -> {"accept", "reject", "review-unavailable"}]
  /\ spent \in Nat /\ held \in Nat /\ est \in Nat /\ reviewed \in Nat
  /\ ledger \in Seq(Row)
  /\ applied \in SUBSET Tasks /\ fns \in SUBSET Tasks /\ hot \in SUBSET Tasks
  /\ baseFns \in SUBSET Tasks

\* The hold count is exactly the sessions started or promised and not yet
\* charged, in every interleaving of reserve and charge: a hold released
\* twice would let a session start past the cap, a leaked one would starve
\* retries.
HeldIsInFlight == held = Cardinality(At(Holding))

\* The inductive invariant behind it: where lanes are in each phase.
LaneInv ==
  /\ HeldIsInFlight
  /\ phase = "plan" => \A t \in Tasks : pc[t] = "idle"
  /\ phase = "wave" => \A t \in todo : pc[t] = "idle"
  /\ phase = "rows" => \A t \in Tasks : pc[t] \in {"idle", "finished"}

\* How far past the cap a run can end, the reviewers' bills aside: one session
\* at the estimate, plus what every other lane held at the same moment cost
\* over the estimate it was held at.
OverrunBound ==
  spent < MaxUsd + reviewed + DearestUsd
            + (Cardinality(Tasks) - 1) * (DearestUsd - SessionUsd)

\* The inductive invariant behind it: what is spent plus what the sessions in
\* flight can cost at most, whatever estimate each was held at.
BudgetInv ==
  /\ SessionUsd <= est /\ est <= DearestUsd
  /\ spent + held * DearestUsd
       < MaxUsd + reviewed + DearestUsd
           + (Cardinality(Tasks) - 1) * (DearestUsd - SessionUsd)

\* "... so a run ends about one session past it at most" (runner/__main__.py).
OneSessionPastCap == spent <= MaxUsd + reviewed + est

RunRows(t) == {i \in DOMAIN ledger : ledger[i].task = t /\ ~ ledger[i].earlier}

\* Every task of a finished wave has exactly one row of this run, and no task
\* ever has two: a wave cannot take a task an earlier wave skipped or ran.
OneRowPerTask ==
  /\ \A t \in Tasks : Cardinality(RunRows(t)) <= 1
  /\ \A t \in done : Cardinality(RunRows(t)) = 1

\* Between waves the tree holds exactly the edits of the rows marked kept:
\* nothing rejected, reverted or conflicting reaches it, and nothing the
\* ledger counts as kept is missing from it.
TreeIsKeptRows ==
  phase \in {"plan", "ended"} =>
    applied = {t \in Tasks : \E i \in RunRows(t) : ledger[i].kept}

\* What a row's task split out and this tree got: of an earlier run's row, as
\* much as the starting tree had.
Helpers(row) == IF row.earlier THEN row.new \cap baseFns ELSE row.new

\* A function a kept task split out stays in the tree once the tree has it: no
\* later lane, concurrent lane or retry undoes it (the T2 re-inline check), be
\* the row of this run or of an earlier one whose tree this run started on.
KeptHelpersSurvive ==
  \A i \in DOMAIN ledger : ledger[i].kept => Helpers(ledger[i]) \subseteq fns

\* The inductive invariant behind it: an accept is a finished lane that removes
\* no kept helper, and what a merged lane split out is in the tree before its
\* row says so.
HelperInv ==
  /\ KeptHelpersSurvive
  /\ phase = "plan" => \A t \in Tasks : outcome[t] = "reject"
  /\ phase = "wave" =>
       \A t \in Tasks : outcome[t] = "accept" => pc[t] = "finished" /\ ~ Reinlines(t)
  /\ phase = "rows" => \A t \in merged : edit[t].new \subseteq fns

\* Repeat suppression: no two kept rows for the same task and type without
\* the symbol having changed in between.
NoRepeatedKeep == NoRepeat(ledger)

\* All three: the ledger tells what happened to every task, once.
LedgerIsTheTree == OneRowPerTask /\ TreeIsKeptRows /\ NoRepeatedKeep

\* A run ends, or dies on a lane that raised.
Terminates == <>(phase \in {"ended", "dead"})
=============================================================================
