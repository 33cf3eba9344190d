---------------------------- MODULE CodingGrade ----------------------------
(* The pure decisions of the coding suite's oracle: what several runs of the  *)
(* same tests agree on, which tests a fix turns from failing to passing,      *)
(* whether an agent's edit resolves a task, whether a restored file breaks    *)
(* it, and how an answer is scored.  A test run is the sequence of the        *)
(* [id, status] entries of its report; a runner that crashed reports <<>>.    *)
EXTENDS Integers, Sequences, FiniteSets, Functions

Ids(run) == {run[i].id : i \in DOMAIN run}

Naming(run, t) == {i \in DOMAIN run : run[i].id = t}

(* The entries of a test over all runs, and what they say of it.              *)
EntriesOf(runs, t) == UNION {{r} \X Naming(runs[r], t) : r \in DOMAIN runs}
SaidOf(runs, t) == {runs[e[1]][e[2]].status : e \in EntriesOf(runs, t)}

(* A mutant: a test missing from a run counts as stable.                      *)
AggregateRuns_AnyRun(runs) ==
  [t \in UNION {Ids(runs[r]) : r \in DOMAIN runs} |->
     IF Cardinality(SaidOf(runs, t)) # 1 \/ SaidOf(runs, t) = {"skip"}
     THEN "flaky" ELSE CHOOSE s \in SaidOf(runs, t) : TRUE]

(* One status per test id over all runs: its status when every run's entries  *)
(* agree and there are as many of them as runs, otherwise "flaky".            *)
AggregateRuns(runs) ==
  [t \in UNION {Ids(runs[r]) : r \in DOMAIN runs} |->
     IF \/ Cardinality(EntriesOf(runs, t)) < Len(runs)
        \/ Cardinality(SaidOf(runs, t)) # 1 \/ SaidOf(runs, t) = {"skip"}
     THEN "flaky" ELSE CHOOSE s \in SaidOf(runs, t) : TRUE]

(* What turns from before to pass between the aggregated parent and fix.      *)
Turned(parent, fix, before) ==
  {t \in DOMAIN parent \cap DOMAIN fix : parent[t] = before /\ fix[t] = "pass"}

ComputeTransition(parentRuns, fixRuns) ==
  LET p == AggregateRuns(parentRuns)
      f == AggregateRuns(fixRuns)
  IN [failToPass |-> Turned(p, f, "fail"), passToPass |-> Turned(p, f, "pass")]

Gated(outcome) == [outcome |-> outcome, failToPass |-> {}, passToPass |-> {}]

(* The outcome of the gate once all its runs are in.                          *)
GateOutcome(parentRuns, fixRuns) ==
  LET t == ComputeTransition(parentRuns, fixRuns)
  IN IF \E r \in Range(parentRuns) \cup Range(fixRuns) : r = <<>> THEN Gated("env-error")
     ELSE IF t.failToPass = {} THEN Gated("no-transition")
     ELSE [outcome |-> "admitted", failToPass |-> t.failToPass, passToPass |-> t.passToPass]

(* The status a report ends with for a test: the last entry of the id wins.   *)
LastStatus(run, t) ==
  LET at == Naming(run, t)
  IN IF at = {} THEN "missing" ELSE run[CHOOSE i \in at : \A j \in at : j <= i].status

EvaluateResolve(task, run) ==
  LET green(t) == LastStatus(run, t) = "pass"
  IN [runError |-> run = <<>>,
      resolved |-> /\ run # <<>>
                   /\ \A t \in task.failToPass : green(t)
                   /\ \A t \in task.passToPass : green(t)]

(* Whether restoring one dark file breaks the fix: a missing result counts.   *)
TestsBroken(failToPass, run) ==
  \E t \in failToPass : ~\E i \in Naming(run, t) : run[i].status = "pass"

Adjudicate(failToPass, run, typeFails) ==
  IF TestsBroken(failToPass, run) THEN "test" ELSE IF typeFails THEN "type" ELSE "none"

(* An answer against an expected set: the counts every score is a ratio of.   *)
GradeSet(expected, predicted) ==
  [truePositives |-> Cardinality(expected \cap predicted),
   expected |-> Cardinality(expected), predicted |-> Cardinality(predicted)]

(* Where the distinct answers of a ranking stand, the rank of one of them, and *)
(* the first k of them.                                                        *)
FirstsOf(ranked) == {i \in DOMAIN ranked : \A j \in 1..(i - 1) : ranked[j] # ranked[i]}
RankOf(ranked, i) == Cardinality({j \in FirstsOf(ranked) : j <= i})
Leading(ranked, k) == {i \in FirstsOf(ranked) : RankOf(ranked, i) <= k}
TopK(ranked, k) == {ranked[i] : i \in Leading(ranked, k)}

(* Only the first budget distinct files of an impact answer are graded.       *)
GradeImpact(gold, answer, budget) ==
  [score |-> GradeSet(gold, TopK(answer, budget)),
   overBudget |-> Cardinality(FirstsOf(answer)) - Cardinality(Leading(answer, budget))]

(* The first k distinct ids of a ranking, what of them is relevant, and the   *)
(* rank of the first relevant one over the whole ranking (0: none).           *)
GradeRetrieval(relevant, ranked, k) ==
  LET ranks == {RankOf(ranked, i) : i \in {j \in FirstsOf(ranked) : ranked[j] \in relevant}}
  IN [hits |-> Cardinality(TopK(ranked, k) \cap relevant),
      firstHit |-> IF ranks = {} THEN 0 ELSE CHOOSE n \in ranks : \A m \in ranks : n <= m]

(* -------------------------------------------------------------------------- *)
(* Given the runs of both sides, what the gate must mean by its outcome: no   *)
(* run crashed, and no entry of a test it admits disagrees.  When, besides,   *)
(* no report names a test twice, a test it admits failed in each run of the   *)
(* parent and passed in each run of the fix, a guarded test passed in all of  *)
(* them, an agent that changes nothing never resolves the task, and one that  *)
(* does what the fix does always does.  The comment of aggregateRuns promises *)
(* each run whatever the names, but it counts entries: vitest allows two      *)
(* tests of one name, and two entries of a run stand in for one of another.   *)
NamesOnce(run) == \A i, j \in DOMAIN run : run[i].id = run[j].id => i = j
HasEntry(run, t, s) == \E i \in Naming(run, t) : run[i].status = s
NoOther(run, t, s) == \A i \in Naming(run, t) : run[i].status = s

NoneDisagrees(g, parentRuns, fixRuns) ==
  /\ \A t \in g.failToPass : /\ \A run \in Range(parentRuns) : NoOther(run, t, "fail")
                             /\ \A run \in Range(fixRuns) : NoOther(run, t, "pass")
  /\ \A t \in g.passToPass : \A run \in Range(parentRuns) \cup Range(fixRuns) : NoOther(run, t, "pass")

EachShows(g, parentRuns, fixRuns) ==
  /\ \A t \in g.failToPass : /\ \A run \in Range(parentRuns) : HasEntry(run, t, "fail")
                             /\ \A run \in Range(fixRuns) : HasEntry(run, t, "pass")
  /\ \A t \in g.passToPass : \A run \in Range(parentRuns) \cup Range(fixRuns) : HasEntry(run, t, "pass")
  /\ \A run \in Range(parentRuns) : ~EvaluateResolve(g, run).resolved
  /\ \A run \in Range(fixRuns) : /\ EvaluateResolve(g, run).resolved
                                 /\ Adjudicate(g.failToPass, run, FALSE) = "none"

AdmitsOnlyStable(parentRuns, fixRuns) ==
  LET g == GateOutcome(parentRuns, fixRuns)
      all == Range(parentRuns) \cup Range(fixRuns)
  IN g.outcome = "admitted" =>
       /\ g.failToPass # {} /\ \A run \in all : run # <<>>
       /\ NoneDisagrees(g, parentRuns, fixRuns)
       /\ (\A run \in all : NamesOnce(run)) => EachShows(g, parentRuns, fixRuns)

(* A ranking that repeats its answers never pays: at most budget distinct     *)
(* answers are graded and counted, naming one twice changes nothing, a larger *)
(* budget never lowers the score, and the first relevant rank lies within the *)
(* budget exactly when the score within it is not zero.                       *)
RepeatsDoNotPay(relevant, ranked, k) ==
  LET graded == GradeImpact(relevant, ranked, k)
      found  == GradeRetrieval(relevant, ranked, k)
  IN /\ graded.score.truePositives = found.hits
     /\ graded.score.predicted <= k /\ found.hits <= graded.score.expected
     /\ graded.score.predicted + graded.overBudget = Cardinality(Range(ranked))
     /\ \A t \in Range(ranked) : GradeImpact(relevant, Append(ranked, t), k) = graded
     /\ found.hits <= GradeImpact(relevant, ranked, k + 1).score.truePositives
     /\ found.hits > 0 <=> found.firstHit \in 1..k
=============================================================================
