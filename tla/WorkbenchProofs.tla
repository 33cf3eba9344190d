--------------------------- MODULE WorkbenchProofs ---------------------------
(* Six of the programs a maintainer or an editor starts on their own: three    *)
(* over a directory that earlier runs of it left, the coding evaluation's      *)
(* clone, the diagnostic's outputs and the ingest's cache, and the ledgers of  *)
(* an arm, the blocks in a repository's hooks and the session-start hook.      *)
EXTENDS CodingEval, CodingLedger, SessionHook, DiagnosticRun, Ingest, HookBlocks,
        FiniteSetTheorems, SequenceTheorems, WellFoundedInduction, TLAPS

(* -------------------------------------------------------------------------- *)
(* The coding evaluation: for any window of commits, options, arms and reports *)
(* and any number of kills, every run, every arm and every index is on the     *)
(* tree it is taken for.  What the trees rest on is between the programs'      *)
(* lines: the lockfile believed is the one installed while a program runs, it  *)
(* is the candidate's from the install to the decision, and a job's parent has *)
(* been indexed before the agent first edits.                                  *)

TreeTypeOK ==
  /\ clone = [head |-> clone.head, patch |-> clone.patch, edits |-> clone.edits, env |-> clone.env]
  /\ DOMAIN index = Parents

BelievedIsInstalled == program # "none" /\ believed # NoLock => clone.env = believed

CandidateIsInstalled ==
  program = "gate" /\ at \in {"patch", "parentRuns", "fixRuns", "decide"} =>
    clone.env = Candidate.lock

ParentIsIndexed ==
  program = "arms" /\ at \in {"agent", "locate", "grade"} => Parent \in opened

EvalInv == /\ TreeTypeOK /\ BelievedIsInstalled /\ CandidateIsInstalled /\ ParentIsIndexed
           /\ TreesAreTheirOwn

LEMMA EvalInitial == EvalInit => EvalInv
BY DEF EvalInit, EvalInv, TreeTypeOK, BelievedIsInstalled, CandidateIsInstalled, ParentIsIndexed,
       TreesAreTheirOwn, RunsInOwnEnvironment, NoEditLeaks, Clean

(* An index that is kept or built from a tree without edits has none.          *)
LEMMA IndexedClean ==
  ASSUME EvalInv, NEW tree, tree.edits = {}, IndexFor(tree)
  PROVE  /\ DOMAIN index' = Parents /\ Parent \in opened'
         /\ \A p \in Parents : index'[p] # NoIndex => index'[p].edits = {}
BY DEF EvalInv, TreeTypeOK, TreesAreTheirOwn, NoEditLeaks, IndexFor

LEMMA EvalInductive == EvalInv /\ [EvalNext]_evalVars => EvalInv'
<1> SUFFICES ASSUME EvalInv, [EvalNext]_evalVars PROVE EvalInv'
  OBVIOUS
<1> USE DEF EvalInv, TreeTypeOK, BelievedIsInstalled, CandidateIsInstalled, ParentIsIndexed,
            TreesAreTheirOwn, RunsInOwnEnvironment, NoEditLeaks
<1>1. CASE Generate
  BY <1>1 DEF Generate
<1>2. CASE NoCommands
  BY <1>2 DEF NoCommands, CanGate, Settle
<1>3. CASE InstallFails
  BY <1>3 DEF InstallFails, CanGate, Settle, Forget, Clean
<1>4. CASE Installed
  <2>1. clone'.env = Candidate.lock /\ (believed' = NoLock \/ clone'.env = believed')
    BY <1>4 DEF Installed, CanGate, IsInstalled, Clean
  <2>2. clone' = [head |-> clone'.head, patch |-> clone'.patch, edits |-> clone'.edits, env |-> clone'.env]
    BY <1>4 DEF Installed, Clean
  <2> QED
    BY <1>4, <2>1, <2>2 DEF Installed, CanGate, Candidate
<1>5. CASE PatchParent
  <2>1. CASE /\ clone' = [Clean(Candidate.parent, clone.env) EXCEPT !.patch = Candidate.id]
             /\ at' = "parentRuns" /\ UNCHANGED queue
    <3>1. clone' = [Clean(Candidate.parent, Candidate.lock) EXCEPT !.patch = Candidate.id]
      BY <1>5, <2>1 DEF PatchParent
    <3>2. clone'.env = Candidate.lock /\ Candidate' = Candidate
      BY <2>1, <3>1 DEF Clean, Candidate
    <3>3. TreeTypeOK'
      BY <1>5, <3>1 DEF PatchParent, Clean
    <3>4. BelievedIsInstalled'
      BY <1>5, <3>2 DEF PatchParent
    <3> QED
      BY <1>5, <2>1, <3>1, <3>2, <3>3, <3>4 DEF PatchParent
  <2>2. CASE clone' = Clean(Candidate.parent, clone.env) /\ at' = "next"
    BY <1>5, <2>2 DEF PatchParent, Clean
  <2> QED
    BY <1>5, <2>1, <2>2 DEF PatchParent, Settle
<1>6. ASSUME NEW r \in Reports, RunParent(r) PROVE EvalInv'
  <2>1. CASE UNCHANGED <<clone, at>>
    BY <1>6, <2>1 DEF RunParent, Candidate
  <2>2. CASE clone' = Clean(Candidate.id, clone.env) /\ at' = "fixRuns"
    <3>1. clone' = Clean(Candidate.id, Candidate.lock) /\ Candidate' = Candidate
      BY <1>6, <2>2 DEF RunParent, Candidate
    <3>2. clone'.env = Candidate.lock /\ TreeTypeOK'
      BY <1>6, <3>1 DEF RunParent, Clean
    <3>3. BelievedIsInstalled'
      BY <1>6, <3>2 DEF RunParent
    <3> QED
      BY <1>6, <2>2, <3>1, <3>2, <3>3 DEF RunParent
  <2> QED
    BY <1>6, <2>1, <2>2 DEF RunParent
<1>7. ASSUME NEW r \in Reports, RunFix(r) PROVE EvalInv'
  BY <1>7 DEF RunFix, Clean, Candidate
<1>8. CASE Decide
  BY <1>8 DEF Decide, Settle
<1>9. CASE WriteSuite
  BY <1>9 DEF WriteSuite
<1>10. CASE StartArms
  BY <1>10 DEF StartArms
<1>11. CASE Prepare
  <2>1. PrepareTree.edits = {}
    BY DEF PrepareTree, Clean
  <2>2. PrepareTree = [Clean(Parent, Task.commit.lock) EXCEPT !.patch = Task.commit.id]
    BY <1>11 DEF Prepare, PrepareTree, IsInstalled, Clean
  <2>3. /\ DOMAIN index' = Parents /\ Parent \in opened'
        /\ \A p \in Parents : index'[p] # NoIndex => index'[p].edits = {}
    BY <1>11, <2>1, IndexedClean DEF Prepare
  <2> QED
    BY <1>11, <2>1, <2>2, <2>3 DEF Prepare, Clean, Parent, Task
<1>12. ASSUME NEW e \in SUBSET {"source", "tests"}, Agent(e) PROVE EvalInv'
  BY <1>12 DEF Agent, Clean, Parent, Task
<1>13. CASE Locate
  <2>1. UNCHANGED <<index, opened>>
    BY <1>13 DEF Locate
  <2> QED
    BY <1>13, <2>1 DEF Locate, Parent, Task
<1>C. ASSUME NEW r \in Reports, Grade(r) PROVE EvalInv'
  BY <1>C DEF Grade
<1>15. CASE FinishArms
  BY <1>15 DEF FinishArms
<1>16. CASE Stop
  <2>1. clone' \in {clone, [clone EXCEPT !.env = NoLock]}
    BY <1>16 DEF Stop
  <2>2. index' \in {index, [index EXCEPT ![Parent] = Clean(NoCommit, NoLock)]}
    BY <1>16 DEF Stop
  <2> QED
    BY <1>16, <2>1, <2>2 DEF Stop, Clean
<1>17. CASE UNCHANGED evalVars
  BY <1>17 DEF evalVars, Candidate, Parent, Task
<1> QED
  BY <1>1, <1>2, <1>3, <1>4, <1>5, <1>6, <1>7, <1>8, <1>9, <1>10, <1>11, <1>12, <1>13, <1>C,
     <1>15, <1>16, <1>17 DEF EvalNext

(* Whatever fails, is skipped or is killed, in any order and over any earlier  *)
(* run's clone, suite and indexes: tests run on their own commit's packages    *)
(* and tree, and no arm and no index sees another's edits.                     *)
THEOREM TreesStayTheirOwn == EvalSpec => []TreesAreTheirOwn
<1>1. EvalInv => TreesAreTheirOwn
  BY DEF EvalInv
<1> QED
  BY <1>1, EvalInitial, EvalInductive, PTL DEF EvalSpec

(* -------------------------------------------------------------------------- *)
(* The oracle: for any reports and any number of runs on either side, a gate   *)
(* admits only what the runs show.  A status is stable when all entries of its *)
(* test say it; and as the entries of a test lie in different runs when no     *)
(* report names it twice, as many entries as runs means one in each.           *)

LEMMA EntriesAreFinite ==
  ASSUME NEW list \in Seq(Reports), NEW t
  PROVE  IsFiniteSet(EntriesOf(list, t)) /\ IsFiniteSet(SaidOf(list, t))
<1> DEFINE Parts == {{r} \X Naming(list[r], t) : r \in DOMAIN list}
           E == EntriesOf(list, t)
           Saying == [e \in E |-> list[e[1]][e[2]].status]
           At == [r \in DOMAIN list |-> {r} \X Naming(list[r], t)]
<1>1. ASSUME NEW r \in DOMAIN list PROVE IsFiniteSet(At[r])
  <2>1. list[r] \in Reports
    BY <1>1
  <2>2. list[r] \in Seq(Range(list[r]))
    BY <2>1, ReportsAssumption
  <2>3. Naming(list[r], t) \in SUBSET (1..Len(list[r])) /\ Len(list[r]) \in Nat
    BY <2>2 DEF Naming
  <2>4. IsFiniteSet(1..Len(list[r]))
    BY <2>3, FS_Interval
  <2>5. IsFiniteSet(Naming(list[r], t))
    BY <2>3, <2>4, FS_Subset
  <2>6. IsFiniteSet({r})
    BY FS_Singleton
  <2>7. IsFiniteSet({r} \X Naming(list[r], t))
    BY <2>5, <2>6, FS_Product
  <2> QED
    BY <2>7
<1>2. IsFiniteSet(DOMAIN list)
  <2>1. DOMAIN list = 1..Len(list) /\ Len(list) \in Nat
    OBVIOUS
  <2> QED
    BY <2>1, FS_Interval
<1>3. At \in Surjection(DOMAIN list, Parts)
  BY DEF Surjection
<1>4. IsFiniteSet(Parts)
  <2> HIDE DEF At, Parts
  <2> QED
    BY <1>2, <1>3, FS_Surjection
<1>5. \A part \in Parts : IsFiniteSet(part)
  BY <1>1
<1>6. IsFiniteSet(E)
  <2>1. E = UNION Parts
    BY DEF EntriesOf
  <2> HIDE DEF E, Parts
  <2> QED
    BY <1>4, <1>5, <2>1, FS_UNION
<1>7. Saying \in Surjection(E, SaidOf(list, t))
  <2> HIDE DEF E
  <2>1. SaidOf(list, t) = {list[e[1]][e[2]].status : e \in E}
    BY DEF SaidOf, E
  <2> QED
    BY <2>1 DEF Surjection
<1>8. IsFiniteSet(SaidOf(list, t))
  <2> HIDE DEF E, Saying
  <2> QED
    BY <1>6, <1>7, FS_Surjection
<1> QED
  BY <1>6, <1>8

(* What is said of a test is what its entries in the runs say.                 *)
LEMMA SaysWhatItSays ==
  ASSUME NEW list, NEW t, NEW r \in DOMAIN list, NEW i \in Naming(list[r], t)
  PROVE  <<r, i>> \in EntriesOf(list, t) /\ list[r][i].status \in SaidOf(list, t)
<1>1. <<r, i>> \in EntriesOf(list, t)
  BY DEF EntriesOf
<1>2. <<r, i>>[1] = r /\ <<r, i>>[2] = i
  OBVIOUS
<1>3. list[<<r, i>>[1]][<<r, i>>[2]].status \in SaidOf(list, t)
  BY <1>1 DEF SaidOf
<1> QED
  BY <1>1, <1>2, <1>3

(* A test that is not flaky has its status in all its entries, as many as runs. *)
LEMMA StableMeans ==
  ASSUME NEW list \in Seq(Reports), NEW t \in DOMAIN AggregateRuns(list), NEW s,
         AggregateRuns(list)[t] = s, s # "flaky"
  PROVE  /\ SaidOf(list, t) = {s}
         /\ Cardinality(EntriesOf(list, t)) >= Len(list)
<1> DEFINE Said == SaidOf(list, t)
           N == Cardinality(EntriesOf(list, t))
<1>1. t \in UNION {Ids(list[r]) : r \in DOMAIN list}
  BY DEF AggregateRuns
<1>2. AggregateRuns(list)[t]
        = IF \/ N < Len(list) \/ Cardinality(Said) # 1 \/ Said = {"skip"}
          THEN "flaky" ELSE CHOOSE x \in Said : TRUE
  BY <1>1 DEF AggregateRuns
<1>3. ~(N < Len(list)) /\ Cardinality(Said) = 1 /\ s = CHOOSE x \in Said : TRUE
  BY <1>2
<1>4. \E x : Said = {x}
  BY <1>3, EntriesAreFinite, FS_Singleton
<1>5. Said = {s}
  BY <1>3, <1>4
<1>6. N \in Nat /\ Len(list) \in Nat
  BY EntriesAreFinite, FS_CardinalityType
<1> QED
  BY <1>3, <1>5, <1>6

LEMMA NoEntryDisagrees ==
  ASSUME NEW list, NEW t, NEW s, SaidOf(list, t) = {s}, NEW run \in Range(list)
  PROVE  NoOther(run, t, s)
<1>1. PICK r \in DOMAIN list : run = list[r]
  BY DEF Range
<1> QED
  BY <1>1, SaysWhatItSays DEF NoOther

(* Entries of different runs: no more than the runs that have one.             *)
LEMMA EachRunHasOne ==
  ASSUME NEW list \in Seq(Reports), NEW t, NEW s, SaidOf(list, t) = {s},
         Cardinality(EntriesOf(list, t)) >= Len(list),
         \A run \in Range(list) : NamesOnce(run), NEW run \in Range(list)
  PROVE  HasEntry(run, t, s)
<1>1. PICK r \in DOMAIN list : run = list[r]
  BY DEF Range
<1> DEFINE E == EntriesOf(list, t)
           Others == (1..Len(list)) \ {r}
           RunOf == [e \in E |-> e[1]]
<1>2. Len(list) \in Nat /\ DOMAIN list = 1..Len(list)
  OBVIOUS
<1>3. IsFiniteSet(Others) /\ Cardinality(Others) = Len(list) - 1
  <2>1. PICK n \in Nat : n = Len(list)
    BY <1>2
  <2>2. IsFiniteSet(1..n) /\ Cardinality(1..n) = n
    BY FS_Interval
  <2>3. /\ IsFiniteSet((1..n) \ {r})
        /\ Cardinality((1..n) \ {r}) = IF r \in 1..n THEN n - 1 ELSE n
    BY <2>2, FS_RemoveElement
  <2>4. r \in 1..n
    BY <1>1, <1>2, <2>1
  <2> QED
    BY <2>1, <2>3, <2>4
<1>4. Naming(run, t) # {}
  <2> SUFFICES ASSUME Naming(list[r], t) = {} PROVE FALSE
    BY <1>1
  <2>1. ASSUME NEW e \in E
        PROVE  e[1] \in Others /\ e[2] \in Naming(list[e[1]], t) /\ e = <<e[1], e[2]>>
    <3>1. PICK q \in DOMAIN list : e \in {q} \X Naming(list[q], t)
      BY DEF EntriesOf
    <3>2. e[1] = q /\ e[2] \in Naming(list[q], t) /\ e = <<e[1], e[2]>>
      BY <3>1
    <3>3. q # r
      BY <3>2
    <3> QED
      BY <1>2, <3>2, <3>3
  <2>2. ASSUME NEW d \in E, NEW e \in E, d[1] = e[1] PROVE d = e
    <3>1. list[d[1]] \in Range(list)
      BY <1>2, <2>1 DEF Range
    <3>2. NamesOnce(list[d[1]])
      BY <3>1
    <3>3. d[2] \in Naming(list[d[1]], t) /\ e[2] \in Naming(list[d[1]], t)
      BY <2>1, <2>2
    <3>4. d[2] = e[2]
      BY <3>2, <3>3 DEF NamesOnce, Naming
    <3> QED
      BY <2>1, <2>2, <3>4
  <2>3. RunOf \in Injection(E, Others)
    <3> HIDE DEF E, Others
    <3>1. RunOf \in [E -> Others]
      BY <2>1
    <3>2. \A d, e \in E : RunOf[d] = RunOf[e] => d = e
      BY <2>2
    <3> QED
      BY <3>1, <3>2 DEF Injection, IsInjective
  <2>4. Cardinality(E) <= Cardinality(Others)
    <3> HIDE DEF E, Others, RunOf
    <3> QED
      BY <1>3, <2>3, FS_Injection
  <2>5. Cardinality(E) \in Nat
    BY EntriesAreFinite, FS_CardinalityType
  <2> QED
    BY <1>2, <1>3, <2>4, <2>5
<1>5. NoOther(run, t, s)
  BY NoEntryDisagrees
<1> QED
  BY <1>4, <1>5 DEF HasEntry, NoOther

(* A report that names a test once ends with the status it has there.          *)
LEMMA OnlyIsLast ==
  ASSUME NEW run \in Reports, NEW t, NEW s,
         HasEntry(run, t, s), NoOther(run, t, s), NamesOnce(run)
  PROVE  LastStatus(run, t) = s
<1>1. PICK i \in Naming(run, t) : run[i].status = s
  BY DEF HasEntry
<1>2. \A j \in Naming(run, t) : j = i
  BY <1>1 DEF NamesOnce, Naming
<1>3. Naming(run, t) = {i}
  BY <1>1, <1>2
<1>4. i <= i
  <2>1. run \in Seq(Range(run))
    BY ReportsAssumption
  <2>2. i \in 1..Len(run)
    BY <1>1, <2>1 DEF Naming
  <2> QED
    BY <2>2
<1> DEFINE Final == CHOOSE j \in {i} : \A k \in {i} : k <= j
<1>5. Final = i
  BY <1>4
<1>6. LastStatus(run, t) = run[Final].status
  BY <1>3 DEF LastStatus
<1> QED
  BY <1>1, <1>5, <1>6

(* One side of the gate: a test that is stable with a status over some runs.   *)
LEMMA StableShows ==
  ASSUME NEW list \in Seq(Reports), NEW t \in DOMAIN AggregateRuns(list), NEW s,
         AggregateRuns(list)[t] = s, s # "flaky", NEW run \in Range(list)
  PROVE  /\ NoOther(run, t, s)
         /\ (\A other \in Range(list) : NamesOnce(other)) =>
              HasEntry(run, t, s) /\ LastStatus(run, t) = s
<1>1. SaidOf(list, t) = {s} /\ Cardinality(EntriesOf(list, t)) >= Len(list)
  BY StableMeans
<1>2. NoOther(run, t, s)
  BY <1>1, NoEntryDisagrees
<1>3. ASSUME \A other \in Range(list) : NamesOnce(other)
      PROVE  HasEntry(run, t, s) /\ LastStatus(run, t) = s
  <2>1. HasEntry(run, t, s)
    BY <1>1, <1>3, EachRunHasOne
  <2>2. run \in Reports
    BY DEF Range
  <2>3. NamesOnce(run)
    BY <1>3
  <2> QED
    BY <1>2, <2>1, <2>2, <2>3, OnlyIsLast
<1> QED
  BY <1>2, <1>3

LEMMA GateAdmitsStable ==
  ASSUME NEW parentRuns \in Seq(Reports), NEW fixRuns \in Seq(Reports)
  PROVE  AdmitsOnlyStable(parentRuns, fixRuns)
<1> DEFINE p == AggregateRuns(parentRuns)
           f == AggregateRuns(fixRuns)
           g == GateOutcome(parentRuns, fixRuns)
           all == Range(parentRuns) \cup Range(fixRuns)
<1> SUFFICES ASSUME g.outcome = "admitted"
             PROVE  AdmitsOnlyStable(parentRuns, fixRuns)
  BY DEF AdmitsOnlyStable
<1>1. /\ g.failToPass = Turned(p, f, "fail") /\ g.passToPass = Turned(p, f, "pass")
      /\ g.failToPass # {} /\ \A run \in all : run # <<>>
  BY DEF GateOutcome, ComputeTransition, Gated
<1>2. /\ \A t \in g.failToPass : /\ t \in DOMAIN p /\ p[t] = "fail"
                                 /\ t \in DOMAIN f /\ f[t] = "pass"
      /\ \A t \in g.passToPass : /\ t \in DOMAIN p /\ p[t] = "pass"
                                 /\ t \in DOMAIN f /\ f[t] = "pass"
  BY <1>1 DEF Turned
<1>3. NoneDisagrees(g, parentRuns, fixRuns)
  <2>1. \A t \in g.failToPass : /\ \A run \in Range(parentRuns) : NoOther(run, t, "fail")
                                /\ \A run \in Range(fixRuns) : NoOther(run, t, "pass")
    BY <1>2, StableShows
  <2>2. \A t \in g.passToPass : \A run \in all : NoOther(run, t, "pass")
    BY <1>2, StableShows
  <2> QED
    BY <2>1, <2>2 DEF NoneDisagrees
<1>4. ASSUME \A run \in all : NamesOnce(run)
      PROVE  EachShows(g, parentRuns, fixRuns)
  <2>1. \A t \in g.failToPass :
          /\ \A run \in Range(parentRuns) : HasEntry(run, t, "fail") /\ LastStatus(run, t) = "fail"
          /\ \A run \in Range(fixRuns) : HasEntry(run, t, "pass") /\ LastStatus(run, t) = "pass"
    BY <1>2, <1>4, StableShows
  <2>2. \A t \in g.passToPass : \A run \in all :
          HasEntry(run, t, "pass") /\ LastStatus(run, t) = "pass"
    BY <1>2, <1>4, StableShows
  <2>3. ASSUME NEW run \in Range(parentRuns) PROVE ~EvaluateResolve(g, run).resolved
    BY <1>1, <2>1 DEF EvaluateResolve
  <2>4. ASSUME NEW run \in Range(fixRuns) PROVE EvaluateResolve(g, run).resolved
    BY <1>1, <2>1, <2>2 DEF EvaluateResolve
  <2>5. ASSUME NEW run \in Range(fixRuns)
        PROVE  Adjudicate(g.failToPass, run, FALSE) = "none"
    BY <2>1 DEF Adjudicate, TestsBroken, HasEntry
  <2> HIDE DEF g
  <2> QED
    BY <2>1, <2>2, <2>3, <2>4, <2>5 DEF EachShows
<1> QED
  BY <1>1, <1>3, <1>4 DEF AdmitsOnlyStable

(* A gate has runs of reports on both sides, in any state.                     *)
RunsInv == runs \in [parent : Seq(Reports), fix : Seq(Reports)]

LEMMA RunsInductive == RunsInv /\ [EvalNext]_evalVars => RunsInv'
<1> SUFFICES ASSUME RunsInv, [EvalNext]_evalVars PROVE RunsInv'
  OBVIOUS
<1>1. NoRuns \in [parent : Seq(Reports), fix : Seq(Reports)]
  BY DEF NoRuns
<1>2. ASSUME NEW r \in Reports, RunParent(r) PROVE RunsInv'
  BY <1>2, AppendProperties DEF RunsInv, RunParent
<1>3. ASSUME NEW r \in Reports, RunFix(r) PROVE RunsInv'
  BY <1>3, AppendProperties DEF RunsInv, RunFix
<1>4. CASE runs' \in {runs, NoRuns}
  BY <1>1, <1>4 DEF RunsInv
<1>5. \/ \E r \in Reports : RunParent(r) \/ RunFix(r)
      \/ runs' \in {runs, NoRuns}
  BY DEF EvalNext, evalVars, Generate, NoCommands, InstallFails, Installed, PatchParent, Settle,
         Decide, WriteSuite, StartArms, Prepare, Agent, Locate, Grade, FinishArms, Stop
<1> QED
  BY <1>2, <1>3, <1>4, <1>5

(* Over any windows, reports, installs, kills and restarts: a gate admits a    *)
(* candidate only if no run crashed and no entry of a test it turns on says    *)
(* otherwise on either side; and when no report names a test twice, each run   *)
(* shows the test, the parent alone never resolves the task, the fix does.     *)
THEOREM GatesAreSound == EvalSpec => []OracleIsSound
<1>1. EvalInit => RunsInv
  BY DEF EvalInit, RunsInv, NoRuns
<1>2. RunsInv => OracleIsSound
  BY GateAdmitsStable DEF RunsInv, OracleIsSound
<1> QED
  BY <1>1, <1>2, RunsInductive, PTL DEF EvalSpec

(* -------------------------------------------------------------------------- *)
(* The score of a ranking, for any ranking, expected set and budget.           *)

(* A non-empty set of natural numbers has a least one.                         *)
LEMMA NatLeast ==
  ASSUME NEW T, T \subseteq Nat, T # {}
  PROVE  \E m \in T : \A y \in T : m <= y
<1>1. PICK m \in T : \A y \in T : ~ (<<y, m>> \in OpToRel(<, Nat))
  BY NatLessThanWellFounded, WFMin
<1>2. \A y \in T : ~ (y < m)
  BY <1>1 DEF OpToRel
<1> QED
  BY <1>2

(* The distinct answers are ranked one by one, from 1.                         *)
LEMMA RanksDiffer ==
  ASSUME NEW A, NEW ranked \in Seq(A)
  PROVE  /\ FirstsOf(ranked) \in SUBSET (1..Len(ranked)) /\ IsFiniteSet(FirstsOf(ranked))
         /\ \A i \in FirstsOf(ranked) : RankOf(ranked, i) \in Nat \ {0}
         /\ \A i, j \in FirstsOf(ranked) : RankOf(ranked, i) = RankOf(ranked, j) => i = j
<1> DEFINE F == FirstsOf(ranked)
           Until(i) == {j \in F : j <= i}
<1>1. F \in SUBSET (1..Len(ranked)) /\ Len(ranked) \in Nat
  BY DEF FirstsOf
<1>2. IsFiniteSet(F)
  <2>1. IsFiniteSet(1..Len(ranked))
    BY <1>1, FS_Interval
  <2> QED
    BY <1>1, <2>1, FS_Subset
<1>3. ASSUME NEW i \in F
      PROVE  IsFiniteSet(Until(i)) /\ RankOf(ranked, i) = Cardinality(Until(i)) /\ i \in Until(i)
  <2>1. Until(i) \in SUBSET F
    OBVIOUS
  <2>2. IsFiniteSet(Until(i))
    <3> HIDE DEF F, Until
    <3> QED
      BY <1>2, <2>1, FS_Subset
  <2>3. i <= i
    BY <1>1
  <2> QED
    BY <2>2, <2>3 DEF RankOf
<1>4. ASSUME NEW i \in F PROVE RankOf(ranked, i) \in Nat \ {0}
  <2> HIDE DEF F, Until
  <2>1. Cardinality(Until(i)) \in Nat /\ Cardinality(Until(i)) # 0
    BY <1>3, FS_CardinalityType, FS_EmptySet
  <2> QED
    BY <1>3, <2>1
<1>5. ASSUME NEW i \in F, NEW j \in F, i < j PROVE RankOf(ranked, i) < RankOf(ranked, j)
  <2>1. Until(i) \in SUBSET Until(j) /\ ~(j <= i)
    BY <1>1, <1>5
  <2>2. Until(i) # Until(j)
    <3>1. j \in Until(j)
      BY <1>3
    <3> QED
      BY <2>1, <3>1
  <2> HIDE DEF F, Until
  <2>3. Cardinality(Until(i)) <= Cardinality(Until(j)) /\ Cardinality(Until(i)) # Cardinality(Until(j))
    BY <1>3, <2>1, <2>2, FS_Subset
  <2>4. Cardinality(Until(i)) \in Nat /\ Cardinality(Until(j)) \in Nat
    BY <1>3, FS_CardinalityType
  <2> QED
    BY <1>3, <2>3, <2>4
<1>6. ASSUME NEW i \in F, NEW j \in F, RankOf(ranked, i) = RankOf(ranked, j) PROVE i = j
  <2>1. RankOf(ranked, i) \in Nat
    BY <1>4
  <2>2. i \in Nat /\ j \in Nat
    BY <1>1
  <2> HIDE DEF F
  <2>3. i < j \/ j < i \/ i = j
    BY <2>2
  <2> QED
    BY <1>5, <1>6, <2>1, <2>3
<1> QED
  BY <1>1, <1>2, <1>4, <1>6

(* Some of the distinct answers are as many as where they stand.               *)
LEMMA AnswersAreFirsts ==
  ASSUME NEW A, NEW ranked \in Seq(A), NEW I \in SUBSET FirstsOf(ranked),
         NEW T, T = {ranked[i] : i \in I}
  PROVE  /\ IsFiniteSet(I) /\ IsFiniteSet(T)
         /\ Cardinality(T) = Cardinality(I) /\ Cardinality(I) \in Nat
<1>1. IsFiniteSet(I)
  BY RanksDiffer, FS_Subset
<1> DEFINE At == [i \in I |-> ranked[i]]
<1>2. ASSUME NEW i \in I, NEW j \in I, ranked[i] = ranked[j] PROVE i = j
  <2>1. i \in 1..Len(ranked) /\ j \in 1..Len(ranked) /\ Len(ranked) \in Nat
    BY RanksDiffer
  <2>2. /\ \A q \in 1..(i - 1) : ranked[q] # ranked[i]
        /\ \A q \in 1..(j - 1) : ranked[q] # ranked[j]
    BY DEF FirstsOf
  <2>3. ~(i < j)
    BY <1>2, <2>1, <2>2
  <2>4. ~(j < i)
    BY <1>2, <2>1, <2>2
  <2> QED
    BY <2>1, <2>3, <2>4
<1>3. At \in Surjection(I, T) /\ At \in Injection(I, T)
  BY <1>2 DEF Surjection, Injection, IsInjective
<1> HIDE DEF At
<1>4. IsFiniteSet(T) /\ Cardinality(T) = Cardinality(I)
  BY <1>1, <1>3, FS_Surjection
<1> QED
  BY <1>1, <1>4, FS_CardinalityType

(* Within a budget there are no more answers than the budget.                  *)
LEMMA LeadingFit ==
  ASSUME NEW A, NEW ranked \in Seq(A), NEW k \in Nat
  PROVE  /\ Leading(ranked, k) \in SUBSET FirstsOf(ranked)
         /\ Cardinality(Leading(ranked, k)) <= k
<1> DEFINE L == Leading(ranked, k)
           Rank == [i \in L |-> RankOf(ranked, i)]
<1>1. L \in SUBSET FirstsOf(ranked)
  BY DEF Leading
<1>2. \A i \in L : RankOf(ranked, i) \in 1..k
  BY RanksDiffer DEF Leading
<1>3. Rank \in Injection(L, 1..k)
  <2> HIDE DEF L
  <2> QED
    BY <1>1, <1>2, RanksDiffer DEF Injection, IsInjective
<1>4. IsFiniteSet(1..k) /\ Cardinality(1..k) = k
  BY FS_Interval
<1>5. Cardinality(L) <= Cardinality(1..k)
  <2> HIDE DEF L, Rank
  <2> QED
    BY <1>3, <1>4, FS_Injection
<1> QED
  BY <1>1, <1>4, <1>5

(* Each answer stands somewhere for the first time.                            *)
LEMMA FirstsAreAll ==
  ASSUME NEW A, NEW ranked \in Seq(A)
  PROVE  Range(ranked) = {ranked[i] : i \in FirstsOf(ranked)}
<1>1. ASSUME NEW i \in DOMAIN ranked PROVE \E f \in FirstsOf(ranked) : ranked[f] = ranked[i]
  <2> DEFINE Same == {j \in 1..Len(ranked) : ranked[j] = ranked[i]}
  <2>1. Same \subseteq Nat /\ i \in Same /\ DOMAIN ranked = 1..Len(ranked) /\ Len(ranked) \in Nat
    BY <1>1
  <2>2. PICK f \in Same : \A j \in Same : f <= j
    BY <2>1, NatLeast
  <2>3. ASSUME NEW j \in 1..(f - 1) PROVE ranked[j] # ranked[f]
    <3>1. j \in 1..Len(ranked) /\ ~(f <= j)
      BY <2>1, <2>2
    <3> QED
      BY <2>2, <3>1
  <2> QED
    BY <2>1, <2>2, <2>3 DEF FirstsOf
<1> QED
  BY <1>1 DEF Range, FirstsOf

(* A ranking that names one of its answers again leads the same.               *)
LEMMA AgainIsNothing ==
  ASSUME NEW A, NEW ranked \in Seq(A), NEW t \in Range(ranked), NEW k \in Nat
  PROVE  /\ FirstsOf(Append(ranked, t)) = FirstsOf(ranked)
         /\ Leading(Append(ranked, t), k) = Leading(ranked, k)
         /\ TopK(Append(ranked, t), k) = TopK(ranked, k)
<1> DEFINE more == Append(ranked, t)
           n == Len(ranked)
<1>1. /\ n \in Nat /\ DOMAIN ranked = 1..n /\ DOMAIN more = 1..(n + 1)
      /\ more[n + 1] = t /\ \A i \in 1..n : more[i] = ranked[i]
  <2>1. t \in A
    BY DEF Range
  <2> QED
    BY <2>1, AppendProperties
<1>2. PICK q \in 1..n : ranked[q] = t
  BY <1>1 DEF Range
<1> HIDE DEF more, n
<1>3. ASSUME NEW i PROVE i \in FirstsOf(more) <=> i \in FirstsOf(ranked)
  <2>1. CASE i = n + 1
    <3>1. q \in 1..(i - 1) /\ more[q] = more[i]
      BY <1>1, <1>2, <2>1
    <3>2. i \notin FirstsOf(more)
      BY <3>1 DEF FirstsOf
    <3>3. i \notin DOMAIN ranked
      BY <1>1, <2>1
    <3> QED
      BY <3>2, <3>3 DEF FirstsOf
  <2>2. CASE i \in 1..n
    <3>1. \A j \in 1..(i - 1) : more[j] = ranked[j]
      BY <1>1, <2>2
    <3>2. i \in DOMAIN more /\ i \in DOMAIN ranked /\ more[i] = ranked[i]
      BY <1>1, <2>2
    <3> QED
      BY <3>1, <3>2 DEF FirstsOf
  <2>3. CASE i \notin 1..(n + 1)
    <3>1. i \notin DOMAIN more /\ i \notin DOMAIN ranked
      BY <1>1, <2>3
    <3> QED
      BY <3>1 DEF FirstsOf
  <2> QED
    BY <1>1, <2>1, <2>2, <2>3
<1>4. FirstsOf(more) = FirstsOf(ranked)
  BY <1>3
<1>5. Leading(more, k) = Leading(ranked, k)
  BY <1>4 DEF Leading, RankOf
<1>6. \A i \in Leading(ranked, k) : more[i] = ranked[i]
  BY <1>1 DEF Leading, FirstsOf
<1>7. TopK(more, k) = TopK(ranked, k)
  BY <1>5, <1>6 DEF TopK
<1> QED
  BY <1>4, <1>5, <1>7 DEF more

(* The first relevant rank is within the budget when a relevant answer is.     *)
LEMMA FirstHitIs ==
  ASSUME NEW A, NEW ranked \in Seq(A), NEW relevant, NEW k \in Nat
  PROVE  TopK(ranked, k) \cap relevant # {} <=> GradeRetrieval(relevant, ranked, k).firstHit \in 1..k
<1> DEFINE Hits == {j \in FirstsOf(ranked) : ranked[j] \in relevant}
           Ranks == {RankOf(ranked, i) : i \in Hits}
           first == GradeRetrieval(relevant, ranked, k).firstHit
<1>1. first = IF Ranks = {} THEN 0 ELSE CHOOSE n \in Ranks : \A m \in Ranks : n <= m
  BY DEF GradeRetrieval
<1>2. Ranks \subseteq Nat \ {0}
  BY RanksDiffer
<1> HIDE DEF first
<1>3. CASE Ranks = {}
  <2>1. Hits = {}
    BY <1>3
  <2>2. TopK(ranked, k) \cap relevant = {}
    BY <2>1 DEF TopK, Leading
  <2>3. first = 0
    BY <1>1, <1>3
  <2>4. first \notin 1..k
    BY <2>3
  <2> QED
    BY <2>2, <2>4 DEF first
<1>4. CASE Ranks # {}
  <2>1. first \in Ranks /\ \A m \in Ranks : first <= m
    <3> HIDE DEF Ranks
    <3>1. Ranks \subseteq Nat
      BY <1>2
    <3>2. \E n \in Ranks : \A m \in Ranks : n <= m
      BY <1>4, <3>1, NatLeast
    <3> QED
      BY <1>1, <1>4, <3>2
  <2>2. ASSUME first <= k PROVE TopK(ranked, k) \cap relevant # {}
    <3>1. PICK i \in Hits : first = RankOf(ranked, i)
      BY <2>1
    <3>2. i \in Leading(ranked, k) /\ ranked[i] \in relevant
      BY <2>2, <3>1 DEF Leading
    <3> QED
      BY <3>2 DEF TopK
  <2>3. ASSUME TopK(ranked, k) \cap relevant # {} PROVE first <= k
    <3>1. PICK i \in Leading(ranked, k) : ranked[i] \in relevant
      BY <2>3 DEF TopK
    <3>2. RankOf(ranked, i) \in Ranks /\ RankOf(ranked, i) <= k
      BY <3>1 DEF Leading
    <3>3. first \in Nat /\ RankOf(ranked, i) \in Nat /\ first <= RankOf(ranked, i)
      BY <1>2, <2>1, <3>2
    <3> QED
      BY <3>2, <3>3
  <2>4. first \in Nat \ {0}
    BY <1>2, <2>1
  <2>5. first \in 1..k <=> first <= k
    BY <2>4
  <2> QED
    BY <2>2, <2>3, <2>5 DEF first
<1> QED
  BY <1>3, <1>4

(* For any answers, any expected set and any budget: at most the budget is     *)
(* graded, naming an answer again changes no score and no count, a larger      *)
(* budget never lowers the score, and the first relevant rank is within it     *)
(* exactly when something is scored.                                           *)
THEOREM RepeatsNeverPay ==
  ASSUME NEW A, NEW ranked \in Seq(A), NEW relevant, IsFiniteSet(relevant), NEW k \in Nat
  PROVE  RepeatsDoNotPay(relevant, ranked, k)
<1> DEFINE L == Leading(ranked, k)
           F == FirstsOf(ranked)
           Top == TopK(ranked, k)
           Scored == relevant \cap Top
           graded == GradeImpact(relevant, ranked, k)
           found  == GradeRetrieval(relevant, ranked, k)
<1>1. /\ graded.score.truePositives = Cardinality(Scored)
      /\ graded.score.expected = Cardinality(relevant)
      /\ graded.score.predicted = Cardinality(Top)
      /\ graded.overBudget = Cardinality(F) - Cardinality(L)
  BY DEF GradeImpact, GradeSet
<1>2. Scored = Top \cap relevant
  OBVIOUS
<1>3. found.hits = Cardinality(Scored)
  BY <1>2 DEF GradeRetrieval
<1>4. Cardinality(Top) = Cardinality(L) /\ Cardinality(L) \in Nat /\ Cardinality(L) <= k
  <2>1. L \in SUBSET FirstsOf(ranked) /\ Cardinality(L) <= k
    BY LeadingFit
  <2>2. Top = {ranked[i] : i \in L}
    BY DEF TopK
  <2> HIDE DEF L, Top
  <2> QED
    BY <2>1, <2>2, AnswersAreFirsts
<1>5. Cardinality(F) = Cardinality(Range(ranked)) /\ Cardinality(F) \in Nat
  BY FirstsAreAll, AnswersAreFirsts
<1>6. IsFiniteSet(Scored) /\ Cardinality(Scored) <= Cardinality(relevant) /\ Cardinality(Scored) \in Nat
  <2>1. Scored \in SUBSET relevant
    OBVIOUS
  <2> HIDE DEF Scored
  <2> QED
    BY <2>1, FS_Subset, FS_CardinalityType
<1>7. ASSUME NEW t \in Range(ranked) PROVE GradeImpact(relevant, Append(ranked, t), k) = graded
  BY AgainIsNothing DEF GradeImpact
<1>8. Cardinality(Scored) <= GradeImpact(relevant, ranked, k + 1).score.truePositives
  <2> DEFINE Wider == relevant \cap TopK(ranked, k + 1)
  <2>1. Scored \in SUBSET Wider
    <3>1. \A i \in FirstsOf(ranked) : RankOf(ranked, i) <= k => RankOf(ranked, i) <= k + 1
      BY RanksDiffer
    <3> QED
      BY <3>1 DEF TopK, Leading
  <2>2. Wider \in SUBSET relevant
    OBVIOUS
  <2>3. GradeImpact(relevant, ranked, k + 1).score.truePositives = Cardinality(Wider)
    BY DEF GradeImpact, GradeSet
  <2> HIDE DEF Wider, Scored
  <2>4. IsFiniteSet(Wider)
    BY <2>2, FS_Subset
  <2>5. Cardinality(Scored) <= Cardinality(Wider)
    BY <2>1, <2>4, FS_Subset
  <2> QED
    BY <2>3, <2>5
<1>9. Cardinality(Scored) > 0 <=> found.firstHit \in 1..k
  <2>1. Scored # {} <=> found.firstHit \in 1..k
    BY <1>2, FirstHitIs
  <2> HIDE DEF Scored, found
  <2>2. Cardinality(Scored) = 0 <=> Scored = {}
    BY <1>6, FS_EmptySet
  <2> QED
    BY <1>6, <2>1, <2>2
<1> HIDE DEF L, F, Top, Scored
<1>10. /\ graded.score.truePositives = found.hits
       /\ graded.score.predicted <= k /\ found.hits <= graded.score.expected
       /\ graded.score.predicted + graded.overBudget = Cardinality(Range(ranked))
       /\ found.hits <= GradeImpact(relevant, ranked, k + 1).score.truePositives
       /\ found.hits > 0 <=> found.firstHit \in 1..k
  <2> HIDE DEF graded, found
  <2> QED
    BY <1>1, <1>3, <1>4, <1>5, <1>6, <1>8, <1>9
<1> QED
  BY <1>7, <1>10 DEF RepeatsDoNotPay

(* -------------------------------------------------------------------------- *)
(* The diagnostic: for any number of prompts, any command lines and any number *)
(* of runs over one directory.  A score may only follow an answer of the run   *)
(* that scores it, so the induction carries which prompts this run answered;   *)
(* and a pool that waits is full, so it also carries when the pool waits.      *)

Prompts    == 1..NPrompts
OutputFile == [run : Nat, ok : BOOLEAN]
Outputs    == [test : OutputFile, code : SUBSET Nat, check : OutputFile, judge : OutputFile]
Result     == [prompt : Prompts, success : BOOLEAN]

DiagTypeOK ==
  /\ runNo \in Nat /\ config \in Configs
  /\ phase \in {"idle", "bench", "check", "judge", "assemble"}
  /\ pending \in Seq(Prompts) /\ executing \in SUBSET Prompts /\ racing \in BOOLEAN
  /\ benchResults \in Seq(Result) /\ toCheck \in Seq(Result)
  /\ dir \in [Prompts -> Outputs]

Capacity == IF config.limit = 0 THEN 1 ELSE config.limit

PoolInv ==
  /\ phase \in {"idle", "check", "assemble"} => executing = {} /\ pending = <<>>
  /\ executing = {} => ~racing
  /\ config.limit # NotANumber => /\ Cardinality(executing) <= Capacity
                                  /\ ~racing => Cardinality(executing) < Capacity

(* In the bench, the prompts are started in order.                             *)
BenchInv ==
  phase = "bench" =>
    /\ Len(pending) <= NPrompts
    /\ \A k \in 1..Len(pending) : pending[k] = NPrompts - Len(pending) + k
    /\ \A i \in executing : i <= NPrompts - Len(pending)
    /\ Len(benchResults) + Cardinality(executing) + Len(pending) = NPrompts

AnsweredNow(rs) ==
  \A k \in DOMAIN rs : rs[k].success => dir[rs[k].prompt].test.run = runNo

ScoresInv ==
  /\ \A i \in Prompts : /\ dir[i].test.run <= runNo
                        /\ dir[i].check.run <= dir[i].test.run
                        /\ dir[i].judge.run <= dir[i].test.run
  /\ AnsweredNow(benchResults) /\ AnsweredNow(toCheck)
  /\ phase # "check" => toCheck = <<>>

CardInv ==
  \A i \in DOMAIN scorecard :
    scorecard[i].test # 0 => /\ scorecard[i].check <= scorecard[i].test
                             /\ scorecard[i].judge <= scorecard[i].test

DiagInv == DiagTypeOK /\ PoolInv /\ BenchInv /\ ScoresInv /\ CardInv

LEMMA DiagImplies == DiagInv => ScoresFollowAnswers
BY DEF DiagInv, PoolInv, BenchInv, ScoresInv, CardInv, Prompts, Capacity, ScoresFollowAnswers

LEMMA DiagInitial == DiagInit => DiagInv
<1> SUFFICES ASSUME DiagInit PROVE DiagInv
  OBVIOUS
<1>1. DiagTypeOK
  <2>1. NoOutputs \in Outputs
    BY DEF NoOutputs, NoFile, Outputs, OutputFile
  <2>2. dir \in [Prompts -> Outputs]
    BY <2>1 DEF DiagInit, Prompts
  <2>3. pending \in Seq(Prompts) /\ benchResults \in Seq(Result) /\ toCheck \in Seq(Result)
    BY DEF DiagInit
  <2>4. runNo \in Nat /\ config \in Configs /\ executing \in SUBSET Prompts /\ racing \in BOOLEAN
    BY DEF DiagInit
  <2> QED
    BY <2>2, <2>3, <2>4 DEF DiagInit, DiagTypeOK
<1>2. PoolInv /\ BenchInv
  BY FS_EmptySet, DiagAssumption DEF DiagInit, PoolInv, BenchInv, Capacity
<1>3. ScoresInv /\ CardInv
  BY DiagAssumption DEF DiagInit, ScoresInv, CardInv, AnsweredNow, Prompts, NoOutputs, NoFile
<1> QED
  BY <1>1, <1>2, <1>3 DEF DiagInv

(* The pool is finite, and changes by one task at a time.                      *)
LEMMA PoolCounts ==
  ASSUME DiagTypeOK, NEW i \in Prompts
  PROVE  /\ IsFiniteSet(executing) /\ Cardinality(executing) \in Nat
         /\ Cardinality(executing \cup {i}) =
              (IF i \in executing THEN Cardinality(executing) ELSE Cardinality(executing) + 1)
         /\ i \in executing => Cardinality(executing \ {i}) = Cardinality(executing) - 1
<1>1. IsFiniteSet(executing)
  <2>1. IsFiniteSet(Prompts)
    BY FS_Interval, DiagAssumption DEF Prompts
  <2> QED
    BY <2>1, FS_Subset DEF DiagTypeOK
<1> QED
  BY <1>1, FS_CardinalityType, FS_AddElement, FS_RemoveElement

(* A task that ends makes room.                                                *)
LEMMA LeaveHolds ==
  ASSUME DiagTypeOK, PoolInv, phase \in {"bench", "judge"}, NEW i \in executing,
         Leave(i), UNCHANGED <<config, phase, pending>>
  PROVE  PoolInv' /\ executing' \in SUBSET Prompts /\ racing' \in BOOLEAN
<1>1. executing' = executing \ {i} /\ racing' = FALSE
  BY DEF Leave
<1>2. Cardinality(executing') = Cardinality(executing) - 1 /\ Cardinality(executing) \in Nat
  BY <1>1, PoolCounts DEF DiagTypeOK
<1>3. config.limit # NotANumber => config.limit \in Nat
  BY DiagAssumption DEF DiagTypeOK
<1>4. config.limit # NotANumber => Cardinality(executing') < Capacity /\ Capacity' = Capacity
  BY <1>2, <1>3 DEF PoolInv, Capacity
<1>5. Capacity \in Nat \/ config.limit = NotANumber
  BY <1>3 DEF Capacity
<1>6. executing' \in SUBSET Prompts /\ racing' \in BOOLEAN
  BY <1>1 DEF DiagTypeOK
<1>7. (config.limit # NotANumber =>
         Cardinality(executing) <= Capacity /\ (~racing => Cardinality(executing) < Capacity))'
  BY <1>1, <1>2, <1>4, <1>5
<1> QED
  BY <1>1, <1>6, <1>7 DEF PoolInv

(* A write to the outputs after which scores still follow answers, and what    *)
(* this run has answered is still answered.                                    *)
SafeWrite ==
  /\ dir' \in [Prompts -> Outputs]
  /\ \A j \in Prompts : /\ dir'[j].test.run <= runNo
                        /\ dir'[j].check.run <= dir'[j].test.run
                        /\ dir'[j].judge.run <= dir'[j].test.run
  /\ \A r \in Result : dir[r.prompt].test.run = runNo => dir'[r.prompt].test.run = runNo

(* A file of this run's, for a prompt answered in it, disturbs no score.       *)
LEMMA WriteHolds ==
  ASSUME DiagTypeOK, ScoresInv, NEW i \in Prompts, NEW ok \in BOOLEAN,
         runNo' = runNo,
         \/ dir' = [dir EXCEPT ![i].test = Written(ok)]
         \/ /\ dir[i].test.run = runNo
            /\ \/ dir' = [dir EXCEPT ![i].check = Written(ok)]
               \/ dir' = [dir EXCEPT ![i].judge = Written(ok)]
  PROVE  SafeWrite /\ dir'[i].test.run = runNo
<1> USE DEF SafeWrite
<1>1. Written(ok) \in OutputFile /\ Written(ok).run = runNo
  BY DEF Written, OutputFile, DiagTypeOK
<1>2. CASE dir' = [dir EXCEPT ![i].test = Written(ok)]
  <2>1. /\ dir' \in [Prompts -> Outputs]
        /\ dir'[i].test.run = runNo /\ dir'[i].check = dir[i].check /\ dir'[i].judge = dir[i].judge
        /\ \A j \in Prompts \ {i} : dir'[j] = dir[j]
    BY <1>1, <1>2 DEF DiagTypeOK, Outputs
  <2>2. \A j \in Prompts : /\ dir[j].test.run \in Nat /\ dir[j].check.run \in Nat
                           /\ dir[j].judge.run \in Nat /\ runNo \in Nat
    BY DEF DiagTypeOK, Outputs, OutputFile
  <2>3. \A j \in Prompts : /\ dir'[j].test.run <= runNo
                           /\ dir'[j].check.run <= dir'[j].test.run
                           /\ dir'[j].judge.run <= dir'[j].test.run
    BY <2>1, <2>2 DEF ScoresInv
  <2>4. \A r \in Result : dir[r.prompt].test.run = runNo => dir'[r.prompt].test.run = runNo
    <3>1. \A r \in Result : r.prompt \in Prompts
      BY DEF Result
    <3> QED
      BY <2>1, <3>1
  <2> QED
    BY <2>1, <2>3, <2>4
<1>3. CASE dir[i].test.run = runNo /\ dir' = [dir EXCEPT ![i].check = Written(ok)]
  BY <1>1, <1>3 DEF DiagTypeOK, ScoresInv, Outputs, OutputFile, Result
<1>4. CASE dir[i].test.run = runNo /\ dir' = [dir EXCEPT ![i].judge = Written(ok)]
  BY <1>1, <1>4 DEF DiagTypeOK, ScoresInv, Outputs, OutputFile, Result
<1> QED
  BY <1>2, <1>3, <1>4

(* A prompt is judged when this run answered it.                               *)
LEMMA JudgedAnswered ==
  ASSUME DiagTypeOK, ScoresInv, NEW i \in Prompts, Judgeable(i)
  PROVE  dir[i].test.run = runNo
<1>1. PICK k \in DOMAIN benchResults : benchResults[k].prompt = i /\ benchResults[k].success
  BY DEF Judgeable, Succeeded, Range
<1> QED
  BY <1>1 DEF ScoresInv, AnsweredNow

LEMMA DiagInductive == DiagInv /\ [DiagNext]_diagVars => DiagInv'
<1> SUFFICES ASSUME DiagInv, [DiagNext]_diagVars PROVE DiagInv'
  OBVIOUS
<1> USE DEF DiagInv, SafeWrite
<1>1. ASSUME NEW c \in Configs, Run(c) PROVE DiagInv'
  <2>1. phase = "idle" /\ executing = {} /\ pending = <<>> /\ ~racing /\ toCheck = <<>>
    BY <1>1 DEF Run, PoolInv, ScoresInv
  <2>2. [i \in 1..NPrompts |-> i] \in Seq(Prompts) /\ Len([i \in 1..NPrompts |-> i]) = NPrompts
    BY DiagAssumption DEF Prompts
  <2>3. DiagTypeOK'
    <3>1. pending' \in Seq(Prompts) /\ phase' \in {"idle", "bench"}
      BY <1>1, <2>1, <2>2 DEF Run, DiagTypeOK
    <3>2. benchResults' \in Seq(Result) /\ runNo' \in Nat /\ config' \in Configs
      BY <1>1 DEF Run, DiagTypeOK
    <3> QED
      BY <1>1, <3>1, <3>2 DEF Run, DiagTypeOK
  <2>4. PoolInv'
    <3>1. Cardinality({}) = 0
      BY FS_EmptySet
    <3>2. c.limit # NotANumber => 0 < (IF c.limit = 0 THEN 1 ELSE c.limit)
      BY DiagAssumption
    <3> QED
      <4>1. config' = c /\ executing' = {} /\ ~racing' /\ phase' \in {"idle", "bench"}
            /\ (phase' = "idle" => pending' = <<>>)
        BY <1>1, <2>1 DEF Run
      <4>2. Capacity' = (IF c.limit = 0 THEN 1 ELSE c.limit)
        BY <4>1 DEF Capacity
      <4>3. c.limit # NotANumber => Capacity' \in Nat
        BY <4>2, DiagAssumption
      <4> QED
        BY <3>1, <3>2, <4>1, <4>2, <4>3 DEF PoolInv
  <2>5. BenchInv'
    <3>1. CASE c.dryRun
      BY <1>1, <2>1, <3>1 DEF Run, BenchInv
    <3>2. CASE ~c.dryRun
      BY <1>1, <2>1, <2>2, <3>2, FS_EmptySet, DiagAssumption DEF Run, BenchInv
    <3> QED
      BY <3>1, <3>2
  <2>6. ScoresInv' /\ CardInv'
    BY <1>1, <2>1 DEF Run, ScoresInv, CardInv, AnsweredNow, DiagTypeOK, Outputs, OutputFile
  <2> QED
    BY <2>3, <2>4, <2>5, <2>6
<1>2. CASE StartTask
  <2> DEFINE i == Head(pending)
  <2>1. i \in Prompts /\ Tail(pending) \in Seq(Prompts) /\ Len(Tail(pending)) = Len(pending) - 1
        /\ \A k \in 1..Len(pending) - 1 : Tail(pending)[k] = pending[k + 1]
    BY <1>2 DEF StartTask, DiagTypeOK
  <2>2. executing' = executing \cup {i} /\ racing' = Full(Cardinality(executing'))
    BY <1>2 DEF StartTask
  <2>3. /\ Cardinality(executing) \in Nat
        /\ Cardinality(executing') = (IF i \in executing THEN Cardinality(executing)
                                      ELSE Cardinality(executing) + 1)
    BY <2>1, <2>2, PoolCounts
  <2>4. DiagTypeOK'
    BY <1>2, <2>1, <2>2 DEF StartTask, DiagTypeOK, Full
  <2>5. PoolInv'
    <3>1. config.limit # NotANumber => config.limit \in Nat
      BY DiagAssumption DEF DiagTypeOK
    <3>2. config.limit # NotANumber => Cardinality(executing) < Capacity /\ Capacity' = Capacity
      BY <1>2 DEF StartTask, PoolInv, Capacity
    <3>3. config.limit # NotANumber =>
             Cardinality(executing') <= Capacity /\ (~racing' => Cardinality(executing') < Capacity)
      <4>1. config.limit # NotANumber => Capacity \in Nat /\ (Capacity = config.limit \/ Capacity = 1)
        BY <3>1 DEF Capacity
      <4>2. config.limit # NotANumber =>
               Cardinality(executing') \in Nat /\ Cardinality(executing') <= Capacity
        BY <2>3, <3>2, <4>1
      <4>3. config.limit # NotANumber /\ ~racing' => Cardinality(executing') < config.limit
        <5> SUFFICES ASSUME config.limit # NotANumber, ~racing' PROVE Cardinality(executing') < config.limit
          OBVIOUS
        <5>1. ~Full(Cardinality(executing'))
          BY <2>2
        <5> QED
          BY <3>1, <4>2, <5>1 DEF Full
      <4>4. config.limit # NotANumber /\ ~racing' => Capacity = config.limit
        BY <3>1, <4>2, <4>3 DEF Capacity
      <4> QED
        BY <3>2, <4>2, <4>3, <4>4
    <3>4. executing' # {} /\ phase' \in {"bench", "judge"} /\ config' = config
      BY <1>2, <2>2 DEF StartTask
    <3> QED
      BY <3>2, <3>3, <3>4 DEF PoolInv
  <2>6. BenchInv'
    <3> SUFFICES ASSUME phase = "bench" PROVE BenchInv'
      BY <1>2 DEF StartTask, BenchInv
    <3>1. i = NPrompts - Len(pending) + 1 /\ Len(pending) \in Nat \ {0}
      BY <1>2 DEF BenchInv, StartTask, DiagTypeOK
    <3>2. i \notin executing
      BY <3>1, DiagAssumption DEF BenchInv, DiagTypeOK, Prompts
    <3>3. pending' = Tail(pending) /\ benchResults' = benchResults
      BY <1>2 DEF StartTask
    <3>4. Len(pending') = Len(pending) - 1
          /\ \A k \in 1..Len(pending') : pending'[k] = NPrompts - Len(pending') + k
      BY <2>1, <3>1, <3>3, DiagAssumption DEF BenchInv
    <3>5. \A j \in executing' : j <= NPrompts - Len(pending')
      BY <2>2, <3>1, <3>4, DiagAssumption DEF BenchInv, DiagTypeOK, Prompts
    <3>6. Len(benchResults) \in Nat
      BY DEF DiagTypeOK
    <3>7. Len(benchResults') + Cardinality(executing') + Len(pending') = NPrompts
      BY <2>3, <3>1, <3>2, <3>3, <3>4, <3>6, DiagAssumption DEF BenchInv
    <3>8. Len(pending') <= NPrompts
      BY <3>1, <3>4, DiagAssumption DEF BenchInv
    <3> QED
      BY <3>4, <3>5, <3>7, <3>8 DEF BenchInv
  <2>7. ScoresInv' /\ CardInv'
    BY <1>2 DEF StartTask, ScoresInv, CardInv, AnsweredNow
  <2> QED
    BY <2>4, <2>5, <2>6, <2>7
<1>3. CASE BenchDone
  BY <1>3 DEF BenchDone, PoolEmpty, DiagTypeOK, PoolInv, BenchInv, ScoresInv, CardInv, AnsweredNow,
              Capacity
<1>4. CASE Check
  <2>1. toCheck # <<>> /\ toCheck \in Seq(Result) /\ phase = "check"
    BY <1>4 DEF Check, DiagTypeOK
  <2> DEFINE r == Head(toCheck)
  <2>2. r \in Result /\ r = toCheck[1] /\ 1 \in DOMAIN toCheck
        /\ toCheck' = Tail(toCheck) /\ toCheck' \in Seq(Result)
        /\ \A k \in DOMAIN toCheck' : k + 1 \in DOMAIN toCheck /\ toCheck'[k] = toCheck[k + 1]
    BY <1>4, <2>1 DEF Check
  <2>3. CASE UNCHANGED dir
    BY <1>4, <2>1, <2>2, <2>3 DEF Check, DiagTypeOK, PoolInv, BenchInv, ScoresInv, CardInv, AnsweredNow,
                                  Capacity
  <2>4. CASE r.success /\ dir' = [dir EXCEPT ![r.prompt].check = Written(TRUE)]
    <3>1. r.prompt \in Prompts /\ dir[r.prompt].test.run = runNo
      BY <2>2, <2>4 DEF ScoresInv, AnsweredNow, Result
    <3>2. UNCHANGED <<runNo, config, phase, pending, executing, racing, benchResults, scorecard>>
      BY <1>4 DEF Check
    <3>3. SafeWrite
      BY <2>4, <3>1, <3>2, WriteHolds
    <3>4. DiagTypeOK' /\ PoolInv' /\ BenchInv' /\ CardInv'
      BY <2>1, <2>2, <3>2, <3>3 DEF DiagTypeOK, PoolInv, BenchInv, CardInv, Capacity
    <3>5. AnsweredNow(benchResults)'
      BY <3>2, <3>3 DEF AnsweredNow, ScoresInv, DiagTypeOK
    <3>6. AnsweredNow(toCheck)'
      BY <2>2, <3>2, <3>3 DEF AnsweredNow, ScoresInv, DiagTypeOK
    <3> QED
      BY <2>1, <3>2, <3>3, <3>4, <3>5, <3>6 DEF ScoresInv
  <2> QED
    BY <1>4, <2>3, <2>4 DEF Check
<1>5. CASE CheckDone
  <2>1. [k \in DOMAIN benchResults |-> benchResults[k].prompt] \in Seq(Prompts)
    <3>1. \A k \in 1..Len(benchResults) : benchResults[k].prompt \in Prompts
      <4>1. \A k \in 1..Len(benchResults) : benchResults[k] \in Result
        BY DEF DiagTypeOK
      <4> QED
        BY <4>1 DEF Result
    <3>2. DOMAIN benchResults = 1..Len(benchResults) /\ Len(benchResults) \in Nat
      BY DEF DiagTypeOK
    <3> QED
      BY <3>1, <3>2
  <2>2. DiagTypeOK'
    BY <1>5, <2>1 DEF CheckDone, DiagTypeOK
  <2> QED
    BY <1>5, <2>2 DEF CheckDone, PoolInv, BenchInv, ScoresInv, CardInv, AnsweredNow, Capacity
<1>6. CASE JudgeDone
  BY <1>6 DEF JudgeDone, PoolEmpty, DiagTypeOK, PoolInv, BenchInv, ScoresInv, CardInv, AnsweredNow,
              Capacity
<1>7. CASE Assemble
  <2>1. \A i \in Prompts :
          Loaded(i).test # 0 => /\ Loaded(i).check <= Loaded(i).test
                                /\ Loaded(i).judge <= Loaded(i).test
    BY DEF Loaded, ScoresInv, DiagTypeOK, Outputs, OutputFile
  <2>2. CardInv'
    BY <1>7, <2>1 DEF Assemble, CardInv, Prompts
  <2> QED
    BY <1>7, <2>2 DEF Assemble, DiagTypeOK, PoolInv, BenchInv, ScoresInv, AnsweredNow, Capacity
<1>8. CASE DiagDies
  <2>1. /\ phase' = "idle" /\ pending' = <<>> /\ executing' = {} /\ racing' = FALSE /\ toCheck' = <<>>
        /\ UNCHANGED <<runNo, config, benchResults, scorecard>>
    BY <1>8 DEF DiagDies
  <2>0. /\ runNo' \in Nat /\ config' \in Configs /\ executing' \in SUBSET Prompts /\ racing' \in BOOLEAN
        /\ pending' \in Seq(Prompts) /\ toCheck' \in Seq(Result) /\ benchResults' \in Seq(Result)
    <3>1. pending' \in Seq(Prompts) /\ toCheck' \in Seq(Result)
      BY <2>1
    <3>2. executing' \in SUBSET Prompts /\ racing' \in BOOLEAN
      BY <2>1
    <3> QED
      BY <2>1, <3>1, <3>2 DEF DiagTypeOK
  <2>2. PoolInv' /\ BenchInv' /\ CardInv'
    <3>1. config.limit # NotANumber => config.limit \in Nat
      BY DiagAssumption DEF DiagTypeOK
    <3> QED
      BY <2>1, <3>1, FS_EmptySet DEF PoolInv, BenchInv, CardInv, Capacity
  <2>3. CASE UNCHANGED dir
    <3>1. DiagTypeOK'
      BY <2>0, <2>1, <2>3 DEF DiagTypeOK
    <3>2. ScoresInv'
      BY <2>1, <2>3 DEF ScoresInv, AnsweredNow
    <3> QED
      BY <2>2, <3>1, <3>2
  <2>4. ASSUME NEW i \in Prompts,
               \/ dir' = [dir EXCEPT ![i].test = Written(FALSE)]
               \/ /\ dir[i].test.run = runNo
                  /\ \/ dir' = [dir EXCEPT ![i].check = Written(FALSE)]
                     \/ dir' = [dir EXCEPT ![i].judge = Written(FALSE)]
        PROVE  DiagInv'
    <3>1. SafeWrite
      <4>1. CASE dir' = [dir EXCEPT ![i].test = Written(FALSE)]
        BY <2>1, <4>1, WriteHolds
      <4>2. CASE dir[i].test.run = runNo /\ dir' = [dir EXCEPT ![i].check = Written(FALSE)]
        BY <2>1, <4>2, WriteHolds
      <4>3. CASE dir[i].test.run = runNo /\ dir' = [dir EXCEPT ![i].judge = Written(FALSE)]
        BY <2>1, <4>3, WriteHolds
      <4> QED
        BY <2>4, <4>1, <4>2, <4>3
    <3>2. DiagTypeOK'
      BY <2>0, <2>1, <3>1 DEF DiagTypeOK
    <3>3. AnsweredNow(benchResults)'
      BY <2>1, <3>1 DEF AnsweredNow, ScoresInv, DiagTypeOK
    <3>4. AnsweredNow(toCheck)'
      BY <2>1 DEF AnsweredNow
    <3> QED
      BY <2>1, <2>2, <3>1, <3>2, <3>3, <3>4 DEF ScoresInv
  <2>5. ASSUME NEW i \in executing, phase = "judge", Judgeable(i),
               dir' = [dir EXCEPT ![i].judge = Written(FALSE)]
        PROVE  DiagInv'
    BY <2>4, <2>5, JudgedAnswered DEF DiagTypeOK
  <2>6. ASSUME toCheck # <<>>, Head(toCheck).success,
               dir' = [dir EXCEPT ![Head(toCheck).prompt].check = Written(FALSE)]
        PROVE  DiagInv'
    <3>1. Head(toCheck).prompt \in Prompts /\ dir[Head(toCheck).prompt].test.run = runNo
      <4>1. Head(toCheck) = toCheck[1] /\ 1 \in DOMAIN toCheck /\ toCheck[1] \in Result
        BY <2>6 DEF DiagTypeOK
      <4> QED
        BY <2>6, <4>1 DEF ScoresInv, AnsweredNow, Result
    <3> QED
      BY <2>4, <2>6, <3>1
  <2>7. ASSUME NEW i \in executing, dir' = [dir EXCEPT ![i].test = Written(FALSE)]
        PROVE  DiagInv'
    BY <2>4, <2>7 DEF DiagTypeOK
  <2> QED
    BY <1>8, <2>3, <2>5, <2>6, <2>7 DEF DiagDies
<1>9. ASSUME NEW i \in Prompts, AgentWrites(i) PROVE DiagInv'
  <2>1. /\ dir' \in [Prompts -> Outputs]
        /\ \A j \in Prompts : /\ dir'[j].test = dir[j].test /\ dir'[j].check = dir[j].check
                              /\ dir'[j].judge = dir[j].judge
    BY <1>9 DEF AgentWrites, DiagTypeOK, Outputs
  <2>2. UNCHANGED <<runNo, config, phase, pending, executing, racing, benchResults, toCheck, scorecard>>
    BY <1>9 DEF AgentWrites
  <2>3. DiagTypeOK' /\ PoolInv' /\ BenchInv' /\ CardInv'
    BY <2>1, <2>2 DEF DiagTypeOK, PoolInv, BenchInv, CardInv, Capacity
  <2>4. ScoresInv'
    <3>1. /\ \A k \in DOMAIN benchResults : benchResults[k].prompt \in Prompts
          /\ \A k \in DOMAIN toCheck : toCheck[k].prompt \in Prompts
      <4>1. /\ \A k \in DOMAIN benchResults : benchResults[k] \in Result
            /\ \A k \in DOMAIN toCheck : toCheck[k] \in Result
        BY DEF DiagTypeOK
      <4> QED
        BY <4>1 DEF Result
    <3> QED
      BY <2>1, <2>2, <3>1 DEF ScoresInv, AnsweredNow
  <2> QED
    BY <2>3, <2>4
<1>10. ASSUME NEW i \in Prompts, BenchEnds(i) PROVE DiagInv'
  <2>1. /\ phase = "bench" /\ i \in executing /\ Leave(i)
        /\ UNCHANGED <<runNo, config, phase, pending, toCheck, scorecard>>
    BY <1>10 DEF BenchEnds
  <2>2. PICK ok \in BOOLEAN :
          /\ benchResults' = Append(benchResults, [prompt |-> i, success |-> ok])
          /\ \/ UNCHANGED dir /\ ~ok
             \/ \E written \in BOOLEAN : dir' = [dir EXCEPT ![i].test = Written(written)]
    BY <1>10 DEF BenchEnds
  <2>3. PoolInv' /\ executing' \in SUBSET Prompts /\ racing' \in BOOLEAN
    BY <2>1, LeaveHolds
  <2>4. benchResults' \in Seq(Result) /\ Len(benchResults') = Len(benchResults) + 1
        /\ \A k \in DOMAIN benchResults' :
             \/ k \in DOMAIN benchResults /\ benchResults'[k] = benchResults[k]
             \/ benchResults'[k] = [prompt |-> i, success |-> ok]
    BY <2>2 DEF DiagTypeOK, Result
  <2>5. BenchInv'
    <3>1. Cardinality(executing') = Cardinality(executing) - 1 /\ Cardinality(executing) \in Nat
      BY <2>1, PoolCounts DEF Leave
    <3>2. \A j \in executing' : j \in executing
      BY <2>1 DEF Leave
    <3> QED
      BY <2>1, <2>4, <3>1, <3>2, DiagAssumption DEF BenchInv, DiagTypeOK
  <2>6. SafeWrite /\ (ok => dir'[i].test.run = runNo)
    <3>1. CASE UNCHANGED dir /\ ~ok
      BY <3>1 DEF DiagTypeOK, ScoresInv
    <3>2. ASSUME NEW written \in BOOLEAN, dir' = [dir EXCEPT ![i].test = Written(written)]
          PROVE  SafeWrite /\ dir'[i].test.run = runNo
      BY <2>1, <3>2, WriteHolds
    <3> QED
      BY <2>2, <3>1, <3>2
  <2>7. DiagTypeOK'
    BY <2>1, <2>3, <2>4, <2>6 DEF DiagTypeOK
  <2>8. AnsweredNow(benchResults)'
    <3> SUFFICES ASSUME NEW k \in DOMAIN benchResults', benchResults'[k].success
                 PROVE  dir'[benchResults'[k].prompt].test.run = runNo'
      BY DEF AnsweredNow
    <3>1. CASE k \in DOMAIN benchResults /\ benchResults'[k] = benchResults[k]
      <4>1. benchResults[k] \in Result /\ dir[benchResults[k].prompt].test.run = runNo
        BY <3>1 DEF AnsweredNow, ScoresInv, DiagTypeOK
      <4>2. benchResults[k].prompt \in Prompts
        BY <4>1 DEF Result
      <4> QED
        BY <2>1, <2>6, <3>1, <4>1, <4>2 DEF SafeWrite
    <3>2. CASE benchResults'[k] = [prompt |-> i, success |-> ok]
      BY <2>1, <2>6, <3>2
    <3> QED
      BY <2>4, <3>1, <3>2
  <2>9. AnsweredNow(toCheck)'
    BY <2>1, <2>6 DEF AnsweredNow, ScoresInv, DiagTypeOK
  <2>10. CardInv'
    BY <2>1 DEF CardInv
  <2> QED
    BY <2>1, <2>3, <2>5, <2>6, <2>7, <2>8, <2>9, <2>10 DEF ScoresInv
<1>11. ASSUME NEW i \in Prompts, JudgeEnds(i) PROVE DiagInv'
  <2>1. /\ phase = "judge" /\ i \in executing /\ Leave(i)
        /\ UNCHANGED <<runNo, config, phase, pending, benchResults, toCheck, scorecard>>
    BY <1>11 DEF JudgeEnds
  <2>2. PoolInv' /\ executing' \in SUBSET Prompts /\ racing' \in BOOLEAN
    BY <2>1, LeaveHolds
  <2>3. SafeWrite
    <3>1. CASE UNCHANGED dir
      BY <3>1 DEF DiagTypeOK, ScoresInv
    <3>2. ASSUME NEW ok \in BOOLEAN, Judgeable(i), dir' = [dir EXCEPT ![i].judge = Written(ok)]
          PROVE  SafeWrite
      BY <2>1, <3>2, WriteHolds, JudgedAnswered
    <3> QED
      BY <1>11, <3>1, <3>2 DEF JudgeEnds
  <2>4. DiagTypeOK'
    BY <2>1, <2>2, <2>3 DEF DiagTypeOK
  <2>5. AnsweredNow(benchResults)' /\ AnsweredNow(toCheck)'
    BY <2>1, <2>3 DEF AnsweredNow, ScoresInv, DiagTypeOK
  <2>6. BenchInv' /\ CardInv'
    BY <2>1 DEF BenchInv, CardInv
  <2> QED
    BY <2>1, <2>2, <2>3, <2>4, <2>5, <2>6 DEF ScoresInv
<1>12. CASE UNCHANGED diagVars
  BY <1>12 DEF diagVars, DiagTypeOK, PoolInv, BenchInv, ScoresInv, CardInv, AnsweredNow, Capacity
<1> QED
  BY <1>1, <1>2, <1>3, <1>4, <1>5, <1>6, <1>7, <1>8, <1>9, <1>10, <1>11, <1>12
  DEF DiagNext, Prompts

(* However often a version is run over its own leftovers and wherever a run    *)
(* dies, with any --limit: no score is newer than the answer it is shown       *)
(* beside, no prompt is lost or asked twice and the pool never overflows.      *)
THEOREM NoScoreIsNewer == DiagSpec => []ScoresFollowAnswers
<1> QED
  BY DiagInitial, DiagInductive, DiagImplies, PTL DEF DiagSpec

(* -------------------------------------------------------------------------- *)
(* The ingest: for any histories whose commits have a sha each and name a path *)
(* once, however much of them is pushed meanwhile, and however often requests  *)
(* fail and writes of the cache are torn.  A completed corpus is right because *)
(* at every moment it is what the files read so far amount to, and because a   *)
(* cache file that can be read is what GitHub would have answered.             *)

IsPushed(shas) ==
  \E n \in 1..published : shas = SubSeq(history, Len(history) - n + 1, Len(history))

CacheInv ==
  /\ DOMAIN cache = Keys(history)
  /\ cache[<<"commits">>] \in {NoEntry, Torn} \/ IsPushed(cache[<<"commits">>])
  /\ \A c \in Range(history) : \A f \in Range(c.files) :
       cache[<<f.path, c.sha>>] \in {NoEntry, Torn, f.content}

(* The commit at hand, and the files of the listed commits read so far.        *)
AtHand == Len(listed) - Len(commits)

Holds(i, k)   == i \in DOMAIN listed /\ k \in DOMAIN listed[i].files
PathOf(i, k)  == listed[i].files[k].path
WasRead(i, k) ==
  /\ Holds(i, k)
  /\ i < AtHand \/ (i = AtHand /\ k <= Len(listed[i].files) - Len(files))

(* A file goes into the corpus when no newer commit names its path, it has     *)
(* content there and a language.                                               *)
NamedBefore(i, path) ==
  \E j \in DOMAIN listed : j < i /\ \E q \in DOMAIN listed[j].files : PathOf(j, q) = path
Counts(i, k) ==
  /\ ~NamedBefore(i, PathOf(i, k))
  /\ listed[i].files[k].content # Gone /\ listed[i].files[k].language
Entry(i, k) == [path    |-> PathOf(i, k),
                content |-> listed[i].files[k].content,
                sha     |-> listed[i].sha]

ListInv ==
  /\ IsPushed(listed) /\ Len(commits) <= Len(listed) /\ commits \in Seq(Range(history))
  /\ \A k \in DOMAIN commits : commits[k] = listed[AtHand + k]

Touched   == UNION {Range(c.files) : c \in Range(history)}
FileEntry == [file : Touched, sha : {c.sha : c \in Range(history)}]
Collected == [path    : {f.path : f \in Touched},
              content : {f.content : f \in Touched},
              sha     : {c.sha : c \in Range(history)}]

FilesInv ==
  /\ files \in Seq(FileEntry)
  /\ files # <<>> =>
       /\ AtHand \in DOMAIN listed /\ Len(files) <= Len(listed[AtHand].files)
       /\ \A k \in DOMAIN files :
            LET q == Len(listed[AtHand].files) - Len(files) + k
            IN files[k] = [file |-> listed[AtHand].files[q], sha |-> listed[AtHand].sha]

ReadIsSeen == \A i, k \in Nat : WasRead(i, k) => PathOf(i, k) \in seenPaths
SeenWasRead == \A p \in seenPaths : \E i, k \in Nat : WasRead(i, k) /\ PathOf(i, k) = p
SeenInv == ReadIsSeen /\ SeenWasRead

InCorpus == {corpus[n] : n \in DOMAIN corpus}

ReadIsIn == \A i, k \in Nat : WasRead(i, k) /\ Counts(i, k) => Entry(i, k) \in InCorpus
InWasRead == \A x \in InCorpus : \E i, k \in Nat : WasRead(i, k) /\ Counts(i, k) /\ x = Entry(i, k)
CorpusInv ==
  /\ corpus \in Seq(Collected) /\ ReadIsIn /\ InWasRead
  /\ IsFiniteSet(InCorpus) /\ Len(corpus) = Cardinality(InCorpus)

IngestInv ==
  /\ history \in Histories /\ published \in 1..Len(history)
  /\ step \in {"idle", "list", "commits", "done"}
  /\ CacheInv
  /\ step = "list" =>
       commits = <<>> /\ listed = <<>> /\ files = <<>> /\ seenPaths = {} /\ corpus = <<>>
  /\ step \in {"commits", "done"} => ListInv /\ FilesInv /\ SeenInv /\ CorpusInv
  /\ step = "done" => commits = <<>> /\ files = <<>>

(* A list that was pushed is made of commits of the history.                   *)
LEMMA PushedListed ==
  ASSUME history \in Histories, published \in 1..Len(history), NEW l, IsPushed(l)
  PROVE  /\ l \in Seq(Range(history)) /\ Range(l) \subseteq Range(history)
         /\ \A i \in DOMAIN l : /\ l[i] \in Range(history)
                                /\ l[i].files \in Seq(Range(l[i].files))
<1>1. PICK n \in 1..published : l = SubSeq(history, Len(history) - n + 1, Len(history))
  BY DEF IsPushed
<1>2. history \in Seq(Range(history))
  BY HistoryAssumption
<1>3. l \in Seq(Range(history))
  BY <1>1, <1>2
<1>4. \A i \in DOMAIN l : l[i] \in Range(history)
  BY <1>3
<1>5. Range(l) \subseteq Range(history)
  BY <1>4 DEF Range
<1>6. \A c \in Range(history) : c.files \in Seq(Range(c.files))
  BY HistoryAssumption
<1> QED
  BY <1>3, <1>4, <1>5, <1>6

(* Within a commit a path is named once.                                       *)
LEMMA PathNamedOnce ==
  ASSUME history \in Histories, NEW c \in Range(history),
         NEW i \in DOMAIN c.files, NEW j \in DOMAIN c.files, c.files[i].path = c.files[j].path
  PROVE  i = j
BY HistoryAssumption

(* A cache that is written what GitHub has stays right.                        *)
LEMMA StoredRight ==
  ASSUME history \in Histories, CacheInv, NEW c \in Range(history), NEW f \in Range(c.files),
         NEW v \in {f.content, Torn}, UNCHANGED <<history, published>>,
         cache' = [cache EXCEPT ![<<f.path, c.sha>>] = v]
  PROVE  CacheInv'
<1>1. <<"commits">> # <<f.path, c.sha>> /\ <<"commits">> \in DOMAIN cache
  BY DEF CacheInv, Keys
<1>2. cache'[<<"commits">>] = cache[<<"commits">>] /\ DOMAIN cache' = DOMAIN cache
  BY <1>1 DEF CacheInv
<1>3. ASSUME NEW d \in Range(history), NEW g \in Range(d.files)
      PROVE  cache'[<<g.path, d.sha>>] \in {NoEntry, Torn, g.content}
  <2>1. <<g.path, d.sha>> \in DOMAIN cache
    BY DEF CacheInv, Keys
  <2>2. CASE <<g.path, d.sha>> = <<f.path, c.sha>>
    <3>1. d = c
      BY <2>2, HistoryAssumption
    <3>2. g = f
      BY <2>2, <3>1, PathNamedOnce DEF Range
    <3> QED
      BY <2>1, <2>2, <3>2
  <2>3. CASE <<g.path, d.sha>> # <<f.path, c.sha>>
    BY <2>1, <2>3 DEF CacheInv
  <2> QED
    BY <2>2, <2>3
<1>4. (cache[<<"commits">>] \in {NoEntry, Torn} \/ IsPushed(cache[<<"commits">>]))'
  BY <1>2 DEF CacheInv, IsPushed
<1> QED
  BY <1>2, <1>3, <1>4 DEF CacheInv

LEMMA IngestInitial == IngestInit => IngestInv
<1> SUFFICES ASSUME IngestInit PROVE IngestInv
  OBVIOUS
<1>1. CacheInv
  <2>1. <<"commits">> \in Keys(history)
    BY DEF Keys
  <2>2. \A c \in Range(history) : \A f \in Range(c.files) : <<f.path, c.sha>> \in Keys(history)
    BY DEF Keys
  <2> QED
    BY <2>1, <2>2 DEF IngestInit, CacheInv
<1> QED
  BY <1>1 DEF IngestInit, IngestInv

(* A miss is answered by GitHub, a hit by what GitHub had answered.            *)
LEMMA ContentRight ==
  ASSUME CacheInv, NEW c \in Range(history), NEW f \in Range(c.files)
  PROVE  Content(f, c.sha) = f.content
BY DEF CacheInv, Content, Hit

(* The next file is the first of the commit at hand that was not read.         *)
LEMMA NextFile ==
  ASSUME IngestInv, step = "commits", files # <<>>,
         NEW m, m = AtHand, NEW k, k = Len(listed[m].files) - Len(files) + 1
  PROVE  /\ Holds(m, k) /\ m \in Nat /\ k \in Nat
         /\ listed[m] \in Range(history) /\ listed[m].files[k] \in Range(listed[m].files)
         /\ Head(files) = [file |-> listed[m].files[k], sha |-> listed[m].sha]
<1>1. ListInv /\ FilesInv /\ history \in Histories /\ published \in 1..Len(history)
  BY DEF IngestInv
<1>2. listed \in Seq(Range(history)) /\ listed[m] \in Range(history)
      /\ listed[m].files \in Seq(Range(listed[m].files)) /\ m \in DOMAIN listed
  BY <1>1, PushedListed DEF ListInv, FilesInv
<1>3. Len(files) \in Nat \ {0} /\ Head(files) = files[1] /\ 1 \in DOMAIN files
  BY <1>1 DEF FilesInv
<1>4. Len(files) <= Len(listed[m].files)
      /\ files[1] = [file |-> listed[m].files[k], sha |-> listed[m].sha]
  BY <1>1, <1>3 DEF FilesInv
<1>5. k \in 1..Len(listed[m].files)
  BY <1>2, <1>3, <1>4
<1> QED
  BY <1>2, <1>3, <1>4, <1>5 DEF Holds

(* Reading it adds it, and nothing else, to what was read.                     *)
LEMMA ReadsOne ==
  ASSUME IngestInv, step = "commits", files # <<>>,
         NEW m, m = AtHand, NEW k, k = Len(listed[m].files) - Len(files) + 1,
         files' = Tail(files), UNCHANGED <<history, listed, commits>>
  PROVE  /\ FilesInv' 
         /\ \A i, q \in Nat : WasRead(i, q)' <=> (WasRead(i, q) \/ (i = m /\ q = k))
<1>1. ListInv /\ FilesInv /\ history \in Histories /\ published \in 1..Len(history)
  BY DEF IngestInv
<1>2. listed[m].files \in Seq(Range(listed[m].files)) /\ m \in DOMAIN listed /\ listed \in Seq(Range(history))
  BY <1>1, PushedListed DEF ListInv, FilesInv
<1>3. files \in Seq(FileEntry) /\ Len(files) \in Nat \ {0} /\ Len(files) <= Len(listed[m].files)
  BY <1>1 DEF FilesInv
<1>4. /\ files' \in Seq(FileEntry) /\ Len(files') = Len(files) - 1
      /\ \A j \in DOMAIN files' : j + 1 \in DOMAIN files /\ files'[j] = files[j + 1]
  BY <1>3
<1>5. AtHand' = AtHand
  BY DEF AtHand
<1>6. Len(listed[m].files) \in Nat /\ DOMAIN listed[m].files = 1..Len(listed[m].files)
  BY <1>2
<1>7. ASSUME NEW j \in DOMAIN files'
      PROVE  files'[j] = [file |-> listed[m].files[Len(listed[m].files) - Len(files') + j],
                          sha  |-> listed[m].sha]
  <2>1. j + 1 \in DOMAIN files /\ files'[j] = files[j + 1] /\ j \in Nat
    BY <1>4, <1>7
  <2>2. Len(listed[m].files) - Len(files) + (j + 1) = Len(listed[m].files) - Len(files') + j
    <3>1. \A a, b, d \in Int : a - b + (d + 1) = a - (b - 1) + d
      OBVIOUS
    <3>2. Len(files') = Len(files) - 1 /\ Len(files) \in Int
      BY <1>3, <1>4
    <3> QED
      BY <1>6, <2>1, <3>1, <3>2
  <2>3. files[j + 1] = [file |-> listed[m].files[Len(listed[m].files) - Len(files) + (j + 1)],
                        sha  |-> listed[m].sha]
    BY <1>1, <2>1 DEF FilesInv
  <2> QED
    BY <2>1, <2>2, <2>3
<1>8. FilesInv'
  <2>1. Len(files') <= Len(listed[m].files)
    BY <1>3, <1>4, <1>6
  <2> QED
    <3>1. listed' = listed /\ AtHand' = m /\ m \in DOMAIN listed /\ files' \in Seq(FileEntry)
      BY <1>2, <1>4, <1>5
    <3>2. FileEntry' = FileEntry
      BY DEF FileEntry, Touched
    <3> QED
      BY <1>7, <2>1, <3>1, <3>2 DEF FilesInv
<1>9. ASSUME NEW i \in Nat, NEW q \in Nat
      PROVE  WasRead(i, q)' <=> (WasRead(i, q) \/ (i = m /\ q = k))
  <2>1. Holds(i, q)' <=> Holds(i, q)
    BY DEF Holds
  <2>2. q <= Len(listed[m].files) - Len(files') <=> (q <= Len(listed[m].files) - Len(files) \/ q = k)
    BY <1>3, <1>4, <1>6
  <2>3. Holds(m, k)
    BY <1>2, <1>3, <1>6 DEF Holds
  <2> QED
    BY <1>5, <2>1, <2>2, <2>3 DEF WasRead
<1> QED
  BY <1>8, <1>9

(* Reading a file keeps the corpus what the files read amount to.              *)
LEMMA ReadFileHolds == IngestInv /\ ReadFile => IngestInv'
<1> SUFFICES ASSUME IngestInv, ReadFile PROVE IngestInv'
  OBVIOUS
<1>1. /\ step = "commits" /\ files # <<>> /\ files' = Tail(files)
      /\ UNCHANGED <<history, published, cached, ingests, step, commits, listed>>
  BY DEF ReadFile
<1>2. PICK m : m = AtHand
  OBVIOUS
<1>3. PICK k : k = Len(listed[m].files) - Len(files) + 1
  OBVIOUS
<1>4. PICK c \in Range(history) : c = listed[m]
  BY <1>1, <1>2, <1>3, NextFile
<1>5. PICK f \in Range(c.files) : f = listed[m].files[k]
  BY <1>1, <1>2, <1>3, <1>4, NextFile
<1>6. /\ Holds(m, k) /\ m \in Nat /\ k \in Nat
      /\ Head(files).file = f /\ Head(files).sha = c.sha /\ f.path = PathOf(m, k)
  BY <1>1, <1>2, <1>3, <1>4, <1>5, NextFile DEF PathOf
<1>7. /\ FilesInv'
      /\ \A i, q \in Nat : WasRead(i, q)' <=> (WasRead(i, q) \/ (i = m /\ q = k))
  BY <1>1, <1>2, <1>3, ReadsOne
<1>8. /\ history \in Histories /\ published \in 1..Len(history)
      /\ CacheInv /\ ListInv /\ SeenInv /\ CorpusInv
  BY <1>1 DEF IngestInv
<1>9. Content(f, c.sha) = f.content
  BY <1>8, ContentRight
<1>10. ListInv'
  BY <1>1, <1>8 DEF ListInv, IsPushed, AtHand
<1>11. \A i, q \in Nat : /\ PathOf(i, q)' = PathOf(i, q) /\ Entry(i, q)' = Entry(i, q)
                         /\ Counts(i, q)' <=> Counts(i, q)
  BY <1>1 DEF PathOf, Entry, Counts, NamedBefore
<1>12. Collected' = Collected
  BY <1>1 DEF Collected, Touched
<1>13. ReadIsSeen /\ SeenWasRead /\ ReadIsIn /\ InWasRead
  BY <1>8 DEF SeenInv, CorpusInv
<1>14. \A i, q \in Nat : WasRead(i, q)' <=> (WasRead(i, q) \/ (i = m /\ q = k))
  BY <1>7
<1>15. CASE f.path \in seenPaths
  <2>1. UNCHANGED <<cache, seenPaths, corpus>>
    BY <1>6, <1>15 DEF ReadFile
  <2>2. SeenInv'
    <3>1. ReadIsSeen'
      <4> SUFFICES ASSUME NEW i \in Nat, NEW q \in Nat, WasRead(i, q)'
                   PROVE  PathOf(i, q)' \in seenPaths'
        BY DEF ReadIsSeen
      <4>1. PathOf(i, q)' = PathOf(i, q) /\ seenPaths' = seenPaths
        BY <1>11, <2>1
      <4>2. CASE WasRead(i, q)
        BY <1>13, <4>1, <4>2 DEF ReadIsSeen
      <4>3. CASE i = m /\ q = k
        BY <1>6, <1>15, <4>1, <4>3
      <4> QED
        BY <1>14, <4>2, <4>3
    <3>2. SeenWasRead'
      BY <1>11, <1>13, <1>14, <2>1 DEF SeenWasRead
    <3> QED
      BY <3>1, <3>2 DEF SeenInv
  <2>0. ~WasRead(m, k)
    <3>1. Len(c.files) \in Nat /\ Len(files) \in Nat
      BY <1>1, <1>8, HistoryAssumption DEF IngestInv, FilesInv
    <3>2. ~(k <= Len(c.files) - Len(files)) /\ ~(m < AtHand)
      BY <1>2, <1>3, <1>4, <1>6, <3>1
    <3> QED
      BY <1>4, <3>2 DEF WasRead
  <2>3. ~Counts(m, k)
    <3>1. PICK i, q \in Nat : WasRead(i, q) /\ PathOf(i, q) = f.path
      BY <1>13, <1>15 DEF SeenWasRead
    <3>2. CASE i = m
      <4>1. q = k
        BY <1>4, <1>6, <1>8, <3>1, <3>2, PathNamedOnce DEF WasRead, Holds, PathOf
      <4> QED
        BY <2>0, <3>1, <3>2, <4>1
    <3>3. CASE i < m
      BY <1>6, <3>1, <3>3 DEF Counts, NamedBefore, WasRead, Holds
    <3> QED
      BY <1>2, <3>1, <3>2, <3>3 DEF WasRead
  <2>4. CorpusInv'
    <3>1. InCorpus' = InCorpus
      BY <2>1 DEF InCorpus
    <3>2. ReadIsIn'
      BY <1>11, <1>13, <1>14, <2>3, <3>1 DEF ReadIsIn
    <3>3. InWasRead'
      BY <1>11, <1>13, <1>14, <3>1 DEF InWasRead
    <3> QED
      BY <1>8, <1>12, <2>1, <3>1, <3>2, <3>3 DEF CorpusInv
  <2>5. CacheInv'
    BY <1>1, <1>8, <2>1 DEF CacheInv, IsPushed
  <2> QED
    BY <1>1, <1>7, <1>8, <1>10, <2>2, <2>4, <2>5 DEF IngestInv
<1>16. CASE f.path \notin seenPaths
  <2>1. /\ seenPaths' = seenPaths \cup {f.path}
        /\ cache' = (IF f.content = Gone THEN cache ELSE Stored(<<f.path, c.sha>>, f.content))
        /\ corpus' = (IF f.content = Gone \/ ~f.language THEN corpus ELSE Append(corpus, Entry(m, k)))
    BY <1>4, <1>5, <1>6, <1>9, <1>16 DEF ReadFile, Marks, Entry
  <2>2. SeenInv'
    <3>1. ReadIsSeen'
      BY <1>6, <1>11, <1>13, <1>14, <2>1 DEF ReadIsSeen
    <3>2. SeenWasRead'
      BY <1>6, <1>11, <1>13, <1>14, <2>1 DEF SeenWasRead
    <3> QED
      BY <3>1, <3>2 DEF SeenInv
  <2>3. CacheInv'
    <3>1. CASE cache' = cache
      BY <1>1, <1>8, <3>1 DEF CacheInv, IsPushed
    <3>2. CASE cache' = [cache EXCEPT ![<<f.path, c.sha>>] = f.content]
      BY <1>1, <1>8, <3>2, StoredRight
    <3> QED
      BY <2>1, <3>1, <3>2 DEF Stored
  <2>4. ~NamedBefore(m, f.path)
    <3> SUFFICES ASSUME NamedBefore(m, f.path) PROVE FALSE
      OBVIOUS
    <3>1. PICK j \in DOMAIN listed : j < m /\ \E q \in DOMAIN listed[j].files : PathOf(j, q) = f.path
      BY DEF NamedBefore
    <3>2. PICK q \in DOMAIN listed[j].files : PathOf(j, q) = f.path
      BY <3>1
    <3>3. WasRead(j, q) /\ j \in Nat /\ q \in Nat
      BY <1>2, <1>8, <3>1, <3>2, PushedListed DEF WasRead, Holds, ListInv
    <3> QED
      BY <1>13, <1>16, <3>2, <3>3 DEF ReadIsSeen
  <2>5. Counts(m, k) <=> (f.content # Gone /\ f.language)
    BY <1>5, <1>6, <2>4 DEF Counts
  <2>6. CorpusInv'
    <3>1. CASE corpus' = corpus /\ ~Counts(m, k)
      <4>1. InCorpus' = InCorpus
        BY <3>1 DEF InCorpus
      <4>2. ReadIsIn'
        BY <1>11, <1>13, <1>14, <3>1, <4>1 DEF ReadIsIn
      <4>3. InWasRead'
        BY <1>11, <1>13, <1>14, <4>1 DEF InWasRead
      <4> QED
        BY <1>8, <1>12, <3>1, <4>1, <4>2, <4>3 DEF CorpusInv
    <3>2. CASE corpus' = Append(corpus, Entry(m, k)) /\ Counts(m, k)
      <4>1. Entry(m, k) \in Collected
        BY <1>4, <1>5, <1>6 DEF Entry, PathOf, Collected, Touched
      <4>2. InCorpus' = InCorpus \cup {Entry(m, k)} /\ corpus' \in Seq(Collected)
            /\ Len(corpus') = Len(corpus) + 1
        BY <1>8, <3>2, <4>1 DEF CorpusInv, InCorpus
      <4>3. Entry(m, k) \notin InCorpus
        <5> SUFFICES ASSUME Entry(m, k) \in InCorpus PROVE FALSE
          OBVIOUS
        <5>1. PICK i, q \in Nat : WasRead(i, q) /\ Entry(m, k) = Entry(i, q)
          BY <1>8 DEF CorpusInv, InWasRead
        <5>2. PathOf(i, q) = f.path
          BY <1>6, <5>1 DEF Entry
        <5> QED
          BY <1>13, <1>16, <5>1, <5>2 DEF ReadIsSeen
      <4>4. /\ IsFiniteSet(InCorpus') /\ Len(corpus') = Cardinality(InCorpus')
        BY <1>8, <4>2, <4>3, FS_AddElement DEF CorpusInv
      <4>5. ReadIsIn'
        BY <1>11, <1>13, <1>14, <4>2 DEF ReadIsIn
      <4>6. InWasRead'
        <5> SUFFICES ASSUME NEW x \in InCorpus'
                     PROVE  \E i, q \in Nat : WasRead(i, q)' /\ Counts(i, q)' /\ x = Entry(i, q)'
          BY DEF InWasRead
        <5>1. CASE x = Entry(m, k)
          BY <1>6, <1>11, <1>14, <3>2, <5>1
        <5>2. CASE x \in InCorpus
          BY <1>11, <1>13, <1>14, <5>2 DEF InWasRead
        <5> QED
          BY <4>2, <5>1, <5>2
      <4> QED
        BY <1>12, <4>2, <4>4, <4>5, <4>6 DEF CorpusInv
    <3> QED
      BY <2>1, <2>5, <3>1, <3>2
  <2> QED
    BY <1>1, <1>7, <1>8, <1>10, <2>2, <2>3, <2>6 DEF IngestInv
<1> QED
  BY <1>15, <1>16

(* A further push leaves every list that was pushed one.                       *)
LEMMA PushKeepsLists ==
  ASSUME published \in Nat, published' = published + 1, UNCHANGED history, NEW l, IsPushed(l)
  PROVE  IsPushed(l)'
<1>1. PICK n \in 1..published : l = SubSeq(history, Len(history) - n + 1, Len(history))
  BY DEF IsPushed
<1>2. n \in 1..published'
  OBVIOUS
<1> QED
  BY <1>1, <1>2 DEF IsPushed

(* With a new list, or before the files of the next commit, nothing is read.   *)
LEMMA ListTaken ==
  ASSUME IngestInv, FetchCommitShas PROVE IngestInv'
<1>1. /\ history \in Histories /\ published \in 1..Len(history) /\ CacheInv /\ step = "list"
      /\ commits = <<>> /\ listed = <<>> /\ files = <<>> /\ seenPaths = {} /\ corpus = <<>>
  BY DEF IngestInv, FetchCommitShas
<1>2. /\ step' = "commits" /\ listed' = commits'
      /\ UNCHANGED <<history, published, cached, ingests, files, seenPaths, corpus>>
  BY DEF FetchCommitShas
<1>3. IsPushed(Pushed)
  <2>1. Len(history) \in Nat
    BY <1>1, HistoryAssumption
  <2>2. published \in 1..published
    BY <1>1, <2>1
  <2> QED
    BY <2>2 DEF IsPushed, Pushed
<1>4. IsPushed(listed') /\ (cache' = cache \/ cache' = [cache EXCEPT ![<<"commits">>] = Pushed])
  BY <1>1, <1>3 DEF FetchCommitShas, Hit, Stored, CacheInv
<1>5. CacheInv'
  <2>1. <<"commits">> \in DOMAIN cache
    BY <1>1 DEF CacheInv, Keys
  <2>2. \A c \in Range(history) : \A f \in Range(c.files) : cache'[<<f.path, c.sha>>] = cache[<<f.path, c.sha>>]
    <3>1. \A c \in Range(history) : \A f \in Range(c.files) :
             <<f.path, c.sha>> \in DOMAIN cache /\ <<f.path, c.sha>> # <<"commits">>
      BY <1>1 DEF CacheInv, Keys
    <3> QED
      BY <1>4, <3>1
  <2>3. cache'[<<"commits">>] \in {NoEntry, Torn} \/ IsPushed(cache'[<<"commits">>])
    BY <1>1, <1>3, <1>4, <2>1 DEF CacheInv
  <2>4. DOMAIN cache' = DOMAIN cache
    BY <1>4
  <2> QED
    BY <1>1, <1>2, <2>2, <2>3, <2>4 DEF CacheInv, IsPushed
<1>6. ListInv'
  <2>1. listed' \in Seq(Range(history))
    BY <1>1, <1>4, PushedListed
  <2>2. AtHand' = 0
    BY <1>2, <2>1 DEF AtHand
  <2> QED
    BY <1>2, <1>4, <2>1, <2>2 DEF ListInv, IsPushed
<1>7. \A i, k \in Nat : ~WasRead(i, k)'
  <2>1. AtHand' = 0 /\ listed' \in Seq(Range(history))
    BY <1>1, <1>2, <1>4, PushedListed DEF AtHand
  <2> QED
    BY <2>1 DEF WasRead, Holds
<1>8. FilesInv' /\ SeenInv'
  <2>1. files' = <<>> /\ seenPaths' = {}
    BY <1>1, <1>2
  <2> QED
    BY <1>7, <2>1 DEF FilesInv, SeenInv, ReadIsSeen, SeenWasRead
<1>9. CorpusInv'
  <2>1. corpus' = <<>> /\ InCorpus' = {}
    BY <1>1, <1>2 DEF InCorpus
  <2> QED
    BY <1>7, <2>1, FS_EmptySet DEF CorpusInv, ReadIsIn, InWasRead
<1> QED
  BY <1>1, <1>2, <1>5, <1>6, <1>8, <1>9 DEF IngestInv

LEMMA CommitOpened ==
  ASSUME IngestInv, FetchCommitFiles PROVE IngestInv'
<1>1. /\ history \in Histories /\ published \in 1..Len(history) /\ CacheInv /\ step = "commits"
      /\ ListInv /\ FilesInv /\ SeenInv /\ CorpusInv /\ files = <<>> /\ commits # <<>>
  BY DEF IngestInv, FetchCommitFiles
<1>2. /\ commits' = Tail(commits)
      /\ UNCHANGED <<history, published, cached, cache, ingests, step, listed, seenPaths, corpus>>
  BY DEF FetchCommitFiles
<1>3. listed \in Seq(Range(history)) /\ \A i \in DOMAIN listed : listed[i].files \in Seq(Range(listed[i].files))
  BY <1>1, PushedListed DEF ListInv
<1>4. /\ commits' \in Seq(Range(history)) /\ Len(commits') = Len(commits) - 1
      /\ Len(commits) \in Nat \ {0} /\ Len(listed) \in Nat /\ Len(commits) <= Len(listed)
      /\ \A k \in DOMAIN commits' : k + 1 \in DOMAIN commits /\ commits'[k] = commits[k + 1]
      /\ Head(commits) = commits[1] /\ 1 \in DOMAIN commits
  BY <1>1, <1>2, <1>3 DEF ListInv
<1>5. AtHand' = AtHand + 1 /\ AtHand \in Nat /\ AtHand + 1 \in DOMAIN listed
  BY <1>2, <1>3, <1>4 DEF AtHand
<1>6. Head(commits) = listed[AtHand']
  BY <1>1, <1>4, <1>5 DEF ListInv
<1>7. ListInv'
  <2>1. \A k \in DOMAIN commits' : commits'[k] = listed[AtHand' + k]
    <3>1. \A k \in Nat : AtHand + (k + 1) = (AtHand + 1) + k
      BY <1>5
    <3>2. \A k \in DOMAIN commits' : k \in Nat
      BY <1>4
    <3> QED
      BY <1>1, <1>4, <1>5, <3>1, <3>2 DEF ListInv
  <2>2. IsPushed(listed)'
    BY <1>1, <1>2 DEF ListInv, IsPushed
  <2>3. Len(commits') <= Len(listed)
    BY <1>4
  <2> QED
    BY <1>2, <1>4, <2>1, <2>2, <2>3 DEF ListInv
<1>8. PICK c \in Range(history) : c = listed[AtHand']
  BY <1>3, <1>5
<1>9. /\ files' = [i \in DOMAIN c.files |-> [file |-> c.files[i], sha |-> c.sha]]
      /\ c.files \in Seq(Range(c.files))
  BY <1>3, <1>5, <1>6, <1>8 DEF FetchCommitFiles
<1>10. /\ Len(files') = Len(c.files) /\ DOMAIN files' = DOMAIN c.files
       /\ files' \in Seq(FileEntry) /\ Len(c.files) \in Nat
  <2>1. \A i \in 1..Len(c.files) : [file |-> c.files[i], sha |-> c.sha] \in FileEntry
    BY <1>9 DEF FileEntry, Touched, Range
  <2> QED
    BY <1>9, <2>1
<1>11. FilesInv'
  <2>1. \A k \in DOMAIN files' : Len(c.files) - Len(files') + k = k
    BY <1>10
  <2>2. FileEntry' = FileEntry
    BY <1>2 DEF FileEntry, Touched
  <2> QED
    BY <1>2, <1>5, <1>8, <1>9, <1>10, <2>1, <2>2 DEF FilesInv
<1>12. ASSUME NEW i \in Nat, NEW k \in Nat PROVE WasRead(i, k)' <=> WasRead(i, k)
  <2>1. Holds(i, k)' <=> Holds(i, k)
    BY <1>2 DEF Holds
  <2>2. CASE i = AtHand'
    <3>1. ~(k \in DOMAIN c.files /\ k <= Len(c.files) - Len(files'))
      BY <1>9, <1>10
    <3> QED
      BY <1>2, <1>5, <1>8, <2>2, <3>1 DEF WasRead, Holds
  <2>3. CASE i = AtHand
    <3>1. k \in DOMAIN listed[i].files /\ i \in DOMAIN listed => k <= Len(listed[i].files) - Len(files)
      BY <1>1, <1>3
    <3> QED
      BY <1>5, <2>1, <2>3, <3>1 DEF WasRead, Holds
  <2>4. CASE i # AtHand' /\ i # AtHand
    BY <1>5, <2>1, <2>4 DEF WasRead
  <2> QED
    BY <2>2, <2>3, <2>4
<1>13. \A i, q \in Nat : /\ PathOf(i, q)' = PathOf(i, q) /\ Entry(i, q)' = Entry(i, q)
                         /\ Counts(i, q)' <=> Counts(i, q)
  BY <1>2 DEF PathOf, Entry, Counts, NamedBefore
<1>14. ReadIsSeen' /\ SeenWasRead'
  <2>1. ReadIsSeen'
    BY <1>1, <1>2, <1>12, <1>13 DEF SeenInv, ReadIsSeen
  <2>2. SeenWasRead'
    BY <1>1, <1>2, <1>12, <1>13 DEF SeenInv, SeenWasRead
  <2> QED
    BY <2>1, <2>2
<1>15. CorpusInv'
  <2>1. InCorpus' = InCorpus /\ Collected' = Collected
    BY <1>2 DEF InCorpus, Collected, Touched
  <2>2. ReadIsIn'
    BY <1>1, <1>12, <1>13, <2>1 DEF CorpusInv, ReadIsIn
  <2>3. InWasRead'
    BY <1>1, <1>12, <1>13, <2>1 DEF CorpusInv, InWasRead
  <2> QED
    BY <1>1, <1>2, <2>1, <2>2, <2>3 DEF CorpusInv
<1>16. CacheInv'
  BY <1>1, <1>2 DEF CacheInv, IsPushed
<1> QED
  BY <1>1, <1>2, <1>7, <1>11, <1>14, <1>15, <1>16 DEF IngestInv, SeenInv

LEMMA IngestInductive == IngestInv /\ [IngestNext]_ingestVars => IngestInv'
<1> SUFFICES ASSUME IngestInv, [IngestNext]_ingestVars PROVE IngestInv'
  OBVIOUS
<1>1. history \in Histories /\ published \in 1..Len(history) /\ Len(history) \in Nat /\ CacheInv
  BY HistoryAssumption DEF IngestInv
<1>2. ASSUME UNCHANGED <<history, commits, listed, files, seenPaths, corpus>>, ListInv, SeenInv, CorpusInv, FilesInv,
             published' = published \/ published' = published + 1
      PROVE  (ListInv /\ SeenInv /\ CorpusInv /\ FilesInv)'
  <2>1. ListInv'
    <3>1. IsPushed(listed)'
      <4>1. CASE published' = published
        BY <1>2, <4>1 DEF ListInv, IsPushed
      <4>2. CASE published' = published + 1
        <5>1. PICK n \in 1..published : listed = SubSeq(history, Len(history) - n + 1, Len(history))
          BY <1>2 DEF ListInv, IsPushed
        <5>2. n \in 1..published'
          BY <1>1, <4>2
        <5> QED
          BY <1>2, <5>1, <5>2 DEF IsPushed
      <4> QED
        BY <1>2, <4>1, <4>2
    <3> QED
      BY <1>2, <3>1 DEF ListInv, AtHand
  <2>2. AtHand' = AtHand /\ FileEntry' = FileEntry /\ Collected' = Collected /\ InCorpus' = InCorpus
    BY <1>2 DEF AtHand, FileEntry, Collected, Touched, InCorpus
  <2>3. FilesInv'
    BY <1>2, <2>2 DEF FilesInv
  <2>4. \A i, k \in Nat : /\ WasRead(i, k)' <=> WasRead(i, k)
                          /\ PathOf(i, k)' = PathOf(i, k) /\ Entry(i, k)' = Entry(i, k)
                          /\ Counts(i, k)' <=> Counts(i, k)
    BY <1>2, <2>2 DEF WasRead, Holds, PathOf, Entry, Counts, NamedBefore
  <2>5. ReadIsSeen' /\ SeenWasRead'
    BY <1>2, <2>4 DEF SeenInv, ReadIsSeen, SeenWasRead
  <2>6. ReadIsIn' /\ InWasRead'
    BY <1>2, <2>2, <2>4 DEF CorpusInv, ReadIsIn, InWasRead
  <2> QED
    BY <1>2, <2>1, <2>2, <2>3, <2>5, <2>6 DEF SeenInv, CorpusInv
<1>3. CASE Push
  <2>1. /\ published < Len(history) /\ published' = published + 1
        /\ UNCHANGED <<history, cached, cache, ingests, step, commits, listed, files, seenPaths, corpus>>
    BY <1>3 DEF Push
  <2>2. CacheInv'
    BY <1>1, <2>1, PushKeepsLists DEF CacheInv
  <2>3. published' \in 1..Len(history)
    BY <1>1, <2>1
  <2> QED
    BY <1>2, <2>1, <2>2, <2>3 DEF IngestInv
<1>4. CASE StartIngest
  BY <1>1, <1>4 DEF StartIngest, IngestInv, CacheInv, IsPushed
<1>5. CASE FetchCommitShas
  BY <1>5, ListTaken
<1>6. CASE FetchCommitFiles
  BY <1>6, CommitOpened
<1>7. CASE ReadFile
  BY <1>7, ReadFileHolds
<1>8. CASE FetchPullRequests
  <2>1. /\ files = <<>> /\ commits = <<>> /\ step = "commits" /\ step' = "done"
        /\ UNCHANGED <<history, published, cached, cache, ingests, commits, listed, files, seenPaths, corpus>>
    BY <1>8 DEF FetchPullRequests
  <2>2. CacheInv'
    BY <1>1, <2>1 DEF CacheInv, IsPushed
  <2> QED
    BY <1>2, <2>1, <2>2 DEF IngestInv
<1>9. CASE IngestDies
  <2>1. step' = "idle" /\ UNCHANGED <<history, published, cached>>
    BY <1>9 DEF IngestDies
  <2>2. \A k \in DOMAIN cache : cache'[k] = cache[k] \/ cache'[k] = Torn
    BY <1>9 DEF IngestDies
  <2>3. DOMAIN cache' = DOMAIN cache
    BY <1>9 DEF IngestDies
  <2>4. <<"commits">> \in DOMAIN cache
        /\ \A c \in Range(history) : \A f \in Range(c.files) : <<f.path, c.sha>> \in DOMAIN cache
    BY <1>1 DEF CacheInv, Keys
  <2>5. CacheInv'
    <3>1. cache'[<<"commits">>] \in {NoEntry, Torn} \/ IsPushed(cache'[<<"commits">>])
      BY <1>1, <2>2, <2>4 DEF CacheInv
    <3> QED
      BY <1>1, <2>1, <2>2, <2>3, <2>4, <3>1 DEF CacheInv, IsPushed
  <2> QED
    BY <1>1, <2>1, <2>5 DEF IngestInv
<1>10. CASE UNCHANGED ingestVars
  <2>1. UNCHANGED <<history, published, cached, cache, ingests, step, commits, listed, files, seenPaths, corpus>>
    BY <1>10 DEF ingestVars
  <2>2. CacheInv'
    BY <1>1, <2>1 DEF CacheInv, IsPushed
  <2> QED
    BY <1>2, <2>1, <2>2 DEF IngestInv
<1> QED
  BY <1>3, <1>4, <1>5, <1>6, <1>7, <1>8, <1>9, <1>10 DEF IngestNext

(* A path some listed commit names has a newest one that does.                 *)
LEMMA NewestNamer ==
  ASSUME history \in Histories, published \in 1..Len(history), IsPushed(listed), NEW p \in Paths(listed)
  PROVE  \E i, k \in Nat : Holds(i, k) /\ PathOf(i, k) = p /\ ~NamedBefore(i, p)
<1> DEFINE T == {i \in DOMAIN listed : \E k \in DOMAIN listed[i].files : PathOf(i, k) = p}
<1>1. listed \in Seq(Range(history)) /\ \A i \in DOMAIN listed : listed[i].files \in Seq(Range(listed[i].files))
  BY PushedListed
<1>2. T \subseteq Nat /\ T # {}
  BY <1>1 DEF Paths, Range, PathOf
<1>3. PICK i \in T : \A j \in T : ~ (<<j, i>> \in OpToRel(<, Nat))
  BY <1>2, NatLessThanWellFounded, WFMin
<1>4. \A j \in T : ~ (j < i)
  BY <1>2, <1>3 DEF OpToRel
<1>5. PICK k \in DOMAIN listed[i].files : PathOf(i, k) = p
  OBVIOUS
<1>6. i \in Nat /\ k \in Nat /\ Holds(i, k)
  BY <1>1, <1>2, <1>5 DEF Holds
<1>7. ~NamedBefore(i, p)
  BY <1>4 DEF NamedBefore
<1> QED
  BY <1>5, <1>6, <1>7

(* What the reference reads off the history is the newest namer's file.        *)
LEMMA NewestLeft ==
  ASSUME history \in Histories, published \in 1..Len(history), IsPushed(listed),
         NEW i, NEW k, Holds(i, k), ~NamedBefore(i, PathOf(i, k))
  PROVE  /\ PathOf(i, k) \in Paths(listed)
         /\ LeftBy(listed, PathOf(i, k)) = [file |-> listed[i].files[k], sha |-> listed[i].sha]
<1> DEFINE p == PathOf(i, k)
           by == {j \in DOMAIN listed : \E f \in Range(listed[j].files) : f.path = p}
<1>1. /\ listed \in Seq(Range(history)) /\ i \in DOMAIN listed /\ listed[i] \in Range(history)
      /\ \A j \in DOMAIN listed : listed[j].files \in Seq(Range(listed[j].files))
  BY PushedListed DEF Holds
<1>2. i \in by /\ \A j \in by : i <= j
  <2>1. i \in by
    BY <1>1 DEF Holds, PathOf, Range
  <2>2. ASSUME NEW j \in by PROVE i <= j
    <3>1. PICK q \in DOMAIN listed[j].files : PathOf(j, q) = p
      BY DEF Range, PathOf
    <3>2. ~(j < i)
      BY <3>1 DEF NamedBefore
    <3> QED
      BY <1>1, <3>2
  <2> QED
    BY <2>1, <2>2
<1>3. (CHOOSE j \in by : \A n \in by : j <= n) = i
  <2>1. by \subseteq Int
    BY <1>1
  <2>2. \A j \in by : (\A n \in by : j <= n) => j = i
    BY <1>2, <2>1
  <2> QED
    BY <1>2, <2>2
<1>4. (CHOOSE f \in Range(listed[i].files) : f.path = p) = listed[i].files[k]
  <2>1. listed[i].files[k] \in Range(listed[i].files)
    BY DEF Holds, Range
  <2>2. \A f \in Range(listed[i].files) : f.path = p => f = listed[i].files[k]
    BY <1>1, PathNamedOnce DEF Holds, Range, PathOf
  <2> QED
    BY <2>1, <2>2 DEF PathOf
<1>5. p \in Paths(listed)
  <2>1. listed[i] \in Range(listed) /\ listed[i].files[k] \in Range(listed[i].files)
    BY DEF Holds, Range
  <2> QED
    BY <2>1 DEF Paths, PathOf
<1> QED
  BY <1>3, <1>4, <1>5 DEF LeftBy

LEMMA IngestImplies == IngestInv => CorpusIsTheListed
<1> SUFFICES ASSUME IngestInv, step = "done" PROVE CorpusIsTheListed
  BY DEF CorpusIsTheListed
<1>1. /\ history \in Histories /\ published \in 1..Len(history) /\ ListInv /\ FilesInv /\ CorpusInv
      /\ commits = <<>> /\ files = <<>>
  BY DEF IngestInv
<1>2. listed \in Seq(Range(history)) /\ \A i \in DOMAIN listed : listed[i].files \in Seq(Range(listed[i].files))
  BY <1>1, PushedListed DEF ListInv
<1>3. \A i, k : Holds(i, k) => WasRead(i, k) /\ i \in Nat /\ k \in Nat
  <2>1. AtHand = Len(listed) /\ Len(files) = 0
    BY <1>1, <1>2 DEF AtHand
  <2> QED
    BY <1>2, <2>1 DEF WasRead, Holds
<1>4. InCorpus = Range(corpus)
  BY DEF InCorpus, Range
<1>5. ASSUME NEW x \in InCorpus PROVE x \in Reference(listed)
  <2>1. PICK i, k \in Nat : WasRead(i, k) /\ Counts(i, k) /\ x = Entry(i, k)
    BY <1>1 DEF CorpusInv, InWasRead
  <2>2. PathOf(i, k) \in Paths(listed)
        /\ LeftBy(listed, PathOf(i, k)) = [file |-> listed[i].files[k], sha |-> listed[i].sha]
    BY <1>1, <2>1, NewestLeft DEF WasRead, Counts, ListInv
  <2> QED
    BY <2>1, <2>2 DEF Reference, Counts, Entry
<1>6. ASSUME NEW x \in Reference(listed) PROVE x \in InCorpus
  <2>1. PICK p \in Paths(listed) :
          /\ LeftBy(listed, p).file.content # Gone /\ LeftBy(listed, p).file.language
          /\ x = [path |-> p, content |-> LeftBy(listed, p).file.content, sha |-> LeftBy(listed, p).sha]
    BY DEF Reference
  <2>2. PICK i, k \in Nat : Holds(i, k) /\ PathOf(i, k) = p /\ ~NamedBefore(i, p)
    BY <1>1, NewestNamer DEF ListInv
  <2>3. LeftBy(listed, p) = [file |-> listed[i].files[k], sha |-> listed[i].sha]
    BY <1>1, <2>2, NewestLeft DEF ListInv
  <2>4. Counts(i, k) /\ x = Entry(i, k)
    BY <2>1, <2>2, <2>3 DEF Counts, Entry
  <2> QED
    BY <1>1, <1>3, <2>2, <2>4 DEF CorpusInv, ReadIsIn
<1>7. Range(corpus) = Reference(listed)
  BY <1>4, <1>5, <1>6
<1> QED
  BY <1>1, <1>4, <1>7 DEF CorpusIsTheListed, CorpusInv, ListInv, IsPushed

(* Whatever earlier ingests that failed, died inside a write or met a shorter  *)
(* history left in the cache, and however long the history: a completed corpus *)
(* has every path of the list once, as its newest commit left it.              *)
THEOREM CorpusTellsTheHistory == IngestSpec => []CorpusIsTheListed
<1> QED
  BY IngestInitial, IngestInductive, IngestImplies, PTL DEF IngestSpec

(* -------------------------------------------------------------------------- *)
(* The hooks: for any lines of the user's and any number of commands and of    *)
(* edits between them, failed, cut off or not, the user's lines stay.  A hook  *)
(* is the user's lines around one block, and the loop that strips a block      *)
(* gives the lines around it, whatever they are.                               *)

(* A function defined by recursion is the one that satisfies its equation: one *)
(* is exhibited, and two on 0..n that start alike and go on alike are the same, *)
(* for they would differ somewhere first.                                      *)
LEMMA StepsDetermine ==
  ASSUME NEW n \in Nat, NEW f, NEW g,
         f = [i \in 0..n |-> f[i]], g = [i \in 0..n |-> g[i]],
         f[0] = g[0], \A i \in 1..n : f[i - 1] = g[i - 1] => f[i] = g[i]
  PROVE  f = g
<1> DEFINE T == {i \in 0..n : f[i] # g[i]}
<1>1. T = {}
  <2> SUFFICES ASSUME T # {} PROVE FALSE
    OBVIOUS
  <2>0. T \subseteq Nat
    OBVIOUS
  <2>1. PICK m \in T : \A y \in T : m <= y
    <3> HIDE DEF T
    <3> QED
      BY <2>0, NatLeast
  <2>2. \A y \in T : ~ (y < m)
    BY <2>0, <2>1
  <2>3. m \in 1..n
    OBVIOUS
  <2>4. m - 1 \in 0..n /\ m - 1 < m
    BY <2>3
  <2>5. f[m - 1] = g[m - 1]
    BY <2>2, <2>4
  <2> QED
    BY <2>3, <2>5
<1>2. \A i \in 0..n : f[i] = g[i]
  BY <1>1
<1>3. [i \in 0..n |-> f[i]] = [i \in 0..n |-> g[i]]
  BY <1>2
<1> QED
  BY <1>3

UserLines == Lines \cup {Shebang}
IsBlock(b) ==
  /\ b \in Seq(AllLines)
  /\ b # <<>> => /\ Len(b) >= 2 /\ b[1] = Begin /\ b[Len(b)] = End
                 /\ \A i \in 2..(Len(b) - 1) : b[i] # End

Around(u, n, b) == SubSeq(u, 1, n) \o b \o SubSeq(u, n + 1, Len(u))

(* A text with a block after its first n lines, line by line.                  *)
LEMMA AroundIs ==
  ASSUME NEW u \in Seq(UserLines), NEW b, IsBlock(b), NEW n \in 0..Len(u)
  PROVE  /\ Around(u, n, b) \in Seq(AllLines) /\ Len(Around(u, n, b)) = Len(u) + Len(b)
         /\ \A i \in 1..n : Around(u, n, b)[i] = u[i]
         /\ \A i \in 1..Len(b) : Around(u, n, b)[n + i] = b[i]
         /\ \A i \in (n + 1)..Len(u) : Around(u, n, b)[i + Len(b)] = u[i]
<1> DEFINE x == SubSeq(u, 1, n)
           y == SubSeq(u, n + 1, Len(u))
           z == x \o b
<1>1. b \in Seq(AllLines) /\ u \in Seq(AllLines) /\ Len(b) \in Nat /\ Len(u) \in Nat
  BY DEF IsBlock, AllLines, UserLines
<1>2. x \in Seq(AllLines) /\ Len(x) = n /\ \A i \in 1..n : x[i] = u[i]
  BY <1>1
<1>3. y \in Seq(AllLines) /\ Len(y) = Len(u) - n
  BY <1>1
<1>4. \A i \in 1..(Len(u) - n) : y[i] = u[n + i]
  BY <1>1
<1> HIDE DEF x, y
<1>5. /\ z \in Seq(AllLines) /\ Len(z) = Len(x) + Len(b)
      /\ \A i \in 1..(Len(x) + Len(b)) : z[i] = IF i <= Len(x) THEN x[i] ELSE b[i - Len(x)]
  BY <1>1, <1>2, ConcatProperties
<1> HIDE DEF z
<1>6. /\ z \o y \in Seq(AllLines) /\ Len(z \o y) = Len(z) + Len(y)
      /\ \A i \in 1..(Len(z) + Len(y)) : (z \o y)[i] = IF i <= Len(z) THEN z[i] ELSE y[i - Len(z)]
  <2>1. z \in Seq(AllLines) /\ y \in Seq(AllLines)
    BY <1>3, <1>5
  <2> QED
    BY <2>1, ConcatProperties
<1>7. Around(u, n, b) = z \o y
  BY DEF Around, x, y, z
<1> DEFINE w == z \o y
<1>8. /\ w \in Seq(AllLines) /\ Len(w) = Len(u) + Len(b)
      /\ \A i \in 1..(Len(u) + Len(b)) : w[i] = IF i <= n + Len(b) THEN z[i] ELSE y[i - (n + Len(b))]
      /\ \A i \in 1..(n + Len(b)) : z[i] = IF i <= n THEN u[i] ELSE b[i - n]
  <2>1. Len(z) = n + Len(b) /\ Len(z) + Len(y) = Len(u) + Len(b)
    BY <1>1, <1>2, <1>3, <1>5
  <2>2. w \in Seq(AllLines) /\ Len(w) = Len(u) + Len(b)
    BY <1>6, <2>1
  <2>3. \A i \in 1..(Len(u) + Len(b)) : w[i] = IF i <= n + Len(b) THEN z[i] ELSE y[i - (n + Len(b))]
    BY <1>6, <2>1
  <2>4. \A i \in 1..(n + Len(b)) : z[i] = IF i <= n THEN u[i] ELSE b[i - n]
    BY <1>2, <1>5
  <2> QED
    BY <2>2, <2>3, <2>4
<1> HIDE DEF w
<1>9. \A i \in 1..n : w[i] = u[i]
  <2> SUFFICES ASSUME NEW i \in 1..n PROVE w[i] = u[i]
    OBVIOUS
  <2>1. i \in 1..(Len(u) + Len(b)) /\ i \in 1..(n + Len(b)) /\ i <= n /\ i <= n + Len(b)
    BY <1>1
  <2> QED
    BY <1>8, <2>1
<1>10. \A i \in 1..Len(b) : w[n + i] = b[i]
  <2> SUFFICES ASSUME NEW i \in 1..Len(b) PROVE w[n + i] = b[i]
    OBVIOUS
  <2>1. n + i \in 1..(Len(u) + Len(b)) /\ n + i \in 1..(n + Len(b)) /\ ~ (n + i <= n) /\ (n + i) - n = i
    BY <1>1
  <2> QED
    BY <1>8, <2>1
<1>11. \A i \in (n + 1)..Len(u) : w[i + Len(b)] = u[i]
  <2> SUFFICES ASSUME NEW i \in (n + 1)..Len(u) PROVE w[i + Len(b)] = u[i]
    OBVIOUS
  <2>1. i + Len(b) \in 1..(Len(u) + Len(b)) /\ ~ (i + Len(b) <= n + Len(b))
        /\ (i + Len(b)) - (n + Len(b)) = i - n /\ i - n \in 1..(Len(u) - n) /\ n + (i - n) = i
    BY <1>1
  <2> QED
    BY <1>4, <1>8, <2>1
<1> QED
  BY <1>7, <1>8, <1>9, <1>10, <1>11 DEF w

(* What a line does to the loop.                                               *)
LEMMA ReadLineIs ==
  ASSUME NEW l, NEW line
  PROVE  /\ line # Begin => ReadLine([inside |-> FALSE, out |-> l], line) = [inside |-> FALSE, out |-> Append(l, line)]
         /\ ReadLine([inside |-> FALSE, out |-> l], Begin) = [inside |-> TRUE, out |-> l]
         /\ ReadLine([inside |-> TRUE, out |-> l], line) = [inside |-> line # End, out |-> l]
<1>1. line # Begin => ReadLine([inside |-> FALSE, out |-> l], line) = [inside |-> FALSE, out |-> Append(l, line)]
  BY DEF ReadLine
<1>2. ReadLine([inside |-> FALSE, out |-> l], Begin) = [inside |-> TRUE, out |-> l]
  BY DEF ReadLine
<1>3. ReadLine([inside |-> TRUE, out |-> l], line) = [inside |-> line # End, out |-> l]
  BY DEF ReadLine, Closes
<1> QED
  BY <1>1, <1>2, <1>3

(* How far the loop is after i lines of it.                                    *)
LEMMA StripAround ==
  ASSUME NEW u \in Seq(UserLines), NEW b, IsBlock(b), NEW n \in 0..Len(u)
  PROVE  StripBlock(Around(u, n, b)) = u
<1> DEFINE k == Len(b)
           m == Len(u)
           l == Around(u, n, b)
           Inside(i) == n < i /\ i < n + k
           Taken(i)  == IF i <= n THEN i ELSE IF i <= n + k THEN n ELSE i - k
           Loop(f) == [i \in 0..Len(l) |->
                    IF i = 0 THEN [inside |-> FALSE, out |-> <<>>] ELSE ReadLine(f[i - 1], l[i])]
           g == [i \in 0..Len(l) |-> [inside |-> Inside(i), out |-> SubSeq(u, 1, Taken(i))]]
           h == CHOOSE f : f = Loop(f)
<1>1. k \in Nat /\ m \in Nat /\ n \in Nat /\ n <= m /\ Len(l) = m + k
  BY AroundIs DEF IsBlock
<1>2. /\ \A i \in 1..n : l[i] = u[i]
      /\ \A i \in 1..k : l[n + i] = b[i]
      /\ \A i \in (n + 1)..m : l[i + k] = u[i]
  BY AroundIs
<1>3. k # 0 => k >= 2 /\ b[1] = Begin /\ b[k] = End /\ \A i \in 2..(k - 1) : b[i] # End
  BY <1>1 DEF IsBlock
<1>4. \A i \in 1..m : u[i] # Begin /\ Append(SubSeq(u, 1, i - 1), u[i]) = SubSeq(u, 1, i)
  BY <1>1, BlocksAssumption DEF UserLines, Begin, Shebang
<1>5. \A i \in 0..(m + k) : g[i] = [inside |-> Inside(i), out |-> SubSeq(u, 1, Taken(i))]
  BY <1>1
<1> HIDE DEF g, l, k, m
<1>6. ASSUME NEW i \in 1..(m + k)
      PROVE  \/ /\ ~Inside(i - 1) /\ ~Inside(i) /\ Taken(i) \in 1..m
                /\ Taken(i - 1) = Taken(i) - 1 /\ l[i] = u[Taken(i)]
             \/ ~Inside(i - 1) /\ Inside(i) /\ Taken(i) = Taken(i - 1) /\ l[i] = Begin
             \/ Inside(i - 1) /\ Taken(i) = Taken(i - 1) /\ (Inside(i) <=> l[i] # End)
  <2>1. CASE i <= n
    BY <1>1, <1>2, <2>1
  <2>2. CASE i = n + 1 /\ k # 0
    <3>1. l[i] = Begin
      BY <1>1, <1>2, <1>3, <2>2
    <3> QED
      BY <1>1, <1>3, <2>2, <3>1
  <2>3. CASE n + 1 < i /\ i < n + k
    <3>1. i - n \in 2..(k - 1) /\ i - n \in 1..k /\ n + (i - n) = i
      BY <1>1, <2>3
    <3>2. l[n + (i - n)] = b[i - n] /\ b[i - n] # End
      BY <1>1, <1>2, <1>3, <3>1
    <3>3. l[i] # End
      BY <3>1, <3>2
    <3> QED
      BY <1>1, <2>3, <3>3
  <2>4. CASE n + 1 < i /\ i = n + k
    <3>1. l[i] = End
      BY <1>1, <1>2, <1>3, <2>4
    <3> QED
      BY <1>1, <2>4, <3>1
  <2>5. CASE n + k < i
    <3>1. i - k \in (n + 1)..m /\ (i - k) + k = i
      BY <1>1, <2>5
    <3>2. l[i] = u[i - k]
      BY <1>2, <3>1
    <3> QED
      BY <1>1, <2>5, <3>1, <3>2
  <2> QED
    BY <1>1, <2>1, <2>2, <2>3, <2>4, <2>5
<1>7. ASSUME NEW i \in 1..(m + k) PROVE g[i] = ReadLine(g[i - 1], l[i])
  <2>1. i \in 0..(m + k) /\ i - 1 \in 0..(m + k)
    BY <1>1
  <2>2. /\ g[i] = [inside |-> Inside(i), out |-> SubSeq(u, 1, Taken(i))]
        /\ g[i - 1] = [inside |-> Inside(i - 1), out |-> SubSeq(u, 1, Taken(i - 1))]
    BY <1>5, <2>1
  <2>9. Inside(i) \in BOOLEAN /\ Inside(i - 1) \in BOOLEAN
    OBVIOUS
  <2> HIDE DEF Inside, Taken
  <2>3. CASE /\ ~Inside(i - 1) /\ ~Inside(i) /\ Taken(i) \in 1..m
             /\ Taken(i - 1) = Taken(i) - 1 /\ l[i] = u[Taken(i)]
    <3>1. l[i] # Begin /\ Append(SubSeq(u, 1, Taken(i - 1)), l[i]) = SubSeq(u, 1, Taken(i))
      BY <1>4, <2>3
    <3>2. Inside(i) = FALSE /\ Inside(i - 1) = FALSE
      BY <2>3, <2>9
    <3>3. /\ g[i] = [inside |-> FALSE, out |-> SubSeq(u, 1, Taken(i))]
          /\ g[i - 1] = [inside |-> FALSE, out |-> SubSeq(u, 1, Taken(i - 1))]
      BY <2>2, <3>2
    <3> QED
      BY <3>1, <3>3, ReadLineIs
  <2>4. CASE ~Inside(i - 1) /\ Inside(i) /\ Taken(i) = Taken(i - 1) /\ l[i] = Begin
    <3>1. Inside(i) = TRUE /\ Inside(i - 1) = FALSE
      BY <2>4, <2>9
    <3>2. /\ g[i] = [inside |-> TRUE, out |-> SubSeq(u, 1, Taken(i - 1))]
          /\ g[i - 1] = [inside |-> FALSE, out |-> SubSeq(u, 1, Taken(i - 1))]
      BY <2>2, <2>4, <3>1
    <3> QED
      BY <2>4, <3>2, ReadLineIs
  <2>5. CASE Inside(i - 1) /\ Taken(i) = Taken(i - 1) /\ (Inside(i) <=> l[i] # End)
    <3>1. Inside(i - 1) = TRUE /\ Inside(i) = (l[i] # End)
      BY <2>5, <2>9
    <3>2. /\ g[i] = [inside |-> l[i] # End, out |-> SubSeq(u, 1, Taken(i - 1))]
          /\ g[i - 1] = [inside |-> TRUE, out |-> SubSeq(u, 1, Taken(i - 1))]
      BY <2>2, <2>5, <3>1
    <3>3. ReadLine([inside |-> TRUE, out |-> SubSeq(u, 1, Taken(i - 1))], l[i])
            = [inside |-> l[i] # End, out |-> SubSeq(u, 1, Taken(i - 1))]
      BY Zenon, ReadLineIs
    <3> QED
      BY Zenon, <3>2, <3>3
  <2> QED
    BY <1>6, <2>3, <2>4, <2>5
<1>8. g[0] = [inside |-> FALSE, out |-> <<>>] /\ g[m + k].out = u
  <2>1. 0 \in 0..(m + k) /\ m + k \in 0..(m + k) /\ Taken(0) = 0 /\ ~Inside(0) /\ Taken(m + k) = m
    BY <1>1
  <2>2. SubSeq(u, 1, 0) = <<>> /\ SubSeq(u, 1, m) = u
    BY <1>1 DEF m
  <2>3. Inside(0) = FALSE
    BY <2>1
  <2> HIDE DEF Inside, Taken
  <2>4. g[0] = [inside |-> FALSE, out |-> <<>>] /\ g[m + k] = [inside |-> Inside(m + k), out |-> u]
    BY <1>5, <2>1, <2>2, <2>3
  <2> QED
    BY <2>4
<1>9. g = [i \in 0..(m + k) |-> g[i]] /\ Len(l) = m + k
  BY <1>1 DEF g
<1>10. g = Loop(g)
  <2>1. \A i \in 0..(m + k) : g[i] = IF i = 0 THEN [inside |-> FALSE, out |-> <<>>] ELSE ReadLine(g[i - 1], l[i])
    BY <1>1, <1>7, <1>8
  <2> QED
    BY <1>9, <2>1
<1>11. h = Loop(h)
  BY <1>10
<1> HIDE DEF h
<1>12. h = g
  <2>1. h = [i \in 0..(m + k) |-> h[i]] /\ m + k \in Nat
    BY <1>1, <1>9, <1>11
  <2>2. h[0] = g[0]
    BY <1>1, <1>8, <1>9, <1>11
  <2>3. \A i \in 1..(m + k) : h[i - 1] = g[i - 1] => h[i] = g[i]
    <3> SUFFICES ASSUME NEW i \in 1..(m + k), h[i - 1] = g[i - 1] PROVE h[i] = g[i]
      OBVIOUS
    <3>1. i \in 0..(m + k) /\ i # 0
      BY <1>1
    <3>2. h[i] = ReadLine(h[i - 1], l[i])
      BY <1>9, <1>11, <3>1
    <3> QED
      BY <1>7, <3>2
  <2> QED
    BY <1>9, <2>1, <2>2, <2>3, StepsDetermine
<1> QED
  <2>1. StripBlock(l) = h[Len(l)].out
    BY DEF StripBlock, h
  <2> QED
    BY <1>8, <1>9, <1>12, <2>1 DEF l

(* -------------------------------------------------------------------------- *)
(* A hook with a block written last, and the user's lines around it.           *)
Kept(l, u, b) ==
  /\ IsBlock(b)
  /\ \/ l = NoHook /\ u = NoHook
     \/ u \in Seq(UserLines) /\ \E n \in 0..Len(u) : l = Around(u, n, b)

Writes == [hook : Hooks, block : {b \in Seq(AllLines) : IsBlock(b)}]

BlocksInv ==
  /\ command \in Seq(Writes)
  /\ DOMAIN hook = Hooks /\ DOMAIN own = Hooks /\ DOMAIN promised = Hooks
  /\ \A h \in Hooks \ lost : Kept(hook[h], own[h], promised[h])

(* The blocks the commands write are blocks.                                   *)
LEMMA RenderedAreBlocks ==
  /\ IsBlock(<<>>) /\ IsBlock(RenderAutoUpdateBlock)
  /\ \A style, graph \in BOOLEAN : IsBlock(RenderBlock([style |-> style, graph |-> graph]))
<1> DEFINE Open == AllLines \ {End}
<1>1. IsBlock(<<>>)
  BY DEF IsBlock
<1>2. IsBlock(<<Begin, "auto-update", End>>)
  BY DEF IsBlock, AllLines, BlockLines, Begin, End
<1>3. ASSUME NEW s \in Seq(Open), NEW t \in Seq(Open), Len(s) >= 1, s[1] = Begin
      PROVE  s \o t \in Seq(Open) /\ Len(s \o t) >= 1 /\ (s \o t)[1] = Begin
  <2> HIDE DEF Open
  <2>1. Len(s) \in Nat /\ Len(t) \in Nat
    OBVIOUS
  <2>2. s \o t \in Seq(Open) /\ Len(s \o t) = Len(s) + Len(t)
    BY ConcatProperties
  <2>3. 1 \in 1..(Len(s) + Len(t)) /\ 1 <= Len(s)
    BY <1>3, <2>1
  <2>4. (s \o t)[1] = s[1]
    BY <2>3, ConcatProperties
  <2> QED
    BY <1>3, <2>1, <2>2, <2>4
<1>4. ASSUME NEW s \in Seq(Open), Len(s) >= 1, s[1] = Begin
      PROVE  IsBlock(s \o <<End>>)
  <2>1. s \in Seq(AllLines) /\ <<End>> \in Seq(AllLines) /\ Len(<<End>>) = 1 /\ <<End>>[1] = End
    BY DEF AllLines, BlockLines
  <2>2. \A i \in 1..Len(s) : s[i] # End
    OBVIOUS
  <2> HIDE DEF Open
  <2>3. /\ s \o <<End>> \in Seq(AllLines) /\ Len(s \o <<End>>) = Len(s) + 1
        /\ \A i \in 1..(Len(s) + 1) : (s \o <<End>>)[i] = IF i <= Len(s) THEN s[i] ELSE <<End>>[i - Len(s)]
    BY <2>1, ConcatProperties
  <2> DEFINE z == s \o <<End>>
  <2> HIDE DEF z
  <2>4. z[1] = Begin /\ z[Len(s) + 1] = End /\ \A i \in 1..Len(s) : z[i] # End
    BY <1>4, <2>1, <2>2, <2>3 DEF z
  <2>5. IsBlock(z)
    BY <1>4, <2>1, <2>3, <2>4 DEF IsBlock, z
  <2> QED
    BY <2>5 DEF z
<1>5. ASSUME NEW style \in BOOLEAN, NEW graph \in BOOLEAN
      PROVE  IsBlock(RenderBlock([style |-> style, graph |-> graph]))
  <2> DEFINE options == [style |-> style, graph |-> graph]
             first   == IF options.style THEN <<"diff">> ELSE <<>>
             second  == IF options.graph THEN <<"index", "check">> ELSE <<>>
  <2>1. RenderBlock(options) = <<Begin>> \o first \o second \o <<End>>
    BY DEF RenderBlock
  <2>2. /\ first \in Seq(Open) /\ second \in Seq(Open)
        /\ <<Begin>> \in Seq(Open) /\ Len(<<Begin>>) >= 1 /\ <<Begin>>[1] = Begin
    <3>1. {Begin, "diff", "index", "check"} \subseteq Open
      BY DEF AllLines, BlockLines, Begin, End
    <3> HIDE DEF Open
    <3>2. <<"diff">> \in Seq(Open) /\ <<"index", "check">> \in Seq(Open) /\ <<>> \in Seq(Open)
      BY <3>1
    <3>3. first \in Seq(Open) /\ second \in Seq(Open)
      BY <3>2
    <3>4. <<Begin>> \in Seq(Open) /\ Len(<<Begin>>) >= 1 /\ <<Begin>>[1] = Begin
      BY <3>1
    <3> QED
      BY <3>3, <3>4
  <2> HIDE DEF first, second, Open, options
  <2>3. <<Begin>> \o first \in Seq(Open) /\ Len(<<Begin>> \o first) >= 1 /\ (<<Begin>> \o first)[1] = Begin
    BY <1>3, <2>2
  <2> DEFINE front == <<Begin>> \o first
  <2> HIDE DEF front
  <2>4. front \o second \in Seq(Open) /\ Len(front \o second) >= 1 /\ (front \o second)[1] = Begin
    BY <1>3, <2>2, <2>3 DEF front
  <2>5. IsBlock((front \o second) \o <<End>>)
    BY <1>4, <2>4
  <2> QED
    BY <2>1, <2>5 DEF front, options
<1> QED
  BY <1>1, <1>2, <1>5 DEF RenderAutoUpdateBlock

(* A block at the end, or none.                                                *)
LEMMA AtTheEnd ==
  ASSUME NEW u \in Seq(UserLines), NEW b, IsBlock(b)
  PROVE  u \o b = Around(u, Len(u), b) /\ Kept(u \o b, u, b) /\ StripBlock(u) = u
<1>1. Len(u) \in 0..Len(u) /\ SubSeq(u, 1, Len(u)) = u /\ SubSeq(u, Len(u) + 1, Len(u)) = <<>>
  OBVIOUS
<1>2. u \in Seq(AllLines) /\ b \in Seq(AllLines)
  BY DEF UserLines, AllLines, IsBlock
<1>3. u \o b \in Seq(AllLines) /\ (u \o b) \o <<>> = u \o b /\ u \o <<>> = u
  BY <1>2
<1>4. u \o b = Around(u, Len(u), b) /\ u = Around(u, Len(u), <<>>)
  BY <1>1, <1>3 DEF Around
<1>5. StripBlock(u) = u
  BY <1>1, <1>4, StripAround, RenderedAreBlocks
<1> QED
  BY <1>1, <1>4, <1>5 DEF Kept

(* A command writes a block over what was kept.                                *)
LEMMA WriteKeeps ==
  ASSUME NEW l, NEW u, NEW b, Kept(l, u, b), NEW c, IsBlock(c)
  PROVE  Kept(IF c = <<>> THEN WithoutBlock(l) ELSE WithBlock(l, c),
              IF u = NoHook /\ c # <<>> THEN <<Shebang>> ELSE u, c)
<1>1. CASE l = NoHook /\ u = NoHook /\ c = <<>>
  BY <1>1 DEF Kept, WithoutBlock
<1>2. CASE l = NoHook /\ u = NoHook /\ c # <<>>
  <2>1. <<Shebang>> \in Seq(UserLines)
    BY DEF UserLines
  <2>2. Kept(<<Shebang>> \o c, <<Shebang>>, c)
    BY <2>1, AtTheEnd
  <2> QED
    BY <1>2, <2>2 DEF WithBlock
<1>3. CASE u \in Seq(UserLines) /\ \E n \in 0..Len(u) : l = Around(u, n, b)
  <2>1. PICK n \in 0..Len(u) : l = Around(u, n, b)
    BY <1>3
  <2>2. l \in Seq(AllLines) /\ StripBlock(l) = u /\ u \in Seq(AllLines)
    BY <1>3, <2>1, AroundIs, StripAround DEF Kept, UserLines, AllLines
  <2>3. l # NoHook /\ u # NoHook
    BY <2>2, BlocksAssumption
  <2>4. Kept(u \o c, u, c)
    BY <1>3, AtTheEnd
  <2>5. c = <<>> => u \o c = u
    BY <2>2
  <2> QED
    BY <2>2, <2>3, <2>4, <2>5 DEF WithBlock, WithoutBlock
<1> QED
  BY <1>1, <1>2, <1>3 DEF Kept

(* A line inserted after the first a.                                          *)
Added(s, a, e) == InsertAt(s, a + 1, e)

IsAdded(S, t, s, a, e) ==
  /\ t \in Seq(S) /\ Len(t) = Len(s) + 1
  /\ \A i \in 1..a : t[i] = s[i]
  /\ t[a + 1] = e
  /\ \A i \in (a + 1)..Len(s) : t[i + 1] = s[i]

LEMMA AddedIs ==
  ASSUME NEW S, NEW s \in Seq(S), NEW a \in 0..Len(s), NEW e \in S
  PROVE  IsAdded(S, Added(s, a, e), s, a, e)
<1> DEFINE x == SubSeq(s, 1, a)
           y == SubSeq(s, a + 1, Len(s))
           z == x \o <<e>>
           w == z \o y
<1>1. x \in Seq(S) /\ Len(x) = a /\ \A i \in 1..a : x[i] = s[i]
  OBVIOUS
<1>2. y \in Seq(S) /\ Len(y) = Len(s) - a /\ \A i \in 1..(Len(s) - a) : y[i] = s[a + i]
  OBVIOUS
<1>3. Len(s) \in Nat /\ a \in Nat /\ a <= Len(s) /\ <<e>> \in Seq(S) /\ Len(<<e>>) = 1 /\ <<e>>[1] = e
  OBVIOUS
<1>4. Added(s, a, e) = w
  <2>1. (a + 1) - 1 = a
    BY <1>3
  <2> QED
    BY <2>1 DEF Added, InsertAt
<1> HIDE DEF x, y
<1>5. /\ z \in Seq(S) /\ Len(z) = a + 1
      /\ \A i \in 1..(a + 1) : z[i] = IF i <= a THEN x[i] ELSE <<e>>[i - a]
  BY <1>1, <1>3, ConcatProperties
<1> HIDE DEF z
<1>6. z[a + 1] = e /\ \A i \in 1..a : z[i] = s[i]
  <2>1. a + 1 \in 1..(a + 1) /\ ~ (a + 1 <= a) /\ (a + 1) - a = 1
    BY <1>3
  <2>2. \A i \in 1..a : i \in 1..(a + 1) /\ i <= a
    BY <1>3
  <2> QED
    BY <1>1, <1>3, <1>5, <2>1, <2>2
<1>7. /\ w \in Seq(S) /\ Len(w) = Len(s) + 1
      /\ \A i \in 1..(Len(s) + 1) : w[i] = IF i <= a + 1 THEN z[i] ELSE y[i - (a + 1)]
  <2>1. (a + 1) + (Len(s) - a) = Len(s) + 1
    BY <1>3
  <2> QED
    BY <1>2, <1>5, <2>1, ConcatProperties
<1> HIDE DEF w
<1>8. \A i \in 1..a : w[i] = s[i]
  <2> SUFFICES ASSUME NEW i \in 1..a PROVE w[i] = s[i]
    OBVIOUS
  <2>1. i \in 1..(Len(s) + 1) /\ i <= a + 1
    BY <1>3
  <2> QED
    BY <1>6, <1>7, <2>1
<1>9. w[a + 1] = e
  <2>1. a + 1 \in 1..(Len(s) + 1) /\ a + 1 <= a + 1
    BY <1>3
  <2> QED
    BY <1>6, <1>7, <2>1
<1>10. \A i \in (a + 1)..Len(s) : w[i + 1] = s[i]
  <2> SUFFICES ASSUME NEW i \in (a + 1)..Len(s) PROVE w[i + 1] = s[i]
    OBVIOUS
  <2>1. i + 1 \in 1..(Len(s) + 1) /\ ~ (i + 1 <= a + 1) /\ (i + 1) - (a + 1) = i - a
        /\ i - a \in 1..(Len(s) - a) /\ a + (i - a) = i
    BY <1>3
  <2> QED
    BY <1>2, <1>7, <2>1
<1> QED
  BY <1>4, <1>7, <1>8, <1>9, <1>10 DEF IsAdded

(* A user's line outside the block goes where it belongs among the user's.     *)
LEMMA LineKeeps ==
  ASSUME NEW l, NEW u \in Seq(UserLines), NEW b, IsBlock(b), NEW n \in 0..Len(u), l = Around(u, n, b),
         NEW i \in 0..Len(l), ~InsideAt(l, i), NEW line \in Lines
  PROVE  Kept(InsertAt(l, i + 1, line),
              InsertAt(u, Len(StripBlock(SubSeq(l, 1, i))) + 1, line), b)
<1> DEFINE k == Len(b)
           m == Len(u)
           a == Len(StripBlock(SubSeq(l, 1, i)))
           p == Added(l, i, line)
           q == Added(u, a, line)
<1> SUFFICES Kept(p, q, b)
  BY DEF Added
<1>1. k \in Nat /\ m \in Nat /\ n \in Nat /\ n <= m /\ i \in Nat /\ i <= m + k
      /\ l \in Seq(AllLines) /\ Len(l) = m + k
  BY AroundIs DEF IsBlock
<1>2. /\ \A j \in 1..n : l[j] = u[j]
      /\ \A j \in 1..k : l[n + j] = b[j]
      /\ \A j \in (n + 1)..m : l[j + k] = u[j]
  BY AroundIs
<1>3. line \in AllLines /\ line \in UserLines
  BY DEF AllLines, UserLines
<1> HIDE DEF k, m
<1>4. /\ p \in Seq(AllLines) /\ Len(p) = m + k + 1
      /\ \A j \in 1..i : p[j] = l[j]
      /\ p[i + 1] = line
      /\ \A j \in (i + 1)..(m + k) : p[j + 1] = l[j]
  <2>1. i \in 0..Len(l) /\ l \in Seq(AllLines) /\ line \in AllLines /\ Len(l) = m + k
    BY <1>1, <1>3
  <2>2. IsAdded(AllLines, p, l, i, line)
    BY <2>1, AddedIs
  <2> QED
    BY <2>1, <2>2 DEF IsAdded
<1> HIDE DEF p
<1>5. i <= n \/ n + k <= i
  <2> SUFFICES ASSUME n < i, i < n + k PROVE FALSE
    BY <1>1
  <2>1. k # 0 /\ n + 1 \in 1..(m + k) /\ n + k \in 1..(m + k) /\ 1 \in 1..k /\ k \in 1..k /\ n + 1 <= i
    BY <1>1
  <2>2. b[1] = Begin /\ b[k] = End
    BY <2>1 DEF IsBlock, k
  <2>3. l[n + 1] = Begin /\ l[n + k] = End /\ n + 1 \in DOMAIN l /\ n + k \in DOMAIN l
    BY <1>1, <1>2, <2>1, <2>2
  <2>4. InsideAt(l, i)
    BY <2>1, <2>3 DEF InsideAt
  <2> QED
    BY <2>4
<1>6. CASE i <= n
  <2> DEFINE v == SubSeq(u, 1, i)
  <2>1. i \in 0..m /\ v \in Seq(UserLines) /\ Len(v) = i /\ \A j \in 1..i : v[j] = u[j]
    BY <1>1, <1>6 DEF m
  <2>2. SubSeq(l, 1, i) = v
    <3>1. SubSeq(l, 1, i) \in Seq(AllLines) /\ Len(SubSeq(l, 1, i)) = i
          /\ \A j \in 1..i : SubSeq(l, 1, i)[j] = l[j]
      BY <1>1
    <3>2. v \in Seq(AllLines) /\ \A j \in 1..i : l[j] = v[j]
      BY <1>1, <1>2, <1>6, <2>1 DEF AllLines, UserLines
    <3> HIDE DEF v
    <3> QED
      BY <2>1, <3>1, <3>2, SeqEqual
  <2> HIDE DEF v
  <2>3. a = i
    <3>1. StripBlock(v) = v
      BY <2>1, AtTheEnd, RenderedAreBlocks
    <3> QED
      BY <2>1, <2>2, <3>1
  <2> HIDE DEF a
  <2>4. /\ q \in Seq(UserLines) /\ Len(q) = m + 1
        /\ \A j \in 1..i : q[j] = u[j]
        /\ q[i + 1] = line
        /\ \A j \in (i + 1)..m : q[j + 1] = u[j]
    <3>1. i \in 0..Len(u) /\ u \in Seq(UserLines) /\ line \in UserLines
      BY <1>3, <2>1 DEF m
    <3>2. q = Added(u, i, line)
      BY <2>3
    <3>3. IsAdded(UserLines, q, u, i, line)
      BY <3>1, <3>2, AddedIs
    <3> QED
      BY <3>3 DEF IsAdded, m
  <2> HIDE DEF q
  <2> DEFINE z == Around(q, n + 1, b)
  <2>5. /\ z \in Seq(AllLines) /\ Len(z) = m + 1 + k
        /\ \A j \in 1..(n + 1) : z[j] = q[j]
        /\ \A j \in 1..k : z[n + 1 + j] = b[j]
        /\ \A j \in (n + 2)..(m + 1) : z[j + k] = q[j]
    <3>1. n + 1 \in 0..Len(q) /\ (n + 1) + 1 = n + 2
      BY <1>1, <2>4
    <3> QED
      BY <2>4, <3>1, AroundIs DEF k
  <2> HIDE DEF z
  <2>6. \A j \in 1..(m + k + 1) : p[j] = z[j]
    <3> SUFFICES ASSUME NEW j \in 1..(m + k + 1) PROVE p[j] = z[j]
      OBVIOUS
    <3>1. CASE j <= i
      <4>1. j \in 1..i /\ j \in 1..n /\ j \in 1..(n + 1)
        BY <1>1, <1>6, <3>1
      <4> QED
        BY <1>2, <1>4, <2>4, <2>5, <4>1
    <3>2. CASE j = i + 1
      <4>1. j \in 1..(n + 1)
        BY <1>1, <1>6, <3>2
      <4> QED
        BY <1>4, <2>4, <2>5, <3>2, <4>1
    <3>3. CASE i + 1 < j /\ j <= n + 1
      <4>1. j - 1 \in (i + 1)..(m + k) /\ j - 1 \in 1..n /\ j - 1 \in (i + 1)..m /\ j \in 1..(n + 1) /\ (j - 1) + 1 = j
        BY <1>1, <3>3
      <4>2. p[j] = l[j - 1] /\ l[j - 1] = u[j - 1]
        BY <1>2, <1>4, <4>1
      <4>3. z[j] = q[j] /\ q[j] = u[j - 1]
        BY <2>4, <2>5, <4>1
      <4> QED
        BY <4>2, <4>3
    <3>4. CASE n + 1 < j /\ j <= n + 1 + k
      <4>1. j - 1 \in (i + 1)..(m + k) /\ j - 1 - n \in 1..k /\ n + (j - 1 - n) = j - 1
            /\ n + 1 + (j - 1 - n) = j /\ (j - 1) + 1 = j
        BY <1>1, <1>6, <3>4
      <4>2. p[j] = l[j - 1] /\ l[j - 1] = b[j - 1 - n]
        BY <1>2, <1>4, <4>1
      <4>3. z[j] = b[j - 1 - n]
        BY <2>5, <4>1
      <4> QED
        BY <4>2, <4>3
    <3>5. CASE n + 1 + k < j
      <4>1. j - 1 \in (i + 1)..(m + k) /\ (j - 1) + 1 = j
            /\ j - 1 - k \in (n + 1)..m /\ (j - 1 - k) + k = j - 1
            /\ j - k \in (n + 2)..(m + 1) /\ (j - k) + k = j
            /\ j - 1 - k \in (i + 1)..m /\ (j - 1 - k) + 1 = j - k
        BY <1>1, <1>6, <3>5
      <4>2. p[j] = l[j - 1] /\ l[j - 1] = u[j - 1 - k]
        BY <1>2, <1>4, <4>1
      <4>3. z[j] = q[j - k] /\ q[j - k] = u[j - 1 - k]
        BY <2>4, <2>5, <4>1
      <4> QED
        BY <4>2, <4>3
    <3> QED
      BY <1>1, <3>1, <3>2, <3>3, <3>4, <3>5
  <2>7. p = z
    <3>1. Len(p) = Len(z) /\ Len(p) = m + k + 1
      BY <1>1, <1>4, <2>5
    <3> QED
      BY <1>4, <2>5, <2>6, <3>1, SeqEqual
  <2>8. n + 1 \in 0..Len(q)
    BY <1>1, <2>4
  <2>9. \E j \in 0..Len(q) : p = Around(q, j, b)
    BY <2>7, <2>8 DEF z
  <2> QED
    BY <2>4, <2>9 DEF Kept
<1>7. CASE n + k <= i
  <2> DEFINE v == SubSeq(u, 1, i - k)
             x == SubSeq(l, 1, i)
             y == Around(v, n, b)
  <2>1. /\ i - k \in 0..m /\ i - k \in Nat /\ n <= i - k
        /\ v \in Seq(UserLines) /\ Len(v) = i - k /\ \A j \in 1..(i - k) : v[j] = u[j]
    BY <1>1, <1>7 DEF m
  <2>2. x \in Seq(AllLines) /\ Len(x) = i /\ \A j \in 1..i : x[j] = l[j]
    BY <1>1
  <2> HIDE DEF v, x
  <2>3. /\ y \in Seq(AllLines) /\ Len(y) = i
        /\ \A j \in 1..n : y[j] = v[j]
        /\ \A j \in 1..k : y[n + j] = b[j]
        /\ \A j \in (n + 1)..(i - k) : y[j + k] = v[j]
    <3>1. n \in 0..Len(v) /\ (i - k) + k = i
      BY <1>1, <2>1
    <3> QED
      BY <2>1, <3>1, AroundIs DEF k
  <2> HIDE DEF y
  <2>4. \A j \in 1..i : x[j] = y[j]
    <3> SUFFICES ASSUME NEW j \in 1..i PROVE x[j] = y[j]
      OBVIOUS
    <3>1. CASE j <= n
      <4>1. j \in 1..n /\ j \in 1..(i - k)
        BY <1>1, <2>1, <3>1
      <4> QED
        BY <1>2, <2>1, <2>2, <2>3, <4>1
    <3>2. CASE n < j /\ j <= n + k
      <4>1. j - n \in 1..k /\ n + (j - n) = j
        BY <1>1, <3>2
      <4>2. l[j] = b[j - n] /\ y[j] = b[j - n]
        BY <1>2, <2>3, <4>1
      <4> QED
        BY <2>2, <4>2
    <3>3. CASE n + k < j
      <4>1. j - k \in (n + 1)..m /\ j - k \in (n + 1)..(i - k) /\ j - k \in 1..(i - k) /\ (j - k) + k = j
        BY <1>1, <3>3
      <4>2. l[j] = u[j - k] /\ y[j] = v[j - k] /\ v[j - k] = u[j - k]
        BY <1>2, <2>1, <2>3, <4>1
      <4> QED
        BY <2>2, <4>2
    <3> QED
      BY <1>1, <3>1, <3>2, <3>3
  <2>5. x = y
    BY <2>2, <2>3, <2>4, SeqEqual
  <2>6. a = i - k
    <3>1. StripBlock(y) = v
      BY <2>1, StripAround DEF y
    <3> QED
      BY <2>1, <2>5, <3>1 DEF x
  <2> HIDE DEF a
  <2>7. /\ q \in Seq(UserLines) /\ Len(q) = m + 1
        /\ \A j \in 1..(i - k) : q[j] = u[j]
        /\ q[(i - k) + 1] = line
        /\ \A j \in ((i - k) + 1)..m : q[j + 1] = u[j]
    <3>1. i - k \in 0..Len(u) /\ u \in Seq(UserLines) /\ line \in UserLines
      BY <1>3, <2>1 DEF m
    <3>2. q = Added(u, i - k, line)
      BY <2>6
    <3>3. IsAdded(UserLines, q, u, i - k, line)
      BY <3>1, <3>2, AddedIs
    <3> QED
      BY <3>3 DEF IsAdded, m
  <2> HIDE DEF q
  <2> DEFINE z == Around(q, n, b)
  <2>8. /\ z \in Seq(AllLines) /\ Len(z) = m + 1 + k
        /\ \A j \in 1..n : z[j] = q[j]
        /\ \A j \in 1..k : z[n + j] = b[j]
        /\ \A j \in (n + 1)..(m + 1) : z[j + k] = q[j]
    <3>1. n \in 0..Len(q)
      BY <1>1, <2>7
    <3> QED
      BY <2>7, <3>1, AroundIs DEF k
  <2> HIDE DEF z
  <2>9. \A j \in 1..(m + k + 1) : p[j] = z[j]
    <3> SUFFICES ASSUME NEW j \in 1..(m + k + 1) PROVE p[j] = z[j]
      OBVIOUS
    <3>1. CASE j <= n
      <4>1. j \in 1..i /\ j \in 1..n /\ j \in 1..(i - k)
        BY <1>1, <1>7, <3>1
      <4> QED
        BY <1>2, <1>4, <2>7, <2>8, <4>1
    <3>2. CASE n < j /\ j <= n + k
      <4>1. j \in 1..i /\ j - n \in 1..k /\ n + (j - n) = j
        BY <1>1, <1>7, <3>2
      <4>2. p[j] = l[j] /\ l[j] = b[j - n] /\ z[j] = b[j - n]
        BY <1>2, <1>4, <2>8, <4>1
      <4> QED
        BY <4>2
    <3>3. CASE n + k < j /\ j <= i
      <4>1. j \in 1..i /\ j - k \in (n + 1)..m /\ j - k \in (n + 1)..(m + 1) /\ j - k \in 1..(i - k) /\ (j - k) + k = j
        BY <1>1, <3>3
      <4>2. p[j] = l[j] /\ l[j] = u[j - k] /\ z[j] = q[j - k] /\ q[j - k] = u[j - k]
        BY <1>2, <1>4, <2>7, <2>8, <4>1
      <4> QED
        BY <4>2
    <3>4. CASE j = i + 1
      <4>1. (i - k) + 1 \in (n + 1)..(m + 1) /\ ((i - k) + 1) + k = j
        BY <1>1, <1>7, <3>4
      <4>2. z[j] = q[(i - k) + 1]
        BY <2>8, <4>1
      <4> QED
        BY <1>4, <2>7, <3>4, <4>2
    <3>5. CASE i + 1 < j
      <4>1. j - 1 \in (i + 1)..(m + k) /\ (j - 1) + 1 = j
            /\ j - 1 - k \in (n + 1)..m /\ (j - 1 - k) + k = j - 1
            /\ j - k \in (n + 1)..(m + 1) /\ (j - k) + k = j
            /\ j - 1 - k \in ((i - k) + 1)..m /\ (j - 1 - k) + 1 = j - k
        BY <1>1, <1>7, <3>5
      <4>2. p[j] = l[j - 1] /\ l[j - 1] = u[j - 1 - k]
        BY <1>2, <1>4, <4>1
      <4>3. z[j] = q[j - k] /\ q[j - k] = u[j - 1 - k]
        BY <2>7, <2>8, <4>1
      <4> QED
        BY <4>2, <4>3
    <3> QED
      BY <1>1, <3>1, <3>2, <3>3, <3>4, <3>5
  <2>10. p = z
    <3>1. Len(p) = Len(z) /\ Len(p) = m + k + 1
      BY <1>1, <1>4, <2>8
    <3> QED
      BY <1>4, <2>8, <2>9, <3>1, SeqEqual
  <2>11. n \in 0..Len(q)
    BY <1>1, <2>7
  <2>12. \E j \in 0..Len(q) : p = Around(q, j, b)
    BY <2>10, <2>11 DEF z
  <2> QED
    BY <2>7, <2>12 DEF Kept
<1> QED
  BY <1>5, <1>6, <1>7

(* -------------------------------------------------------------------------- *)
LEMMA BlocksInitial == BlocksInit => BlocksInv
<1> SUFFICES ASSUME BlocksInit PROVE BlocksInv
  OBVIOUS
<1>1. command \in Seq(Writes) /\ DOMAIN hook = Hooks /\ DOMAIN own = Hooks /\ DOMAIN promised = Hooks
  BY DEF BlocksInit
<1>2. ASSUME NEW h \in Hooks PROVE Kept(hook[h], own[h], promised[h])
  <2> DEFINE l == CHOOSE l \in Lines : TRUE
  <2>1. l \in Lines
    BY BlocksAssumption
  <2>2. hook[h] = own[h] /\ promised[h] = <<>> /\ own[h] \in {NoHook, <<Shebang>> \o <<l>>}
    BY DEF BlocksInit
  <2> HIDE DEF l
  <2>3. <<Shebang>> \o <<l>> \in Seq(UserLines)
    <3>1. <<Shebang>> \in Seq(UserLines) /\ <<l>> \in Seq(UserLines)
      BY <2>1 DEF UserLines
    <3> QED
      BY <3>1, ConcatProperties
  <2>4. CASE own[h] = NoHook
    BY <2>2, <2>4, RenderedAreBlocks DEF Kept
  <2>5. CASE own[h] \in Seq(UserLines)
    <3>1. own[h] \o <<>> = own[h]
      BY <2>5
    <3> QED
      BY <2>2, <2>5, <3>1, AtTheEnd, RenderedAreBlocks
  <2> QED
    BY <2>2, <2>3, <2>4, <2>5
<1> QED
  BY <1>1, <1>2 DEF BlocksInv

LEMMA BlocksInductive == BlocksInv /\ [BlocksNext]_blockVars => BlocksInv'
<1> SUFFICES ASSUME BlocksInv, [BlocksNext]_blockVars PROVE BlocksInv'
  OBVIOUS
<1> USE DEF BlocksInv
<1>1. ASSUME NEW writes \in Seq(Writes), StartCommand(writes) PROVE BlocksInv'
  BY <1>1 DEF StartCommand
<1>2. ASSUME NEW options, IsBlock(RenderBlock(options)), RunInstall(options) PROVE BlocksInv'
  <2> DEFINE second == IF options.graph THEN RenderAutoUpdateBlock ELSE <<>>
             writes == <<Write("pre", RenderBlock(options)), Write("post", second)>>
  <2>1. IsBlock(second)
    BY RenderedAreBlocks
  <2> HIDE DEF second
  <2>2. writes \in Seq(Writes)
    BY <1>2, <2>1 DEF Writes, Write, Hooks, IsBlock
  <2>3. StartCommand(writes)
    BY <1>2 DEF RunInstall, second
  <2> QED
    BY <1>1, <2>2, <2>3
<1>3. CASE RunRemove
  <2>1. <<Write("pre", <<>>), Write("post", <<>>)>> \in Seq(Writes)
    BY RenderedAreBlocks DEF Writes, Write, Hooks, IsBlock
  <2> QED
    BY <1>1, <1>3, <2>1 DEF RunRemove
<1>4. CASE RunGraphInit
  <2> DEFINE b == RenderBlock([style |-> TRUE, graph |-> TRUE])
  <2>1. IsBlock(b)
    BY RenderedAreBlocks
  <2> HIDE DEF b
  <2>2. <<Write("pre", b)>> \in Seq(Writes)
    BY <2>1 DEF Writes, Write, Hooks, IsBlock
  <2> QED
    BY <1>1, <1>4, <2>2 DEF RunGraphInit, b
<1>5. command # <<>> => /\ Head(command).hook \in Hooks /\ IsBlock(Head(command).block)
                        /\ Tail(command) \in Seq(Writes)
  <2> SUFFICES ASSUME command # <<>>
               PROVE  Head(command) \in Writes /\ Tail(command) \in Seq(Writes)
    BY DEF Writes
  <2> QED
    BY HeadTailProperties
<1>6. CASE WriteHook
  <2> DEFINE w == Head(command)
             c == w.block
             g == w.hook
  <2>1. /\ command # <<>> /\ command' = Tail(command) /\ lost' = lost
        /\ hook' = [hook EXCEPT ![g] = After(w)]
        /\ own' = IF own[g] = NoHook /\ c # <<>> THEN [own EXCEPT ![g] = <<Shebang>>] ELSE own
        /\ promised' = [promised EXCEPT ![g] = c]
    BY <1>6 DEF WriteHook
  <2>2. g \in Hooks /\ IsBlock(c)
    BY <1>5, <2>1
  <2>3. After(w) = IF c = <<>> THEN WithoutBlock(hook[g]) ELSE WithBlock(hook[g], c)
    BY DEF After
  <2> HIDE DEF w, c, g
  <2>4. ASSUME NEW h \in Hooks \ lost PROVE Kept(hook'[h], own'[h], promised'[h])
    <3>1. Kept(hook[h], own[h], promised[h])
      OBVIOUS
    <3>2. CASE h = g
      <4>1. hook'[h] = After(w) /\ promised'[h] = c
            /\ own'[h] = IF own[h] = NoHook /\ c # <<>> THEN <<Shebang>> ELSE own[h]
        BY <2>1, <2>2, <3>2
      <4> QED
        BY <2>2, <2>3, <3>1, <3>2, <4>1, WriteKeeps
    <3>3. CASE h # g
      BY <2>1, <3>1, <3>3
    <3> QED
      BY <3>2, <3>3
  <2> QED
    BY <1>5, <2>1, <2>4
<1>7. CASE ReadFails
  BY <1>5, <1>7 DEF ReadFails
<1>8. CASE WriteFails
  BY <1>8 DEF WriteFails
<1>9. CASE WriteIsCut
  BY <1>5, <1>9 DEF WriteIsCut
<1>10. ASSUME NEW g \in Hooks, NEW line \in Lines, AddLine(g, line) PROVE BlocksInv'
  <2>1. PICK i \in {j \in 0..Len(hook[g]) : ~InsideAt(hook[g], j)} :
          /\ hook' = [hook EXCEPT ![g] = InsertAt(hook[g], i + 1, line)]
          /\ own' = IF g \in lost THEN own
                    ELSE [own EXCEPT ![g] = InsertAt(own[g], Len(StripBlock(SubSeq(hook[g], 1, i))) + 1, line)]
    BY <1>10 DEF AddLine
  <2>2. command' = command /\ lost' = lost /\ promised' = promised /\ hook[g] # NoHook
    BY <1>10 DEF AddLine
  <2>3. ASSUME NEW h \in Hooks \ lost PROVE Kept(hook'[h], own'[h], promised'[h])
    <3>1. Kept(hook[h], own[h], promised[h])
      OBVIOUS
    <3>2. CASE h = g
      <4>1. /\ IsBlock(promised[g]) /\ own[g] \in Seq(UserLines)
            /\ \E n \in 0..Len(own[g]) : hook[g] = Around(own[g], n, promised[g])
        BY <2>2, <3>1, <3>2 DEF Kept
      <4>2. Kept(InsertAt(hook[g], i + 1, line),
                 InsertAt(own[g], Len(StripBlock(SubSeq(hook[g], 1, i))) + 1, line), promised[g])
        BY <2>1, <4>1, LineKeeps
      <4>3. /\ hook'[g] = InsertAt(hook[g], i + 1, line) /\ promised'[g] = promised[g]
            /\ own'[g] = InsertAt(own[g], Len(StripBlock(SubSeq(hook[g], 1, i))) + 1, line)
        BY <2>1, <2>2, <3>2
      <4> QED
        BY <3>2, <4>2, <4>3
    <3>3. CASE h # g
      BY <2>1, <2>2, <3>1, <3>3
    <3> QED
      BY <3>2, <3>3
  <2> QED
    BY <2>1, <2>2, <2>3
<1>11. CASE UNCHANGED blockVars
  BY <1>11 DEF blockVars
<1> QED
  BY <1>2, <1>3, <1>4, <1>6, <1>7, <1>8, <1>9, <1>10, <1>11, RenderedAreBlocks DEF BlocksNext

LEMMA BlocksImply == BlocksInv => UserLinesStay
<1> SUFFICES ASSUME BlocksInv, NEW h \in Hooks \ lost
             PROVE  /\ hook[h] = NoHook <=> own[h] = NoHook
                    /\ hook[h] # NoHook => \E n \in 0..Len(own[h]) : hook[h] = Around(own[h], n, promised[h])
  BY DEF UserLinesStay, Around
<1>1. Kept(hook[h], own[h], promised[h])
  BY DEF BlocksInv
<1>2. CASE own[h] \in Seq(UserLines) /\ \E n \in 0..Len(own[h]) : hook[h] = Around(own[h], n, promised[h])
  <2>1. hook[h] \in Seq(AllLines) /\ own[h] \in Seq(AllLines)
    BY <1>1, <1>2, AroundIs DEF Kept, UserLines, AllLines
  <2> QED
    BY <1>2, <2>1, BlocksAssumption
<1> QED
  BY <1>1, <1>2 DEF Kept

(* Every hook not lost keeps the user's lines, in order, around the last block. *)
THEOREM UsersLinesStay == BlocksSpec => []UserLinesStay
<1>1. BlocksSpec => []BlocksInv
  BY BlocksInitial, BlocksInductive, PTL DEF BlocksSpec
<1> QED
  BY <1>1, BlocksImply, PTL

(* -------------------------------------------------------------------------- *)
(* The ledgers: for any stream of events of any number of calls, with helper   *)
(* calls beside it, a session told to its end is accounted for to the token.   *)
(* Sums over calls and over models become counts of the stream's events.       *)

(* Two functions on the subsets of a finite set that agree on a set whenever   *)
(* they agree on its strict subsets are the same.                              *)
OnSubsets(f, S) == f = [s \in SUBSET S |-> f[s]]
AgreeBelow(f, g, s) == \A r \in SUBSET s : r # s => f[r] = g[r]

LEMMA SubsetsDetermine ==
  ASSUME NEW S, IsFiniteSet(S), NEW f, NEW g,
         OnSubsets(f, S), OnSubsets(g, S),
         \A s \in SUBSET S : AgreeBelow(f, g, s) => f[s] = g[s]
  PROVE  f = g
<1> DEFINE T == {s \in SUBSET S : f[s] # g[s]}
<1>1. T = {}
  <2> SUFFICES ASSUME T # {} PROVE FALSE
    OBVIOUS
  <2>1. T \subseteq FiniteSubsetsOf(S)
    BY FS_FiniteSubsetsOfFinite
  <2>2. PICK s \in T : \A r \in T : ~ (<<r, s>> \in StrictSubsetOrdering(S))
    <3> HIDE DEF T
    <3> QED
      BY <2>1, FS_StrictSubsetOrderingWellFounded, WFMin
  <2>3. AgreeBelow(f, g, s)
    <3> USE DEF AgreeBelow
    <3> SUFFICES ASSUME NEW r \in SUBSET s, r # s, f[r] # g[r] PROVE FALSE
      OBVIOUS
    <3>1. <<r, s>> \in StrictSubsetOrdering(S)
      BY DEF StrictSubsetOrdering
    <3> QED
      BY <2>2, <3>1
  <2> QED
    BY <2>3
<1>2. \A s \in SUBSET S : f[s] = g[s]
  BY <1>1
<1>3. [s \in SUBSET S |-> f[s]] = [s \in SUBSET S |-> g[s]]
  BY <1>2
<1> QED
  BY <1>3 DEF OnSubsets

(* A sum over a finite set is taken element by element; what grows by f[x]     *)
(* with each element x is the only one that can be.                            *)
AnyOf(s)          == CHOOSE x \in s : TRUE
SumRest(f, it, s) == f[AnyOf(s)] + it[s \ {AnyOf(s)}]
SumIter(f, it, S) == [s \in SUBSET S |-> IF s = {} THEN 0 ELSE SumRest(f, it, s)]

Sums(f, g, S) == /\ OnSubsets(g, S) /\ g[{}] = 0
                 /\ \A s \in SUBSET S : \A x \in s : g[s] = f[x] + g[s \ {x}]

LEMMA SumIs ==
  ASSUME NEW S, IsFiniteSet(S), NEW f, NEW g, Sums(f, g, S)
  PROVE  g = SumIter(f, g, S) /\ \A h : h = SumIter(f, h, S) => h = g
<1>1. \A s \in SUBSET S : g[s] = IF s = {} THEN 0 ELSE SumRest(f, g, s)
  BY DEF Sums, SumRest, AnyOf
<1>2. g = SumIter(f, g, S)
  BY <1>1 DEF Sums, OnSubsets, SumIter
<1>3. ASSUME NEW h, h = SumIter(f, h, S) PROVE h = g
  <2>1. ASSUME NEW s \in SUBSET S, AgreeBelow(h, g, s) PROVE h[s] = g[s]
    <3>1. h[s] = IF s = {} THEN 0 ELSE SumRest(f, h, s)
      BY <1>3 DEF SumIter
    <3>2. s # {} => SumRest(f, h, s) = SumRest(f, g, s)
      BY <2>1 DEF SumRest, AnyOf, AgreeBelow
    <3> QED
      BY <1>1, <3>1, <3>2
  <2>2. OnSubsets(h, S) /\ OnSubsets(g, S)
    BY <1>3 DEF SumIter, OnSubsets, Sums
  <2> QED
    BY <2>1, <2>2, SubsetsDetermine
<1> QED
  BY <1>2, <1>3

(* Separate sets count together.                                               *)
LEMMA CountsAdd ==
  ASSUME NEW A, NEW B, IsFiniteSet(A), IsFiniteSet(B), A \cap B = {}
  PROVE  /\ IsFiniteSet(A \cup B) /\ Cardinality(A \cup B) = Cardinality(A) + Cardinality(B)
         /\ Cardinality(A) \in Nat /\ Cardinality(B) \in Nat
<1>1. Cardinality(A \cap B) = 0
  BY FS_EmptySet
<1>2. Cardinality(A) \in Nat /\ Cardinality(B) \in Nat
  BY FS_CardinalityType
<1>3. IsFiniteSet(A \cup B) /\ Cardinality(A \cup B) = Cardinality(A) + Cardinality(B) - Cardinality(A \cap B)
  BY FS_Union
<1> QED
  BY <1>1, <1>2, <1>3

LEMMA SomeOf ==
  ASSUME NEW n \in Nat, NEW A \in SUBSET (1..n)
  PROVE  IsFiniteSet(A) /\ Cardinality(A) \in Nat
<1>1. IsFiniteSet(1..n)
  BY FS_Interval
<1>2. IsFiniteSet(A)
  BY <1>1, FS_Subset
<1> QED
  BY <1>2, FS_CardinalityType

(* -------------------------------------------------------------------------- *)
(* An event of a call tells the blocks so far, a call has one model and one    *)
(* agent, the main agent makes its calls one after the other, and a model      *)
(* costs its events, the helper model perhaps more.                            *)
Event == [id : Nat, model : Models, sidechain : BOOLEAN, usage : Nat, block : Blocks]
OfModel(m) == {i \in DOMAIN stream : stream[i].model = m}
SoFar(i)   == {j \in 1..i : stream[j].id = stream[i].id}

StreamTypeOK ==
  /\ armModel \in MainModels \cup {NoModel}
  /\ stream \in Seq(Event) /\ charged \in [Models -> Nat]
  /\ \E n \in Nat : Told = 1..n
CallsAreWhole ==
  \A i, j \in DOMAIN stream : stream[i].id = stream[j].id =>
    stream[i].model = stream[j].model /\ stream[i].sidechain = stream[j].sidechain
UsageGrows == \A i \in DOMAIN stream : stream[i].usage = Cardinality(SoFar(i))
MainInTurn ==
  /\ \A i \in DOMAIN stream : ~stream[i].sidechain => stream[i].model \in MainModels
  /\ \A i, j \in DOMAIN stream : ~stream[i].sidechain /\ ~stream[j].sidechain /\ i <= j =>
       stream[i].id <= stream[j].id
EventsAreCharged ==
  \A m \in Models : /\ Cardinality(OfModel(m)) <= charged[m]
                    /\ m # HelperModel => Cardinality(OfModel(m)) = charged[m]
StreamInv == StreamTypeOK /\ CallsAreWhole /\ UsageGrows /\ MainInTurn /\ EventsAreCharged

LEMMA StreamInitial == StreamInit => StreamInv
<1> SUFFICES ASSUME StreamInit PROVE StreamInv
  OBVIOUS
<1>1. DOMAIN stream = {} /\ stream = <<>>
  BY DEF StreamInit
<1>2. Told = 1..0
  BY <1>1 DEF Told
<1>3. StreamTypeOK
  BY <1>1, <1>2 DEF StreamInit, StreamTypeOK
<1>4. \A m \in Models : Cardinality(OfModel(m)) = 0 /\ charged[m] = 0
  BY <1>1, FS_EmptySet DEF OfModel, StreamInit
<1> QED
  BY <1>1, <1>3, <1>4 DEF StreamInv, CallsAreWhole, UsageGrows, MainInTurn, EventsAreCharged

(* One more event of a call.                                                   *)
LEMMA TellHolds ==
  ASSUME StreamInv, NEW id \in Nat, NEW model \in Models, NEW side \in BOOLEAN, NEW block \in Blocks,
         Tell(id, model, side, block),
         \E n \in Nat : Told \cup {id} = 1..n,
         \A j \in DOMAIN stream : stream[j].id = id => stream[j].model = model /\ stream[j].sidechain = side,
         ~side => model \in MainModels /\ \A j \in DOMAIN stream : ~stream[j].sidechain => stream[j].id <= id
  PROVE  StreamInv'
<1> USE DEF StreamInv
<1> DEFINE n == Len(stream)
           e == [id |-> id, model |-> model, sidechain |-> side,
                 usage |-> Cardinality(Events(id)) + 1, block |-> block]
<1>1. /\ stream' = Append(stream, e) /\ armModel' = armModel
      /\ charged' = [charged EXCEPT ![model] = charged[model] + 1]
  BY DEF Tell
<1>2. n \in Nat /\ DOMAIN stream = 1..n /\ stream \in Seq(Event)
  BY DEF StreamTypeOK
<1>3. \A i \in 1..n : /\ stream[i].id \in Nat /\ stream[i].model \in Models
                      /\ stream[i].sidechain \in BOOLEAN
  <2>1. \A i \in 1..n : stream[i] \in Event
    BY <1>2
  <2> QED
    BY <2>1 DEF Event
<1>4. IsFiniteSet(Events(id)) /\ Cardinality(Events(id)) \in Nat
  BY <1>2, SomeOf DEF Events
<1>5. e \in Event /\ e.id = id /\ e.model = model /\ e.sidechain = side /\ e.usage = Cardinality(Events(id)) + 1
  BY <1>4 DEF Event
<1> HIDE DEF e
<1>6. /\ stream' \in Seq(Event) /\ DOMAIN stream' = 1..(n + 1)
      /\ \A i \in 1..n : stream'[i] = stream[i]
      /\ stream'[n + 1] = e
  BY <1>1, <1>2, <1>5
<1> HIDE DEF n
<1>7. StreamTypeOK'
  <2>1. Told' = Told \cup {id}
    <3>1. Told' = {stream'[i].id : i \in 1..(n + 1)} /\ Told = {stream[i].id : i \in 1..n}
      BY <1>2, <1>6 DEF Told
    <3>2. 1..(n + 1) = (1..n) \cup {n + 1}
      BY <1>2
    <3> QED
      BY <1>5, <1>6, <3>1, <3>2
  <2>2. charged' \in [Models -> Nat]
    BY <1>1 DEF StreamTypeOK
  <2> QED
    BY <1>1, <1>6, <2>1, <2>2 DEF StreamTypeOK
<1>8. CallsAreWhole'
  <2> SUFFICES ASSUME NEW i \in 1..(n + 1), NEW j \in 1..(n + 1), stream'[i].id = stream'[j].id
               PROVE  stream'[i].model = stream'[j].model /\ stream'[i].sidechain = stream'[j].sidechain
    BY <1>6 DEF CallsAreWhole
  <2>1. (i \in 1..n \/ i = n + 1) /\ (j \in 1..n \/ j = n + 1)
    BY <1>2
  <2> QED
    BY <1>2, <1>5, <1>6, <2>1 DEF CallsAreWhole
<1>9. UsageGrows'
  <2> SUFFICES ASSUME NEW i \in 1..(n + 1) PROVE stream'[i].usage = Cardinality(SoFar(i)')
    BY <1>6 DEF UsageGrows
  <2>1. CASE i \in 1..n
    <3>1. SoFar(i)' = SoFar(i)
      BY <1>2, <1>6, <2>1 DEF SoFar
    <3> QED
      BY <1>2, <1>6, <2>1, <3>1 DEF UsageGrows
  <2>2. CASE i = n + 1
    <3>1. SoFar(i)' = Events(id) \cup {n + 1}
      <4>1. SoFar(i)' = {j \in 1..(n + 1) : stream'[j].id = id}
        BY <1>5, <1>6, <2>2 DEF SoFar
      <4>2. 1..(n + 1) = (1..n) \cup {n + 1}
        BY <1>2
      <4> QED
        BY <1>2, <1>5, <1>6, <4>1, <4>2 DEF Events
    <3>2. n + 1 \notin Events(id)
      BY <1>2 DEF Events
    <3>3. Cardinality(SoFar(i)') = Cardinality(Events(id)) + 1
      BY <1>4, <3>1, <3>2, FS_AddElement
    <3> QED
      BY <1>5, <1>6, <2>2, <3>3
  <2> QED
    BY <1>2, <2>1, <2>2
<1>10. MainInTurn'
  <2>1. ASSUME NEW i \in 1..(n + 1), ~stream'[i].sidechain PROVE stream'[i].model \in MainModels
    <3>1. i \in 1..n \/ i = n + 1
      BY <1>2
    <3> QED
      BY <1>2, <1>5, <1>6, <2>1, <3>1 DEF MainInTurn
  <2>2. ASSUME NEW i \in 1..(n + 1), NEW j \in 1..(n + 1), i <= j,
               ~stream'[i].sidechain, ~stream'[j].sidechain
        PROVE  stream'[i].id <= stream'[j].id
    <3>1. CASE j \in 1..n
      <4>1. i \in 1..n
        BY <1>2, <2>2, <3>1
      <4> QED
        BY <1>2, <1>6, <2>2, <3>1, <4>1 DEF MainInTurn
    <3>2. CASE i \in 1..n /\ j = n + 1
      <4>1. stream[i].id <= id
        BY <1>2, <1>5, <1>6, <2>2, <3>2
      <4> QED
        BY <1>5, <1>6, <3>2, <4>1
    <3>3. CASE i = n + 1 /\ j = n + 1
      BY <1>5, <1>6, <3>3
    <3> QED
      BY <1>2, <2>2, <3>1, <3>2, <3>3
  <2> QED
    BY <1>6, <2>1, <2>2 DEF MainInTurn
<1>11. EventsAreCharged'
  <2> SUFFICES ASSUME NEW m \in Models
               PROVE  /\ Cardinality(OfModel(m)') <= charged'[m]
                      /\ m # HelperModel => Cardinality(OfModel(m)') = charged'[m]
    BY DEF EventsAreCharged
  <2>1. /\ Cardinality(OfModel(m)) <= charged[m] /\ charged[m] \in Nat
        /\ m # HelperModel => Cardinality(OfModel(m)) = charged[m]
    BY DEF EventsAreCharged, StreamTypeOK
  <2>2. IsFiniteSet(OfModel(m)) /\ Cardinality(OfModel(m)) \in Nat
    BY <1>2, SomeOf DEF OfModel
  <2>3. 1..(n + 1) = (1..n) \cup {n + 1}
    BY <1>2
  <2>4. CASE m = model
    <3>1. OfModel(m)' = OfModel(m) \cup {n + 1} /\ n + 1 \notin OfModel(m)
      BY <1>2, <1>5, <1>6, <2>3, <2>4 DEF OfModel
    <3>2. Cardinality(OfModel(m)') = Cardinality(OfModel(m)) + 1
      BY <2>2, <3>1, FS_AddElement
    <3>3. charged'[m] = charged[m] + 1
      BY <1>1, <2>4 DEF StreamTypeOK
    <3> QED
      BY <2>1, <2>2, <3>2, <3>3
  <2>5. CASE m # model
    <3>1. OfModel(m)' = OfModel(m)
      BY <1>2, <1>5, <1>6, <2>3, <2>5 DEF OfModel
    <3>2. charged'[m] = charged[m]
      BY <1>1, <2>5 DEF StreamTypeOK
    <3> QED
      BY <2>1, <3>1, <3>2
  <2> QED
    BY <2>4, <2>5
<1> QED
  BY <1>7, <1>8, <1>9, <1>10, <1>11

LEMMA StreamInductive == StreamInv /\ [StreamNext]_streamVars => StreamInv'
<1> SUFFICES ASSUME StreamInv, [StreamNext]_streamVars PROVE StreamInv'
  OBVIOUS
<1> USE DEF StreamInv
<1>1. PICK n \in Nat : Told = 1..n
  BY DEF StreamTypeOK
<1>2. \A i \in DOMAIN stream : /\ stream[i].id \in 1..n /\ stream[i].model \in Models
                              /\ stream[i].sidechain \in BOOLEAN
  <2>1. \A i \in DOMAIN stream : stream[i] \in Event /\ stream[i].id \in Told
    BY DEF StreamTypeOK, Told
  <2> QED
    BY <1>1, <2>1 DEF Event
<1>3. CASE StartCall
  <2>1. PICK side \in BOOLEAN, m \in Models, b \in Blocks :
          /\ IF side THEN stream # <<>> ELSE m \in MainModels
          /\ Tell(Cardinality(Told) + 1, m, side, b)
    BY <1>3 DEF StartCall
  <2>2. Cardinality(Told) = n
    BY <1>1, FS_Interval
  <2>3. Told \cup {n + 1} = 1..(n + 1) /\ n + 1 \in Nat
    BY <1>1
  <2>4. \A j \in DOMAIN stream : stream[j].id # n + 1 /\ stream[j].id <= n + 1
    BY <1>1, <1>2
  <2> QED
    BY <2>1, <2>2, <2>3, <2>4, TellHolds
<1>4. CASE NextBlock
  <2>1. PICK i \in DOMAIN stream, b \in Blocks :
          /\ stream[i].sidechain \/ \A j \in DOMAIN stream : stream[j].sidechain \/ stream[j].id <= stream[i].id
          /\ Tell(stream[i].id, stream[i].model, stream[i].sidechain, b)
    BY <1>4 DEF NextBlock
  <2>2. Told \cup {stream[i].id} = 1..n /\ stream[i].id \in Nat
    BY <1>1, <1>2
  <2>3. \A j \in DOMAIN stream : stream[j].id = stream[i].id =>
          stream[j].model = stream[i].model /\ stream[j].sidechain = stream[i].sidechain
    BY DEF CallsAreWhole
  <2>4. ~stream[i].sidechain => stream[i].model \in MainModels
    BY DEF MainInTurn
  <2> QED
    BY <1>2, <2>1, <2>2, <2>3, <2>4, TellHolds
<1>5. CASE CallHelper
  <2>1. /\ stream' = stream /\ armModel' = armModel
        /\ charged' = [charged EXCEPT ![HelperModel] = charged[HelperModel] + 1]
    BY <1>5 DEF CallHelper
  <2>2. charged' \in [Models -> Nat]
    BY <2>1, StreamAssumption DEF StreamTypeOK
  <2>3. StreamTypeOK' /\ CallsAreWhole' /\ UsageGrows' /\ MainInTurn'
    BY <2>1, <2>2 DEF StreamTypeOK, Told, CallsAreWhole, UsageGrows, SoFar, MainInTurn
  <2>4. EventsAreCharged'
    <3> SUFFICES ASSUME NEW m \in Models
                 PROVE  /\ Cardinality(OfModel(m)) <= charged'[m]
                        /\ m # HelperModel => Cardinality(OfModel(m)) = charged'[m]
      BY <2>1 DEF EventsAreCharged, OfModel
    <3>1. charged'[m] = IF m = HelperModel THEN charged[m] + 1 ELSE charged[m]
      BY <2>1 DEF StreamTypeOK
    <3>2. Cardinality(OfModel(m)) \in Nat /\ charged[m] \in Nat
      <4>1. stream \in Seq(Event) /\ DOMAIN stream = 1..Len(stream) /\ Len(stream) \in Nat
        BY DEF StreamTypeOK
      <4> QED
        BY <4>1, SomeOf DEF OfModel, StreamTypeOK
    <3> QED
      BY <3>1, <3>2 DEF EventsAreCharged
  <2> QED
    BY <2>3, <2>4
<1>6. CASE TellResult \/ UNCHANGED streamVars
  BY <1>6 DEF TellResult, streamVars, StreamTypeOK, Told, CallsAreWhole, UsageGrows, SoFar, MainInTurn,
              EventsAreCharged, OfModel
<1> QED
  BY <1>3, <1>4, <1>5, <1>6 DEF StreamNext

(* -------------------------------------------------------------------------- *)
(* A call is what its last event says: as many blocks as it has events.        *)
LEMMA CallIs ==
  ASSUME StreamInv, NEW i \in DOMAIN stream
  PROVE  LET c == CollectCalls(stream)[stream[i].id]
         IN c.usage = Cardinality(Events(stream[i].id)) /\ c.model = stream[i].model /\ c.sidechain = stream[i].sidechain
<1> USE DEF StreamInv
<1> DEFINE n  == Len(stream)
           id == stream[i].id
           k  == Max(Events(id))
<1>1. n \in Nat /\ DOMAIN stream = 1..n
  BY DEF StreamTypeOK
<1>2. Events(id) \subseteq 1..n /\ i \in Events(id)
  BY <1>1 DEF Events
<1> HIDE DEF n
<1>3. \E m \in Events(id) : \A j \in Events(id) : m >= j
  <2> DEFINE T == {n - j : j \in Events(id)}
  <2>1. T \subseteq Nat /\ T # {}
    BY <1>1, <1>2
  <2>2. PICK t \in T : \A y \in T : t <= y
    BY <2>1, NatLeast
  <2>3. PICK m \in Events(id) : t = n - m
    OBVIOUS
  <2>4. \A j \in Events(id) : n - m <= n - j
    BY <2>2, <2>3
  <2> QED
    BY <1>1, <1>2, <2>4
<1>4. k \in Events(id) /\ \A j \in Events(id) : k >= j
  BY <1>3 DEF Max
<1> HIDE DEF k
<1>5. CollectCalls(stream)[id] = stream[k]
  <2>1. id \in {stream[j].id : j \in DOMAIN stream}
    OBVIOUS
  <2> QED
    BY <2>1 DEF CollectCalls, Events, k
<1>6. k \in 1..n /\ stream[k].id = id
  BY <1>1, <1>2, <1>4 DEF Events
<1>7. SoFar(k) = Events(id)
  BY <1>1, <1>2, <1>4, <1>6 DEF SoFar, Events
<1> QED
  BY <1>1, <1>5, <1>6, <1>7 DEF UsageGrows, CallsAreWhole

(* A ledger of calls counts their events.                                      *)
OfCalls(ids) == {i \in DOMAIN stream : stream[i].id \in ids}

LEMMA LedgerIs ==
  ASSUME StreamInv, NEW ids \in SUBSET Told
  PROVE  LedgerOf(CollectCalls(stream), ids) = Cardinality(OfCalls(ids))
<1> DEFINE calls == CollectCalls(stream)
           f == [id \in ids |-> calls[id].usage]
           g == [s \in SUBSET ids |-> Cardinality(OfCalls(s))]
           Rest(it, s) == calls[CHOOSE x \in s : TRUE].usage + it[s \ {CHOOSE x \in s : TRUE}]
           Iter(it) == [s \in SUBSET ids |-> IF s = {} THEN 0 ELSE Rest(it, s)]
           h == CHOOSE it : it = Iter(it)
<1>1. PICK n \in Nat : DOMAIN stream = 1..n
  BY DEF StreamInv, StreamTypeOK
<1>2. IsFiniteSet(ids)
  <2>1. PICK m \in Nat : Told = 1..m
    BY DEF StreamInv, StreamTypeOK
  <2> QED
    BY <2>1, SomeOf
<1>3. Sums(f, g, ids)
  <2>1. OnSubsets(g, ids)
    BY DEF OnSubsets
  <2>2. g[{}] = 0
    <3>1. OfCalls({}) = {}
      BY DEF OfCalls
    <3> QED
      BY <3>1, FS_EmptySet
  <2>3. ASSUME NEW s \in SUBSET ids, NEW x \in s PROVE g[s] = f[x] + g[s \ {x}]
    <3>1. OfCalls(s) = Events(x) \cup OfCalls(s \ {x}) /\ Events(x) \cap OfCalls(s \ {x}) = {}
      BY DEF OfCalls, Events
    <3>2. Events(x) \in SUBSET (1..n) /\ OfCalls(s \ {x}) \in SUBSET (1..n)
      BY <1>1 DEF OfCalls, Events
    <3>3. Cardinality(OfCalls(s)) = Cardinality(Events(x)) + Cardinality(OfCalls(s \ {x}))
      BY <3>1, <3>2, SomeOf, CountsAdd
    <3>4. PICK i \in DOMAIN stream : stream[i].id = x
      BY DEF Told
    <3>5. f[x] = Cardinality(Events(x))
      BY <3>4, CallIs
    <3>6. s \ {x} \in SUBSET ids
      OBVIOUS
    <3> HIDE DEF f
    <3> QED
      BY <3>3, <3>5, <3>6
  <2> HIDE DEF f, g
  <2> QED
    BY <2>1, <2>2, <2>3 DEF Sums
<1>4. LedgerOf(calls, ids) = h[ids]
  BY DEF LedgerOf, MapThenSumSet, MapThenFoldSet
<1>5. \A it : Iter(it) = SumIter(f, it, ids)
  <2> SUFFICES ASSUME NEW it PROVE Iter(it) = SumIter(f, it, ids)
    OBVIOUS
  <2>1. ASSUME NEW s \in SUBSET ids, s # {} PROVE Rest(it, s) = SumRest(f, it, s)
    <3>1. (CHOOSE x \in s : TRUE) \in ids
      BY <2>1
    <3> QED
      BY <3>1 DEF SumRest, AnyOf
  <2> HIDE DEF Rest, f
  <2> QED
    BY <2>1 DEF SumIter
<1> HIDE DEF Iter, f, calls
<1>6. g = Iter(g)
  <2> HIDE DEF g
  <2> QED
    BY <1>2, <1>3, <1>5, SumIs
<1>7. h = Iter(h)
  <2> HIDE DEF g
  <2> QED
    BY <1>6
<1>8. h = g
  <2> HIDE DEF g, h
  <2> QED
    BY <1>2, <1>3, <1>5, <1>7, SumIs
<1> QED
  BY <1>4, <1>8 DEF calls

(* What models cost: their events, and what the helper model cost beside.      *)
OfModels(models) == {i \in DOMAIN stream : stream[i].model \in models}
Beside == charged[HelperModel] - Cardinality(OfModel(HelperModel))

LEMMA ChargedIs ==
  ASSUME StreamInv, NEW models \in SUBSET Models
  PROVE  Charged(models) = Cardinality(OfModels(models)) + (IF HelperModel \in models THEN Beside ELSE 0)
<1> DEFINE f == charged
           g == [s \in SUBSET models |-> Cardinality(OfModels(s)) + (IF HelperModel \in s THEN Beside ELSE 0)]
           h == CHOOSE it : it = SumIter(f, it, models)
<1>1. PICK n \in Nat : DOMAIN stream = 1..n
  BY DEF StreamInv, StreamTypeOK
<1>2. IsFiniteSet(models)
  BY StreamAssumption, FS_Subset
<1>3. Sums(f, g, models)
  <2>1. OnSubsets(g, models)
    BY DEF OnSubsets
  <2>2. g[{}] = 0
    <3>1. OfModels({}) = {}
      BY DEF OfModels
    <3> QED
      BY <3>1, FS_EmptySet
  <2>3. ASSUME NEW s \in SUBSET models, NEW x \in s PROVE g[s] = charged[x] + g[s \ {x}]
    <3> DEFINE r == s \ {x}
    <3>1. OfModels(s) = OfModel(x) \cup OfModels(r) /\ OfModel(x) \cap OfModels(r) = {}
      BY DEF OfModel, OfModels
    <3>2. OfModel(x) \in SUBSET (1..n) /\ OfModels(r) \in SUBSET (1..n)
      BY <1>1 DEF OfModel, OfModels
    <3>3. /\ Cardinality(OfModels(s)) = Cardinality(OfModel(x)) + Cardinality(OfModels(r))
          /\ Cardinality(OfModel(x)) \in Nat /\ Cardinality(OfModels(r)) \in Nat
      BY <3>1, <3>2, SomeOf, CountsAdd
    <3>4. charged[x] \in Nat /\ charged[HelperModel] \in Nat /\ (x # HelperModel => charged[x] = Cardinality(OfModel(x)))
      BY StreamAssumption DEF StreamInv, StreamTypeOK, EventsAreCharged
    <3>5. g[s] = Cardinality(OfModels(s)) + (IF HelperModel \in s THEN Beside ELSE 0)
      OBVIOUS
    <3>6. g[r] = Cardinality(OfModels(r)) + (IF HelperModel \in r THEN Beside ELSE 0)
      OBVIOUS
    <3> HIDE DEF g
    <3>7. CASE x = HelperModel
      <4>1. HelperModel \in s /\ HelperModel \notin r
        BY <3>7
      <4> QED
        BY <3>3, <3>4, <3>5, <3>6, <3>7, <4>1 DEF Beside
    <3>8. CASE x # HelperModel
      <4>1. HelperModel \in s <=> HelperModel \in r
        BY <3>8
      <4>2. Beside \in Int
        <5>1. Cardinality(OfModel(HelperModel)) \in Nat
          <6>1. OfModel(HelperModel) \in SUBSET (1..n)
            BY <1>1 DEF OfModel
          <6> QED
            BY <6>1, SomeOf
        <5> QED
          BY <3>4, <5>1 DEF Beside
      <4>3. Cardinality(OfModel(x)) = charged[x]
        BY <3>4, <3>8
      <4> DEFINE rest == IF HelperModel \in r THEN Beside ELSE 0
      <4>4. rest \in Int /\ g[s] = Cardinality(OfModels(s)) + rest /\ g[r] = Cardinality(OfModels(r)) + rest
        BY <3>5, <3>6, <4>1, <4>2
      <4> HIDE DEF rest
      <4>5. g[s] = charged[x] + Cardinality(OfModels(r)) + rest
        BY <3>3, <4>3, <4>4
      <4> QED
        BY <3>3, <3>4, <4>4, <4>5
    <3> QED
      BY <3>7, <3>8
  <2> HIDE DEF g
  <2> QED
    BY <2>1, <2>2, <2>3 DEF Sums
<1>4. Charged(models) = h[models]
  BY DEF Charged, MapThenSumSet, MapThenFoldSet, SumIter, SumRest, AnyOf
<1> HIDE DEF f
<1>5. h = SumIter(f, h, models)
  <2> HIDE DEF g
  <2> QED
    BY <1>2, <1>3, SumIs
<1>6. h = g
  <2> HIDE DEF g, h
  <2> QED
    BY <1>2, <1>3, <1>5, SumIs
<1> QED
  BY <1>4, <1>6

(* What the ledgers of a session told to its end add up to.                    *)
LEMMA GapCloses ==
  ASSUME StreamInv, result = "modelUsage"
  PROVE  LedgerGap = 0
<1> USE DEF StreamInv
<1> DEFINE calls   == CollectCalls(stream)
           Arm(m)  == IsArmModel(calls, m)
           side    == {id \in DOMAIN calls \ MainCalls(calls) : Arm(calls[id].model)}
           others  == {m \in ModelUsage : ~Arm(m)}
           mainAt  == OfCalls(MainCalls(calls))
           sideAt  == OfCalls(side)
           otherAt == OfModels(others)
<1>1. PICK n \in Nat : DOMAIN stream = 1..n
  BY DEF StreamTypeOK
<1>2. \A i \in 1..n : /\ stream[i].id \in Told /\ stream[i].model \in Models
                      /\ stream[i].sidechain \in BOOLEAN
  <2>1. \A i \in 1..n : stream[i] \in Event
    BY <1>1 DEF StreamTypeOK
  <2> QED
    BY <1>1, <2>1 DEF Event, Told
<1>3. DOMAIN calls = Told
  BY DEF CollectCalls, Told
<1>4. \A i \in 1..n : /\ calls[stream[i].id].model = stream[i].model
                      /\ calls[stream[i].id].sidechain = stream[i].sidechain
  BY <1>1, CallIs
<1> HIDE DEF calls
<1>5. mainAt = {i \in 1..n : ~stream[i].sidechain}
  BY <1>1, <1>2, <1>3, <1>4 DEF OfCalls, MainCalls
<1>6. \A i \in 1..n : ~stream[i].sidechain => Arm(stream[i].model)
  BY <1>2, <1>3, <1>4 DEF IsArmModel, MainCalls
<1>7. ~Arm(HelperModel)
  <2>1. HelperModel # armModel
    BY StreamAssumption DEF StreamTypeOK
  <2>2. ASSUME NEW id \in MainCalls(calls) PROVE calls[id].model # HelperModel
    <3>1. id \in Told /\ ~calls[id].sidechain
      BY <1>3 DEF MainCalls
    <3>2. PICK i \in 1..n : stream[i].id = id
      BY <1>1, <3>1 DEF Told
    <3>3. stream[i].model \in MainModels
      BY <1>1, <1>4, <3>1, <3>2 DEF MainInTurn
    <3> QED
      BY <1>4, <3>2, <3>3, StreamAssumption
  <2> QED
    BY <2>1, <2>2 DEF IsArmModel
<1> HIDE DEF Arm
<1>8. sideAt = {i \in 1..n : stream[i].sidechain /\ Arm(stream[i].model)}
  BY <1>1, <1>2, <1>3, <1>4 DEF OfCalls, MainCalls
<1>9. \A m \in Models : /\ charged[m] \in Nat /\ Cardinality(OfModel(m)) \in Nat
                        /\ Cardinality(OfModel(m)) <= charged[m] /\ IsFiniteSet(OfModel(m))
  <2>1. \A m \in Models : OfModel(m) \in SUBSET (1..n)
    BY <1>1 DEF OfModel
  <2> QED
    BY <2>1, SomeOf DEF StreamTypeOK, EventsAreCharged
<1>10. \A i \in 1..n : charged[stream[i].model] > 0
  <2> SUFFICES ASSUME NEW i \in 1..n PROVE charged[stream[i].model] > 0
    OBVIOUS
  <2> DEFINE m == stream[i].model
  <2>1. m \in Models /\ i \in OfModel(m)
    BY <1>1, <1>2 DEF OfModel
  <2> HIDE DEF m
  <2>2. Cardinality(OfModel(m)) # 0
    BY <1>9, <2>1, FS_EmptySet
  <2>3. charged[m] > 0
    BY <1>9, <2>1, <2>2
  <2> QED
    BY <2>3 DEF m
<1>11. others = {m \in Models : charged[m] > 0 /\ ~Arm(m)}
  BY DEF ModelUsage
<1>12. otherAt = {i \in 1..n : stream[i].sidechain /\ ~Arm(stream[i].model)}
  BY <1>1, <1>2, <1>6, <1>10, <1>11 DEF OfModels
<1>13. OfModels(Models) = 1..n /\ Cardinality(1..n) = n
  BY <1>1, <1>2, FS_Interval DEF OfModels
<1>14. /\ Cardinality(mainAt) + Cardinality(sideAt) + Cardinality(otherAt) = n
       /\ Cardinality(mainAt) \in Nat /\ Cardinality(sideAt) \in Nat /\ Cardinality(otherAt) \in Nat
  <2>1. /\ 1..n = (mainAt \cup sideAt) \cup otherAt
        /\ mainAt \cap sideAt = {} /\ (mainAt \cup sideAt) \cap otherAt = {}
    BY <1>2, <1>5, <1>8, <1>12
  <2>2. mainAt \in SUBSET (1..n) /\ sideAt \in SUBSET (1..n) /\ otherAt \in SUBSET (1..n)
    BY <1>5, <1>8, <1>12
  <2> HIDE DEF mainAt, sideAt, otherAt
  <2>3. IsFiniteSet(mainAt) /\ IsFiniteSet(sideAt) /\ IsFiniteSet(otherAt)
    BY <2>2, SomeOf
  <2>4. /\ Cardinality(mainAt \cup sideAt) = Cardinality(mainAt) + Cardinality(sideAt)
        /\ IsFiniteSet(mainAt \cup sideAt)
    BY <2>1, <2>3, CountsAdd
  <2>5. Cardinality(1..n) = Cardinality(mainAt \cup sideAt) + Cardinality(otherAt)
    BY <2>1, <2>3, <2>4, CountsAdd
  <2> QED
    BY <1>13, <2>2, <2>4, <2>5, SomeOf
<1>15. /\ LedgerOf(calls, MainCalls(calls)) = Cardinality(mainAt)
       /\ LedgerOf(calls, side) = Cardinality(sideAt)
  <2>1. MainCalls(calls) \in SUBSET Told /\ side \in SUBSET Told
    BY <1>3 DEF MainCalls
  <2> HIDE DEF side
  <2> QED
    BY <2>1, LedgerIs DEF calls
<1>16. Charged(Models) = n + Beside
  BY <1>13, StreamAssumption, ChargedIs
<1>17. Charged(others) = Cardinality(otherAt) + Beside
  <2>1. others \in SUBSET Models
    BY <1>11
  <2>2. Charged(others) = Cardinality(otherAt) + (IF HelperModel \in others THEN Beside ELSE 0)
    BY <2>1, ChargedIs
  <2>3. HelperModel \notin others => Beside = 0
    <3>1. HelperModel \notin others => charged[HelperModel] = 0 /\ Cardinality(OfModel(HelperModel)) = 0
      BY <1>7, <1>9, <1>11, StreamAssumption
    <3> QED
      BY <3>1 DEF Beside
  <2> HIDE DEF others, otherAt
  <2> QED
    BY <1>14, <2>2, <2>3
<1>18. Beside \in Int
  BY <1>9, StreamAssumption DEF Beside
<1>19. HelperLedger(calls) = Cardinality(sideAt) + (Cardinality(otherAt) + Beside)
  BY <1>15, <1>17 DEF HelperLedger, Arm
<1>20. SessionTotal = n + Beside
  BY <1>16 DEF SessionTotal
<1> HIDE DEF mainAt, sideAt, otherAt
<1>21. LedgerGap = (n + Beside) - Cardinality(mainAt) - (Cardinality(sideAt) + (Cardinality(otherAt) + Beside))
  BY <1>15, <1>19, <1>20 DEF LedgerGap, calls
<1> QED
  BY <1>14, <1>18, <1>21

(* The calls before the first edit are those told before it but its own.       *)
LEMMA TurnsAreBefore ==
  ASSUME StreamInv, Edits # {}
  PROVE  LET edit == stream[Min(Edits)].id
         IN PreEditTurns =
              Cardinality({stream[i].id : i \in {j \in DOMAIN stream : ~stream[j].sidechain /\ stream[j].id < edit}})
<1> USE DEF StreamInv
<1> DEFINE first  == Min(Edits)
           edit   == stream[first].id
           turns  == {stream[i].id : i \in {j \in 1..(first - 1) : ~stream[j].sidechain}}
           before == {stream[i].id : i \in {j \in DOMAIN stream : ~stream[j].sidechain /\ stream[j].id < edit}}
<1>1. PICK n \in Nat : DOMAIN stream = 1..n
  BY DEF StreamTypeOK
<1>2. PICK t \in Nat : Told = 1..t
  BY DEF StreamTypeOK
<1>3. \A i \in 1..n : stream[i].id \in Told /\ stream[i].id \in Nat
  <2>1. \A i \in 1..n : stream[i].id \in Told
    BY <1>1 DEF Told
  <2> QED
    BY <1>2, <2>1
<1>4. first \in Edits /\ \A j \in Edits : first <= j
  <2>1. Edits \subseteq Nat
    BY <1>1 DEF Edits
  <2>2. \E m \in Edits : \A j \in Edits : m <= j
    BY <2>1, NatLeast
  <2> QED
    BY <2>2 DEF Min
<1>5. first \in 1..n /\ ~stream[first].sidechain
  BY <1>1, <1>4 DEF Edits
<1>6. turns \subseteq Told
  BY <1>1, <1>3, <1>5
<1>7. before = turns \ {edit}
  <2>1. ASSUME NEW x \in before PROVE x \in turns \ {edit}
    <3>1. PICK j \in 1..n : ~stream[j].sidechain /\ stream[j].id < edit /\ x = stream[j].id
      BY <1>1
    <3>2. ~ (first <= j)
      BY <1>1, <1>3, <1>5, <3>1 DEF MainInTurn
    <3>3. j \in 1..(first - 1)
      BY <1>5, <3>1, <3>2
    <3> QED
      BY <1>3, <1>5, <3>1, <3>3
  <2>2. ASSUME NEW x \in turns \ {edit} PROVE x \in before
    <3>1. PICK j \in 1..(first - 1) : ~stream[j].sidechain /\ x = stream[j].id
      OBVIOUS
    <3>2. j \in 1..n /\ j <= first
      BY <1>5, <3>1
    <3>3. stream[j].id <= edit
      BY <1>1, <1>5, <3>1, <3>2 DEF MainInTurn
    <3>4. stream[j].id < edit
      BY <1>3, <1>5, <2>2, <3>1, <3>2, <3>3
    <3> QED
      BY <1>1, <3>1, <3>2, <3>4
  <2> QED
    BY <2>1, <2>2
<1>8. IsFiniteSet(turns)
  BY <1>2, <1>6, SomeOf
<1>9. PreEditTurns = IF edit \in turns THEN Cardinality(turns) - 1 ELSE Cardinality(turns)
  BY DEF PreEditTurns
<1> HIDE DEF turns, edit, before
<1>10. PreEditTurns = Cardinality(turns \ {edit})
  <2>1. CASE edit \in turns
    BY <1>8, <1>9, <2>1, FS_RemoveElement
  <2>2. CASE edit \notin turns
    <3>1. turns \ {edit} = turns
      BY <2>2
    <3> QED
      BY <1>9, <2>2, <3>1
  <2> QED
    BY <2>1, <2>2
<1> QED
  BY <1>7, <1>10 DEF edit, before

(* In every state the ledgers of a told session add up to its total, and the   *)
(* turns before the first edit are those before it.                            *)
THEOREM LedgersAddUp == StreamSpec => []LedgersBalance
<1>1. StreamInv => LedgersBalance
  BY GapCloses, TurnsAreBefore DEF LedgersBalance
<1>2. StreamSpec => []StreamInv
  BY StreamInitial, StreamInductive, PTL DEF StreamSpec
<1> QED
  BY <1>1, <1>2, PTL

(* -------------------------------------------------------------------------- *)
(* The session-start hook: for any notes, caps and answers, whatever its two   *)
(* CLI runs do and however long they take, what it leaves is settled.          *)

(* The loop of Among over the first n entries.                                 *)
AmongLoop(f, n, list, rows) ==
  [i \in 0..n |-> IF i = 0 THEN <<>>
                  ELSE IF list[i] \in rows THEN Append(f[i - 1], list[i]) ELSE f[i - 1]]

LEMMA AmongLoops ==
  ASSUME NEW n \in Nat, NEW list, NEW rows
  PROVE  \E f : f = AmongLoop(f, n, list, rows)
<1> DEFINE T == {m \in 0..n : ~ \E f : f = AmongLoop(f, m, list, rows)}
<1>1. T = {}
  <2> SUFFICES ASSUME T # {} PROVE FALSE
    OBVIOUS
  <2>1. T \subseteq Nat
    OBVIOUS
  <2>2. PICK m \in T : \A y \in T : m <= y
    <3> HIDE DEF T
    <3> QED
      BY <2>1, NatLeast
  <2>3. CASE m = 0
    <3> DEFINE f == [i \in 0..0 |-> <<>>]
    <3>1. f = AmongLoop(f, 0, list, rows)
      BY DEF AmongLoop
    <3> QED
      BY <2>3, <3>1
  <2>4. CASE m # 0
    <3>1. m - 1 \in 0..n /\ m \in Nat /\ ~ (m <= m - 1)
      BY <2>4
    <3>2. m - 1 \notin T
      BY <2>2, <3>1
    <3>3. PICK f : f = AmongLoop(f, m - 1, list, rows)
      BY <3>1, <3>2
    <3> DEFINE last == IF list[m] \in rows THEN Append(f[m - 1], list[m]) ELSE f[m - 1]
               g == [i \in 0..m |-> IF i = m THEN last ELSE f[i]]
    <3> HIDE DEF last
    <3>4. \A i \in 0..(m - 1) : f[i] = IF i = 0 THEN <<>>
                                       ELSE IF list[i] \in rows THEN Append(f[i - 1], list[i]) ELSE f[i - 1]
      BY <3>3 DEF AmongLoop
    <3>5. \A i \in 0..(m - 1) : g[i] = f[i]
      BY <3>1
    <3>6. g[m] = last
      BY <3>1
    <3>7. g = [i \in 0..m |-> g[i]]
      OBVIOUS
    <3> HIDE DEF g
    <3>8. ASSUME NEW i \in 0..m
          PROVE  g[i] = IF i = 0 THEN <<>>
                        ELSE IF list[i] \in rows THEN Append(g[i - 1], list[i]) ELSE g[i - 1]
      <4>1. CASE i = m
        <5>1. m # 0 /\ g[m - 1] = f[m - 1]
          BY <2>4, <3>1, <3>5
        <5> QED
          BY <3>6, <4>1, <5>1 DEF last
      <4>2. CASE i # m /\ i # 0
        <5>1. i \in 0..(m - 1) /\ i - 1 \in 0..(m - 1)
          BY <3>1, <4>2
        <5> QED
          BY <3>4, <3>5, <4>2, <5>1
      <4>3. CASE i = 0
        <5>1. 0 \in 0..(m - 1)
          BY <2>4, <3>1
        <5> QED
          BY <3>4, <3>5, <4>3, <5>1
      <4> QED
        BY <4>1, <4>2, <4>3
    <3>9. g = AmongLoop(g, m, list, rows)
      BY <3>7, <3>8 DEF AmongLoop
    <3> QED
      BY <3>9
  <2> QED
    BY <2>3, <2>4
<1> QED
  BY <1>1

(* What Among leaves are entries of the list, and among the rows.              *)
LEMMA AmongIs ==
  ASSUME NEW S, NEW list \in Seq(S), NEW rows
  PROVE  Among(list, rows) \in Seq(S \cap rows)
<1> DEFINE n == Len(list)
           h == CHOOSE f : f = AmongLoop(f, n, list, rows)
           T == {i \in 0..n : h[i] \notin Seq(S \cap rows)}
<1>1. n \in Nat /\ \A i \in 1..n : list[i] \in S
  OBVIOUS
<1>2. h = AmongLoop(h, n, list, rows)
  BY <1>1, AmongLoops
<1>3. Among(list, rows) = h[n]
  BY DEF Among, AmongLoop
<1> HIDE DEF h, n
<1>4. \A i \in 0..n : h[i] = IF i = 0 THEN <<>>
                             ELSE IF list[i] \in rows THEN Append(h[i - 1], list[i]) ELSE h[i - 1]
  BY <1>2 DEF AmongLoop
<1>5. T = {}
  <2> SUFFICES ASSUME T # {} PROVE FALSE
    OBVIOUS
  <2>1. T \subseteq Nat
    BY <1>1
  <2>2. PICK m \in T : \A y \in T : m <= y
    <3> HIDE DEF T
    <3> QED
      BY <2>1, NatLeast
  <2>3. m # 0
    <3>1. h[0] = <<>>
      BY <1>1, <1>4
    <3>2. <<>> \in Seq(S \cap rows)
      OBVIOUS
    <3> QED
      BY <3>1, <3>2
  <2>4. m \in 1..n /\ m - 1 \in 0..n /\ ~ (m <= m - 1)
    BY <1>1, <2>3
  <2>5. h[m - 1] \in Seq(S \cap rows)
    BY <2>2, <2>4
  <2>6. h[m] \in Seq(S \cap rows)
    <3>1. h[m] = IF list[m] \in rows THEN Append(h[m - 1], list[m]) ELSE h[m - 1]
      BY <1>4, <2>4
    <3> QED
      BY <1>1, <2>4, <2>5, <3>1
  <2> QED
    BY <2>6
<1> QED
  BY <1>1, <1>3, <1>5

(* -------------------------------------------------------------------------- *)
(* A list after lines were popped off its end.                                 *)
LEMMA CutIs ==
  ASSUME NEW S, NEW s \in Seq(S), NEW n \in Nat
  PROVE  /\ Cut(s, n) \in Seq(S) /\ Over(n, s) \in Nat
         /\ n >= Len(s) => Cut(s, n) = <<>>
         /\ Over(n, s) = 0 \/ Cut(s, n) = <<>>
         /\ Cut(s, 0) = s
         /\ \A k \in Nat : n = Len(s) + k => Over(n, s) = k
<1>1. Len(s) \in Nat
  OBVIOUS
<1>2. Cut(s, n) \in Seq(S) /\ Over(n, s) \in Nat
  BY <1>1 DEF Cut, Over
<1>3. n >= Len(s) => Cut(s, n) = <<>>
  <2> SUFFICES ASSUME n >= Len(s) PROVE Cut(s, n) = <<>>
    OBVIOUS
  <2>1. Cut(s, n) = SubSeq(s, 1, 0)
    BY <1>1 DEF Cut
  <2> QED
    BY <2>1
<1>4. Over(n, s) = 0 \/ Cut(s, n) = <<>>
  BY <1>1, <1>3 DEF Over
<1>5. Cut(s, 0) = s
  <2>1. Cut(s, 0) = SubSeq(s, 1, Len(s))
    BY <1>1 DEF Cut
  <2> QED
    BY <2>1
<1>6. \A k \in Nat : n = Len(s) + k => Over(n, s) = k
  BY <1>1 DEF Over
<1> QED
  BY <1>2, <1>3, <1>4, <1>5, <1>6

(* Lines are popped until it fits, in the order of the lists: what a list has  *)
(* left means that the lists before it are whole.                              *)
IsCutOf(kept, a, b, c) ==
  /\ \E i, j, k \in Nat : kept = <<Cut(a, i), Cut(b, j), Cut(c, k)>>
  /\ kept[2] # <<>> \/ kept[3] # <<>> => kept[1] = a

LEMMA PoppedIs ==
  ASSUME NEW A, NEW a \in Seq(A), NEW B, NEW b \in Seq(B), NEW C, NEW c \in Seq(C), NEW n \in Nat
  PROVE  /\ IsCutOf(Popped(<<a, b, c>>, n), a, b, c)
         /\ n = Total(<<a, b, c>>) => Popped(<<a, b, c>>, n) = NoNotes
<1> DEFINE k == n
           j == Over(k, c)
           i == Over(j, b)
<1>1. Popped(<<a, b, c>>, n) = <<Cut(a, i), Cut(b, j), Cut(c, k)>>
  BY DEF Popped
<1>2. k \in Nat /\ j \in Nat /\ i \in Nat
  BY CutIs
<1>3. Len(a) \in Nat /\ Len(b) \in Nat /\ Len(c) \in Nat
  OBVIOUS
<1> DEFINE kept == Popped(<<a, b, c>>, n)
<1>4. kept[1] = Cut(a, i) /\ kept[2] = Cut(b, j) /\ kept[3] = Cut(c, k)
  BY <1>1
<1>5. Cut(b, j) # <<>> => i = 0
  BY <1>2, CutIs
<1>6. Cut(c, k) # <<>> => i = 0
  <2> SUFFICES ASSUME Cut(c, k) # <<>> PROVE i = 0
    OBVIOUS
  <2>1. j = 0
    BY CutIs
  <2> QED
    BY <1>3, <2>1 DEF Over
<1>7. i = 0 => Cut(a, i) = a
  BY CutIs
<1>8. IsCutOf(kept, a, b, c)
  BY <1>1, <1>2, <1>4, <1>5, <1>6, <1>7 DEF IsCutOf
<1>9. n = Total(<<a, b, c>>) => kept = NoNotes
  <2> SUFFICES ASSUME n = Total(<<a, b, c>>) PROVE kept = NoNotes
    OBVIOUS
  <2>1. n = Len(a) + Len(b) + Len(c)
    BY DEF Total
  <2>2. j = Len(b) + Len(a)
    BY <1>3, <2>1, CutIs
  <2>3. i = Len(a)
    <3> HIDE DEF j
    <3> QED
      BY <1>2, <1>3, <2>2, CutIs
  <2> HIDE DEF i, j
  <2>4. Cut(a, i) = <<>>
    BY <1>2, <1>3, <2>3, CutIs
  <2>5. Cut(b, j) = <<>>
    BY <1>2, <1>3, <2>2, CutIs
  <2>6. Cut(c, k) = <<>>
    BY <1>3, <2>1, CutIs
  <2> QED
    BY <1>1, <2>4, <2>5, <2>6 DEF NoNotes
<1> QED
  BY <1>8, <1>9

LEMMA PopIs ==
  ASSUME NEW A, NEW a \in Seq(A), NEW B, NEW b \in Seq(B), NEW C, NEW c \in Seq(C), NEW size, NEW max
  PROVE  LET lists == <<a, b, c>> IN
         \E n \in 0..Total(lists) :
           /\ PopUntilFits(lists, size, max) = Popped(lists, n)
           /\ size[n] <= max \/ (n = Total(lists) /\ ~ (size[n] <= max))
<1> DEFINE lists == <<a, b, c>>
           fits  == {n \in 0..Total(lists) : size[n] <= max}
           Goal(n) == /\ PopUntilFits(lists, size, max) = Popped(lists, n)
                      /\ size[n] <= max \/ (n = Total(lists) /\ ~ (size[n] <= max))
<1> SUFFICES \E n \in 0..Total(lists) : Goal(n)
  OBVIOUS
<1>1. Total(lists) \in Nat
  BY DEF Total
<1> HIDE DEF lists
<1>2. CASE fits = {}
  <2>1. PopUntilFits(lists, size, max) = Popped(lists, Total(lists))
    BY <1>2 DEF PopUntilFits
  <2>2. Total(lists) \in 0..Total(lists)
    BY <1>1
  <2> QED
    BY <1>2, <2>1, <2>2
<1>3. CASE fits # {}
  <2> DEFINE n == CHOOSE n \in fits : \A m \in fits : n <= m
  <2>1. PopUntilFits(lists, size, max) = Popped(lists, n)
    BY <1>3 DEF PopUntilFits
  <2>2. fits \subseteq Nat
    BY <1>1
  <2> HIDE DEF fits
  <2>3. \E m \in fits : \A y \in fits : m <= y
    BY <1>3, <2>2, NatLeast
  <2>4. n \in fits
    BY <2>3
  <2> HIDE DEF n
  <2>5. n \in 0..Total(lists) /\ size[n] <= max
    BY <2>4 DEF fits
  <2>6. Goal(n)
    BY <2>1, <2>5
  <2> HIDE DEF Goal
  <2> QED
    BY <2>5, <2>6
<1> QED
  BY <1>2, <1>3

(* -------------------------------------------------------------------------- *)
(* What of the notes is carried over: within the cap, the open items first, no *)
(* missing test among the conventions.                                         *)
Items == Limited(OpenItems(session.notes.verdicts, session.notes.ratchetItems), session.limits.maxOpenItems)
Conventions == ConventionLines(session.notes.taste, session.notes.verdicts)
Symbols == Upto(session.notes.changedSymbols, MaxChangedSymbols)

LEMMA ListsAre ==
  ASSUME session \in Sessions
  PROVE  /\ \E A : Items \in Seq(A)
         /\ Conventions \in Seq({l \in Range(session.notes.taste) :
                                 ~\E v \in Range(session.notes.verdicts) : v.testGap /\ v.key = l.key})
         /\ Symbols \in Seq(Range(session.notes.changedSymbols))
<1> DEFINE taste == session.notes.taste
           verdicts == session.notes.verdicts
           ratchet == session.notes.ratchetItems
           symbols == session.notes.changedSymbols
           rows == {l \in Range(taste) : ~\E v \in Range(verdicts) : v.testGap /\ v.key = l.key}
           A == Range(verdicts) \cup Range(ratchet)
           confirmed == {v \in Range(verdicts) : v.verdict = "confirmed"}
<1>1. /\ taste \in Seq(Range(taste)) /\ verdicts \in Seq(Range(verdicts))
      /\ ratchet \in Seq(Range(ratchet)) /\ symbols \in Seq(Range(symbols))
      /\ session.limits.maxOpenItems \in Nat \cup {NoCap} /\ MaxChangedSymbols \in Nat
  BY HookAssumption
<1> HIDE DEF taste, verdicts, ratchet, symbols
<1>2. Conventions \in Seq(rows)
  <2>1. Among(taste, rows) \in Seq(Range(taste) \cap rows)
    <3> HIDE DEF rows
    <3> QED
      BY <1>1, AmongIs
  <2>2. Range(taste) \cap rows = rows
    OBVIOUS
  <2> QED
    BY <2>1, <2>2 DEF Conventions, ConventionLines, taste, verdicts
<1>3. ASSUME NEW T, NEW s \in Seq(T), NEW n \in Nat PROVE Upto(s, n) \in Seq(T)
  BY DEF Upto
<1>4. OpenItems(verdicts, ratchet) \in Seq(A)
  <2>1. \A R : Among(verdicts, R) \in Seq(A)
    <3> SUFFICES ASSUME NEW R PROVE Among(verdicts, R) \in Seq(A)
      OBVIOUS
    <3>1. Among(verdicts, R) \in Seq(Range(verdicts) \cap R)
      BY <1>1, AmongIs
    <3> QED
      BY <3>1
  <2>2. ratchet \in Seq(A)
    BY <1>1
  <2> DEFINE x == Among(verdicts, {v \in confirmed : v.testGap})
             y == Among(verdicts, {v \in confirmed : ~v.testGap})
  <2>3. OpenItems(verdicts, ratchet) = x \o ratchet \o y
    BY DEF OpenItems
  <2>4. x \in Seq(A) /\ y \in Seq(A)
    BY <2>1
  <2> HIDE DEF x, y, A
  <2>5. x \o ratchet \in Seq(A)
    BY <2>2, <2>4, ConcatProperties
  <2> QED
    BY <2>3, <2>4, <2>5, ConcatProperties
<1>5. Items \in Seq(A)
  <2> DEFINE most == session.limits.maxOpenItems
             s == OpenItems(verdicts, ratchet)
  <2>1. Items = IF most = NoCap THEN s ELSE Upto(s, most)
    BY DEF Items, Limited, verdicts, ratchet
  <2> HIDE DEF s, A, most
  <2> QED
    BY <1>1, <1>3, <1>4, <2>1 DEF s, most
<1>6. Symbols \in Seq(Range(symbols))
  BY <1>1, <1>3 DEF Symbols, symbols
<1> QED
  BY <1>2, <1>5, <1>6 DEF taste, verdicts, symbols

LEMMA CarryIs ==
  ASSUME session \in Sessions
  PROVE  LET n == FormatCarry(session.notes, session.limits)
         IN /\ IsCutOf(n, Items, Conventions, Symbols)
            /\ session.limits.maxChars # NoCap => NotesSize(n) <= session.limits.maxChars
<1> DEFINE lists == <<Items, Conventions, Symbols>>
           most  == session.limits.maxChars
           size  == [n \in 0..Total(lists) |-> NotesSize(Popped(lists, n))]
           kept  == FormatCarry(session.notes, session.limits)
<1>1. PICK A : Items \in Seq(A)
  BY ListsAre
<1>2. PICK B : Conventions \in Seq(B)
  BY ListsAre
<1>3. PICK C : Symbols \in Seq(C)
  BY ListsAre
<1>4. kept = IF most = NoCap THEN lists ELSE PopUntilFits(lists, size, most)
  BY DEF FormatCarry, Items, Conventions, Symbols
<1>5. CASE most = NoCap
  <2>1. lists = <<Cut(Items, 0), Cut(Conventions, 0), Cut(Symbols, 0)>>
    BY <1>1, <1>2, <1>3, CutIs
  <2>2. IsCutOf(lists, Items, Conventions, Symbols)
    BY <2>1 DEF IsCutOf
  <2> QED
    BY <1>4, <1>5, <2>2
<1>6. CASE most # NoCap
  <2>1. PICK n \in 0..Total(lists) :
          /\ PopUntilFits(lists, size, most) = Popped(lists, n)
          /\ size[n] <= most \/ (n = Total(lists) /\ ~ (size[n] <= most))
    BY <1>1, <1>2, <1>3, PopIs
  <2>2. n \in Nat /\ size[n] = NotesSize(Popped(lists, n))
    BY <1>1, <1>2, <1>3 DEF Total
  <2>3. IsCutOf(Popped(lists, n), Items, Conventions, Symbols)
    BY <1>1, <1>2, <1>3, <2>2, PoppedIs
  <2>4. n # Total(lists) \/ size[n] = 0
    <3>1. n = Total(lists) => Popped(lists, n) = NoNotes
      BY <1>1, <1>2, <1>3, <2>2, PoppedIs
    <3>2. NotesSize(NoNotes) = 0
      BY DEF NotesSize, NoNotes, Block
    <3> QED
      BY <2>2, <3>1, <3>2
  <2>5. most \in Nat
    BY <1>6, HookAssumption
  <2> HIDE DEF size, lists, kept, most
  <2>6. size[n] <= most
    BY <2>1, <2>4, <2>5
  <2>7. kept = Popped(lists, n)
    BY <1>4, <1>6, <2>1
  <2>8. NotesSize(kept) <= most
    BY <2>2, <2>6, <2>7
  <2> QED
    BY <2>3, <2>7, <2>8 DEF kept, most
<1> QED
  BY <1>5, <1>6

(* A snapshot that lists anything fits.                                        *)
LEMMA SnapshotIs ==
  ASSUME session \in Sessions
  PROVE  LET s == FormatSnapshot(session.answers)
         IN s # <<>> /\ (~Empty(s) => SnapshotSize(session.answers.preamble, s) <= MaxSnapshotChars)
<1> DEFINE a     == session.answers.topFiles
           b     == Upto(session.answers.areas, MaxAreas)
           lists == <<a, b, <<>>>>
           size  == [n \in 0..Total(lists) |-> SnapshotSize(session.answers.preamble, Popped(lists, n))]
           s     == FormatSnapshot(session.answers)
<1>1. PICK A : a \in Seq(A)
  BY HookAssumption
<1>2. PICK B : b \in Seq(B)
  <2>1. session.answers.areas \in Seq(Range(session.answers.areas)) /\ MaxAreas \in Nat
    BY HookAssumption
  <2> QED
    BY <2>1 DEF Upto
<1>3. s = PopUntilFits(lists, size, MaxSnapshotChars)
  BY DEF FormatSnapshot
<1> HIDE DEF a, b
<1>4. <<>> \in Seq({})
  OBVIOUS
<1>5. PICK n \in 0..Total(lists) :
        /\ PopUntilFits(lists, size, MaxSnapshotChars) = Popped(lists, n)
        /\ size[n] <= MaxSnapshotChars \/ (n = Total(lists) /\ ~ (size[n] <= MaxSnapshotChars))
  BY <1>1, <1>2, <1>4, PopIs
<1>6. n \in Nat /\ size[n] = SnapshotSize(session.answers.preamble, Popped(lists, n))
  BY <1>1, <1>2, <1>4 DEF Total
<1>7. IsCutOf(Popped(lists, n), a, b, <<>>) /\ (n = Total(lists) => Popped(lists, n) = NoNotes)
  BY <1>1, <1>2, <1>4, <1>6, PoppedIs
<1>8. Popped(lists, n) # <<>>
  BY <1>7 DEF IsCutOf
<1>9. Empty(NoNotes)
  BY DEF Empty, NoNotes
<1> HIDE DEF s, size, lists
<1>10. s = Popped(lists, n)
  BY <1>3, <1>5
<1>11. ~Empty(s) => SnapshotSize(session.answers.preamble, s) <= MaxSnapshotChars
  BY <1>5, <1>6, <1>7, <1>9, <1>10
<1> QED
  BY <1>8, <1>10, <1>11 DEF s

(* -------------------------------------------------------------------------- *)
(* Until it exits the hook has written nothing, or the whole context once with *)
(* the deadline called off.                                                    *)
Carry    == FormatCarry(session.notes, session.limits)
Snapshot == FormatSnapshot(session.answers)

HookInv ==
  /\ session \in Sessions /\ DOMAIN cli = Queries
  /\ stage \in {"start", "waiting", "done", "exited"}
  /\ stage # "start" => carried = Carry
  /\ stage \in {"start", "waiting"} => out = <<>>
  /\ stage \in {"done", "exited"} => \A q \in Queries : cli[q] # "running"
  /\ stage = "done" => ~timer /\ out = <<Context(Snapshot, carried)>>
  /\ stage = "exited" =>
       \/ out = <<>> /\ Empty(carried)
       \/ out = <<Context(<<>>, carried)>> /\ ~Empty(carried)
       \/ out = <<Context(Snapshot, carried)>>

(* The hook is cut short: its notes are told, nothing left on.                 *)
LEMMA BailHolds ==
  ASSUME HookInv, NEW left, out = <<>>, Bail(left, carried'), session' = session, carried' = Carry
  PROVE  HookInv'
<1>1. /\ cli' = [q \in Queries |-> IF left[q] = "running" THEN "killed" ELSE left[q]]
      /\ stage' = "exited" /\ out' = IF Empty(carried') THEN <<>> ELSE <<Context(<<>>, carried')>>
  <2>1. Append(<<>>, Context(<<>>, carried')) = <<Context(<<>>, carried')>>
    OBVIOUS
  <2> QED
    BY <2>1 DEF Bail
<1>2. DOMAIN cli' = Queries /\ \A q \in Queries : cli'[q] # "running"
  BY <1>1
<1>3. Carry' = Carry
  BY DEF Carry
<1> QED
  BY <1>1, <1>2, <1>3 DEF HookInv

LEMMA HookInitial == HookInit => HookInv
  BY DEF HookInit, HookInv

LEMMA HookInductive == HookInv /\ [HookNext]_hookVars => HookInv'
<1> SUFFICES ASSUME HookInv, [HookNext]_hookVars PROVE HookInv'
  OBVIOUS
<1>1. CASE Start
  <2>1. stage = "start" /\ out = <<>> /\ session' = session /\ carried' = Carry
    BY <1>1 DEF Start, HookInv, Carry
  <2>2. CASE Bail(cli, carried')
    BY <2>1, <2>2, BailHolds
  <2>3. CASE cli' = [q \in Queries |-> "running"] /\ stage' = "waiting" /\ UNCHANGED out
    <3>1. Carry' = Carry
      BY <2>1 DEF Carry
    <3> QED
      BY <2>1, <2>3, <3>1 DEF HookInv
  <2> QED
    BY <1>1, <2>2, <2>3 DEF Start
<1>2. CASE Deadline
  <2>1. /\ timer /\ stage \in {"waiting", "done"} /\ Bail(cli, carried)
        /\ session' = session /\ carried' = carried
    BY <1>2 DEF Deadline
  <2>2. out = <<>> /\ carried = Carry
    BY <2>1 DEF HookInv
  <2> QED
    BY <2>1, <2>2, BailHolds
<1>3. CASE Finish
  <2>1. /\ stage = "done" /\ stage' = "exited"
        /\ session' = session /\ cli' = cli /\ carried' = carried /\ out' = out
    BY <1>3 DEF Finish
  <2>2. Carry' = Carry /\ Snapshot' = Snapshot
    BY <2>1 DEF Carry, Snapshot
  <2> QED
    BY <2>1, <2>2 DEF HookInv
<1>4. ASSUME NEW q \in Queries, Exits(q) PROVE HookInv'
  <2>1. /\ stage = "waiting" /\ stage' = stage /\ session' = session /\ carried' = carried /\ out' = out
        /\ cli' = [cli EXCEPT ![q] = "exited"]
    BY <1>4 DEF Exits
  <2>2. Carry' = Carry
    BY <2>1 DEF Carry
  <2> QED
    BY <2>1, <2>2 DEF HookInv
<1>5. ASSUME NEW q \in Queries, Answers(q) PROVE HookInv'
  <2>1. /\ stage = "waiting" /\ cli' = [cli EXCEPT ![q] = "closed"]
        /\ session' = session /\ carried' = carried /\ out = <<>> /\ carried = Carry
    BY <1>5 DEF Answers, HookInv
  <2>2. Carry' = Carry /\ Snapshot' = Snapshot
    BY <2>1 DEF Carry, Snapshot
  <2>3. DOMAIN cli' = Queries
    BY <2>1 DEF HookInv
  <2>4. CASE \A p \in Queries : cli'[p] = "closed"
    <3>1. timer' = FALSE /\ stage' = "done" /\ out' = Append(out, Context(Snapshot, carried))
      BY <1>5, <2>4 DEF Answers, ClearTimer, Snapshot
    <3>2. Append(<<>>, Context(Snapshot, carried)) = <<Context(Snapshot, carried)>>
      OBVIOUS
    <3> QED
      BY <2>1, <2>2, <2>3, <2>4, <3>1, <3>2 DEF HookInv
  <2>5. CASE ~ \A p \in Queries : cli'[p] = "closed"
    <3>1. stage' = stage /\ out' = out
      BY <1>5, <2>5 DEF Answers
    <3> QED
      BY <2>1, <2>2, <2>3, <3>1 DEF HookInv
  <2> QED
    BY <2>4, <2>5
<1>6. ASSUME NEW q \in Queries, FailsToAnswer(q) PROVE HookInv'
  <2>1. stage = "waiting" /\ session' = session /\ carried' = carried
    BY <1>6 DEF FailsToAnswer
  <2>2. out = <<>> /\ carried = Carry
    BY <2>1 DEF HookInv
  <2>3. \E left : Bail(left, carried')
    BY <1>6, <2>1 DEF FailsToAnswer
  <2> QED
    BY <2>1, <2>2, <2>3, BailHolds
<1>7. CASE UNCHANGED hookVars
  <2>1. Carry' = Carry /\ Snapshot' = Snapshot
    BY <1>7 DEF hookVars, Carry, Snapshot
  <2> QED
    BY <1>7, <2>1 DEF HookInv, hookVars
<1> QED
  BY <1>1, <1>2, <1>3, <1>4, <1>5, <1>6, <1>7 DEF HookNext

LEMMA HookImplies == HookInv => HookSettles
<1> SUFFICES ASSUME HookInv, stage = "exited" PROVE HookSettles
  BY DEF HookSettles
<1>1. session \in Sessions /\ carried = Carry /\ \A q \in Queries : cli[q] # "running"
  BY DEF HookInv
<1>2. \/ out = <<>> /\ Empty(carried)
      \/ out = <<Context(<<>>, carried)>> /\ ~Empty(carried)
      \/ out = <<Context(Snapshot, carried)>>
  BY DEF HookInv
<1>3. /\ IsCutOf(carried, Items, Conventions, Symbols)
      /\ session.limits.maxChars # NoCap => NotesSize(carried) <= session.limits.maxChars
  BY <1>1, CarryIs DEF Carry
<1>4. Snapshot # <<>> /\ (~Empty(Snapshot) => SnapshotSize(session.answers.preamble, Snapshot) <= MaxSnapshotChars)
  BY <1>1, SnapshotIs DEF Snapshot
<1>5. \A l \in Range(carried[2]), v \in Range(session.notes.verdicts) : v.testGap => v.key # l.key
  <2> DEFINE rows == {l \in Range(session.notes.taste) :
                        ~\E v \in Range(session.notes.verdicts) : v.testGap /\ v.key = l.key}
  <2>1. PICK j \in Nat : carried[2] = Cut(Conventions, j)
    BY <1>3 DEF IsCutOf
  <2>2. Cut(Conventions, j) \in Seq(rows)
    <3>1. Conventions \in Seq(rows)
      BY <1>1, ListsAre
    <3> HIDE DEF rows
    <3> QED
      BY <3>1, CutIs
  <2>3. Range(carried[2]) \subseteq rows
    <3> HIDE DEF rows
    <3> QED
      BY <2>1, <2>2 DEF Range
  <2> QED
    BY <2>3
<1>6. ASSUME NEW i \in DOMAIN out
      PROVE  /\ out[i].notes = carried
             /\ out[i].snapshot = Snapshot \/ (out[i].snapshot = <<>> /\ ~Empty(carried))
  <2>1. out # <<>>
    OBVIOUS
  <2>2. i = 1 /\ ((out[1] = Context(<<>>, carried) /\ ~Empty(carried)) \/ out[1] = Context(Snapshot, carried))
    BY <1>2, <2>1
  <2>3. CASE out[1] = Context(<<>>, carried) /\ ~Empty(carried)
    BY <2>2, <2>3 DEF Context
  <2>4. CASE out[1] = Context(Snapshot, carried)
    <3>1. Context(Snapshot, carried).notes = carried /\ Context(Snapshot, carried).snapshot = Snapshot
      BY DEF Context
    <3> QED
      BY <2>2, <2>4, <3>1
  <2> QED
    BY <2>2, <2>3, <2>4
<1>7. Len(out) <= 1 /\ (out = <<>> => Empty(carried))
  <2>1. CASE out = <<>>
    BY <1>2, <2>1
  <2>2. CASE out = <<Context(<<>>, carried)>> \/ out = <<Context(Snapshot, carried)>>
    <3>1. Len(out) = 1
      BY <2>2
    <3>2. out # <<>>
      BY <2>2
    <3> QED
      BY <3>1, <3>2
  <2> QED
    BY <1>2, <2>1, <2>2
<1> QED
  BY <1>1, <1>3, <1>4, <1>5, <1>6, <1>7 DEF HookSettles, IsCutOf, Items

(* Whenever the hook has exited, what it told and left running is as promised. *)
THEOREM HookAlwaysSettles == HookSpec => []HookSettles
<1>1. HookSpec => []HookInv
  BY HookInitial, HookInductive, PTL DEF HookSpec
<1> QED
  BY <1>1, HookImplies, PTL
=============================================================================
