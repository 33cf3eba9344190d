----------------------------- MODULE CodingEval -----------------------------
(* The two programs of the coding evaluation over one clone: the generator     *)
(* that mines a window of commits, gates each candidate on its tests and       *)
(* writes the suite, and the runner that puts every task of the suite under    *)
(* every arm.  Either may be killed at any step and started again; the clone,  *)
(* the suite file and the directory of indexes are what a kill leaves.         *)
EXTENDS CodingScreen, CodingGrade

CONSTANTS Windows,     \* the windows to explore: sequences of commits, newest first
          Tree,        \* the source files at the mined ref
          Opts,        \* the mining options
          GateRuns, TaskCap, Arms,
          Reports,     \* what a test run may report, every entry [id, status]
          NoLock,      \* no lockfile's packages are installed
          NoCommit, NoIndex, NoSuite,
          MaxKills

ASSUME ReportsAssumption == \A report \in Reports : report \in Seq(Range(report))

VARIABLES window,     \* the commits the generator mines
          program,    \* "none", "gate" or "arms"
          at,         \* the step the program is at
          clone,      \* commit checked out, test patch on it, edits, installed lockfile
          believed,   \* the lockfile the program thinks is installed
          queue,      \* candidates left to gate, or (task, arm) jobs left to run
          runs,       \* the gate's test runs of this candidate, parent and fix
          funnel,     \* the generator's counts
          admitted,   \* the tasks admitted so far
          suite,      \* the suite file
          index,      \* the index kept for each parent commit
          opened,     \* the parents whose index this run of the arms has opened
          results,    \* the arm runs graded so far
          killed
evalVars == <<window, program, at, clone, believed, queue, runs, funnel, admitted, suite,
              index, opened, results, killed>>

NoRuns   == [parent |-> <<>>, fix |-> <<>>]
Clean(commit, env) == [head |-> commit, patch |-> NoCommit, edits |-> {}, env |-> env]
Parents  == UNION {{w[i].parent : i \in DOMAIN w} : w \in Windows}

EvalInit ==
  /\ window \in Windows
  /\ program = "none" /\ at = "idle"
  /\ clone = Clean(NoCommit, NoLock)
  /\ believed = NoLock /\ queue = <<>> /\ runs = NoRuns
  /\ funnel = [s \in {} |-> 0] /\ admitted = <<>> /\ suite = NoSuite
  /\ index = [p \in Parents |-> NoIndex] /\ opened = {} /\ results = <<>>
  /\ killed = 0

(* -------------------------------------------------------------------------- *)
(* The generator.                                                             *)
Mined(w) == SelectSeq(w, LAMBDA c : MineOne(c, Tree, Opts) = "pass")

(* Stable, by lockfile hash.                                                  *)
OrderByLockfile(cs) ==
  LET hashes == SetToSortSeq({cs[i].lock : i \in DOMAIN cs}, LAMBDA a, b : a < b)
  IN FlattenSeq([h \in DOMAIN hashes |-> SelectSeq(cs, LAMBDA c : c.lock = hashes[h])])

Count(w, stage) == Cardinality({i \in DOMAIN w : MineOne(w[i], Tree, Opts) = stage})

EmptyFunnel(w) ==
  [s \in {"messageRejected", "scopeRejected", "darkRejected", "trivialRejected"} |-> Count(w, s)]
    @@ [mined |-> Len(w), gateRun |-> 0, noTransition |-> 0, envError |-> 0, admitted |-> 0]

Generate ==
  /\ program = "none"
  /\ program' = "gate" /\ at' = "next" /\ believed' = NoLock
  /\ queue' = OrderByLockfile(Mined(window))
  /\ funnel' = EmptyFunnel(window)
  /\ admitted' = <<>> /\ runs' = NoRuns
  /\ UNCHANGED <<window, clone, suite, index, opened, results, killed>>

Candidate == Head(queue)

(* The gate of a candidate ends: it is counted, and the next one follows.     *)
Settle(g) ==
  /\ queue' = Tail(queue) /\ runs' = NoRuns /\ at' = "next"
  /\ funnel' = [funnel EXCEPT !.gateRun = @ + 1,
                              !.envError = @ + (IF g.outcome = "env-error" THEN 1 ELSE 0),
                              !.noTransition = @ + (IF g.outcome = "no-transition" THEN 1 ELSE 0),
                              !.admitted = @ + (IF g.outcome = "admitted" THEN 1 ELSE 0)]
  /\ admitted' = IF g.outcome = "admitted"
                 THEN Append(admitted, [commit |-> Candidate, failToPass |-> g.failToPass,
                                        passToPass |-> g.passToPass,
                                        type |-> AssignTaskType(Screened(Candidate, Tree)),
                                        stratum |-> DominantStratum(Screened(Candidate, Tree))])
                 ELSE admitted

CanGate == program = "gate" /\ at = "next" /\ queue # <<>> /\ Len(admitted) < TaskCap

(* The packages of a lockfile are taken for installed; at first of none.      *)
IsInstalled(lock) == believed # NoLock /\ believed = lock

(* A lockfile no supported package manager reads.                             *)
NoCommands ==
  /\ CanGate /\ ~Candidate.supported
  /\ Settle(Gated("env-error"))
  /\ UNCHANGED <<window, program, clone, believed, suite, index, opened, results, killed>>

(* The checkout or the install fails: nothing counts as installed any more.   *)
Forget_Early == believed' = Candidate.lock   \* a mutant: the hash is set before the install

Forget == believed' = NoLock

InstallFails ==
  /\ CanGate /\ Candidate.supported /\ ~IsInstalled(Candidate.lock)
  /\ Forget
  /\ clone' \in {clone, Clean(Candidate.parent, clone.env), Clean(Candidate.parent, NoLock)}
  /\ Settle(Gated("env-error"))
  /\ UNCHANGED <<window, program, suite, index, opened, results, killed>>

Installed ==
  /\ CanGate /\ Candidate.supported
  /\ IF IsInstalled(Candidate.lock) THEN UNCHANGED <<clone, believed>>
     ELSE /\ clone' = Clean(Candidate.parent, Candidate.lock)
          /\ believed' = Candidate.lock
  /\ at' = "patch"
  /\ UNCHANGED <<window, program, queue, runs, funnel, admitted, suite, index, opened, results, killed>>

(* The parent's tree with the test patch on it; a rejected patch resets.      *)
PatchParent ==
  /\ program = "gate" /\ at = "patch"
  /\ \/ /\ clone' = [Clean(Candidate.parent, clone.env) EXCEPT !.patch = Candidate.id]
        /\ at' = "parentRuns"
        /\ UNCHANGED <<queue, runs, funnel, admitted>>
     \/ /\ clone' = Clean(Candidate.parent, clone.env)
        /\ Settle(Gated("env-error"))
  /\ UNCHANGED <<window, program, believed, suite, index, opened, results, killed>>

RunParent(report) ==
  /\ program = "gate" /\ at = "parentRuns"
  /\ runs' = [runs EXCEPT !.parent = Append(@, report)]
  /\ IF Len(runs.parent) + 1 < GateRuns THEN UNCHANGED <<clone, at>>
     ELSE clone' = Clean(Candidate.id, clone.env) /\ at' = "fixRuns"
  /\ UNCHANGED <<window, program, believed, queue, funnel, admitted, suite, index, opened, results, killed>>

RunFix(report) ==
  /\ program = "gate" /\ at = "fixRuns"
  /\ runs' = [runs EXCEPT !.fix = Append(@, report)]
  /\ IF Len(runs.fix) + 1 < GateRuns THEN UNCHANGED <<clone, at>>
     ELSE clone' = Clean(Candidate.parent, clone.env) /\ at' = "decide"
  /\ UNCHANGED <<window, program, believed, queue, funnel, admitted, suite, index, opened, results, killed>>

Decide ==
  /\ program = "gate" /\ at = "decide"
  /\ Settle(GateOutcome(runs.parent, runs.fix))
  /\ UNCHANGED <<window, program, clone, believed, suite, index, opened, results, killed>>

WriteSuite ==
  /\ program = "gate" /\ at = "next" /\ ~CanGate
  /\ suite' = admitted
  /\ program' = "none" /\ at' = "idle" /\ queue' = <<>>
  /\ UNCHANGED <<window, clone, believed, runs, funnel, admitted, index, opened, results, killed>>

(* -------------------------------------------------------------------------- *)
(* The arm runner.                                                            *)
StartArms ==
  /\ program = "none" /\ suite # NoSuite
  /\ program' = "arms" /\ at' = "prepare" /\ believed' = NoLock
  /\ queue' = FlattenSeq([i \in DOMAIN suite |-> [a \in DOMAIN Arms |-> [task |-> suite[i], arm |-> Arms[a]]]])
  /\ opened' = {} /\ results' = <<>>
  /\ UNCHANGED <<window, clone, runs, funnel, admitted, suite, index, killed>>

Task   == Head(queue).task
Parent == Task.commit.parent

(* The tree a job starts from, and the index of it, built when none is there. *)
PrepareTree ==
  LET env == IF IsInstalled(Task.commit.lock) THEN clone.env ELSE Task.commit.lock
  IN [Clean(Parent, env) EXCEPT !.patch = Task.commit.id]

IndexFor(tree) ==
  /\ opened' = opened \cup {Parent}
  /\ index' = IF index[Parent] = NoIndex THEN [index EXCEPT ![Parent] = tree] ELSE index

Prepare ==
  /\ program = "arms" /\ at = "prepare" /\ queue # <<>>
  /\ clone' = PrepareTree
  /\ believed' = Task.commit.lock
  /\ IndexFor(PrepareTree)
  /\ at' = "agent"
  /\ UNCHANGED <<window, program, queue, runs, funnel, admitted, suite, results, killed>>

(* The agent reads and edits, the tests included whatever it was told; a      *)
(* session that times out stops anywhere.                                     *)
Agent(edits) ==
  /\ program = "arms" /\ at = "agent"
  /\ clone' = [clone EXCEPT !.edits = edits]
  /\ at' = "locate"
  /\ UNCHANGED <<window, program, believed, queue, runs, funnel, admitted, suite, index, opened, results, killed>>

(* The symbols its source diff touches, looked up in the parent's index; an   *)
(* unreadable diff is not located.                                            *)
Locate ==
  /\ program = "arms" /\ at = "locate"
  /\ \/ Parent \notin opened /\ IndexFor(clone)
     \/ UNCHANGED <<index, opened>>
  /\ at' = "grade"
  /\ UNCHANGED <<window, program, clone, believed, queue, runs, funnel, admitted, suite, results, killed>>

Grade(report) ==
  /\ program = "arms" /\ at = "grade"
  /\ results' = Append(results, [task |-> Task.commit.id, arm |-> Head(queue).arm,
                                 resolved |-> EvaluateResolve(Task, report).resolved])
  /\ queue' = Tail(queue) /\ at' = "prepare"
  /\ UNCHANGED <<window, program, clone, believed, runs, funnel, admitted, suite, index, opened, killed>>

(* The results go to files neither program reads, and the process ends.       *)
FinishArms ==
  /\ program = "arms" /\ at = "prepare" /\ queue = <<>>
  /\ program' = "none" /\ at' = "idle"
  /\ opened' = {} /\ results' = <<>>
  /\ UNCHANGED <<window, clone, believed, queue, runs, funnel, admitted, suite, index, killed>>

(* -------------------------------------------------------------------------- *)
(* The program dies, or an install or a build it does not catch fails: what   *)
(* it had not written is lost.  Mid-install the packages are half there,      *)
(* mid-build a database without a snapshot is.                                *)
Stop ==
  /\ program # "none" /\ killed < MaxKills
  /\ killed' = killed + 1
  /\ program' = "none" /\ at' = "idle"
  /\ queue' = <<>> /\ runs' = NoRuns /\ admitted' = <<>> /\ results' = <<>> /\ opened' = {}
  /\ LET installing == queue # <<>> /\ at \in {"next", "prepare"}
     IN clone' \in {clone} \cup (IF installing THEN {[clone EXCEPT !.env = NoLock]} ELSE {})
  /\ index' \in {index} \cup
        (IF program = "arms" /\ at = "prepare" /\ queue # <<>> /\ index[Parent] = NoIndex
         THEN {[index EXCEPT ![Parent] = Clean(NoCommit, NoLock)]} ELSE {})
  /\ UNCHANGED <<window, believed, funnel, suite>>

EvalNext ==
  \/ Generate \/ NoCommands \/ InstallFails \/ Installed \/ PatchParent
  \/ \E r \in Reports : RunParent(r) \/ RunFix(r) \/ Grade(r)
  \/ Decide \/ WriteSuite \/ StartArms \/ Prepare
  \/ \E e \in SUBSET {"source", "tests"} : Agent(e)
  \/ Locate \/ FinishArms \/ Stop

EvalSpec == EvalInit /\ [][EvalNext]_evalVars

(* -------------------------------------------------------------------------- *)
(* Tests only ever run on the packages of their own commit's lockfile and on  *)
(* the tree they are meant for, whatever failed, was skipped or was killed    *)
(* before: a stale installedHash would judge a candidate on another's         *)
(* packages and blame the tests.                                              *)
RunsInOwnEnvironment ==
  /\ program = "gate" /\ at = "parentRuns" =>
       clone = [Clean(Candidate.parent, Candidate.lock) EXCEPT !.patch = Candidate.id]
  /\ program = "gate" /\ at = "fixRuns" => clone = Clean(Candidate.id, Candidate.lock)
  /\ program = "arms" /\ at \in {"agent", "locate", "grade"} =>
       [clone EXCEPT !.edits = {}]
         = [Clean(Parent, Task.commit.lock) EXCEPT !.patch = Task.commit.id]

(* No arm sees the work of another: it starts from the tree without any edit, *)
(* and no index, kept over arms and over runs, was ever built from an edited  *)
(* tree.                                                                      *)
NoEditLeaks ==
  /\ program = "arms" /\ at = "agent" => clone.edits = {}
  /\ \A p \in Parents : index[p] # NoIndex => index[p].edits = {}

(* Both: every run, every arm and every index is on the tree it is taken for.  *)
TreesAreTheirOwn == RunsInOwnEnvironment /\ NoEditLeaks

(* Whatever the runs of a candidate report, on both sides, a gate over them    *)
(* admits it only for what they show.                                         *)
OracleIsSound == AdmitsOnlyStable(runs.parent, runs.fix)
=============================================================================
