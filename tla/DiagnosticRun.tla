---------------------------- MODULE DiagnosticRun ----------------------------
(* The diagnostic a maintainer runs for a version: an agent answers every      *)
(* prompt, the style checker and a judge score what it wrote, a scorecard is   *)
(* assembled.  A version may be run again over the outputs of an earlier run,  *)
(* which nothing removes, and a run may die at any step.                       *)
EXTENDS Naturals, Sequences, FiniteSets, SequencesExt

CONSTANTS NPrompts,   \* the prompts are 1..NPrompts, in file order
          Configs,    \* command lines: limit, skipCheck, skipJudge, dryRun
          NotANumber, \* a --concurrency that is no number
          MaxRuns     \* how often the version is run

(* A fraction acts as the next whole number, a negative number as 0.          *)
ASSUME DiagAssumption ==
  /\ NPrompts \in Nat /\ NotANumber \notin Nat
  /\ \A c \in Configs : c.limit \in Nat \cup {NotANumber}

VARIABLES runNo,      \* this run
          config,     \* its command line
          phase,      \* "idle", "bench", "check", "judge" or "assemble"
          pending,    \* tasks the pool has not started
          executing,  \* tasks in the pool
          racing,     \* the pool waits for a task to end before it starts another
          benchResults, \* what the bench knows of its prompts, in the order they ended
          toCheck,    \* the benchResults still to check
          dir,        \* per prompt: answer, code, check and judge files
          scorecard   \* the records the last scorecard was made of
diagVars == <<runNo, config, phase, pending, executing, racing, benchResults, toCheck, dir, scorecard>>

(* A file is the run that wrote it last (0: there is none) and whether it can  *)
(* be read; the code directory is the runs whose agents wrote to it.           *)
NoFile       == [run |-> 0, ok |-> FALSE]
Written(ok)  == [run |-> runNo, ok |-> ok]
NoOutputs    == [test |-> NoFile, code |-> {}, check |-> NoFile, judge |-> NoFile]

DiagInit ==
  /\ runNo = 0 /\ config \in Configs /\ phase = "idle"
  /\ pending = <<>> /\ executing = {} /\ racing = FALSE
  /\ benchResults = <<>> /\ toCheck = <<>>
  /\ dir = [i \in 1..NPrompts |-> NoOutputs]
  /\ scorecard = <<>>

(* A dry run answers and scores nothing.                                       *)
Run(c) ==
  /\ phase = "idle" /\ runNo < MaxRuns
  /\ runNo' = runNo + 1 /\ config' = c
  /\ IF c.dryRun THEN UNCHANGED <<phase, pending>>
     ELSE phase' = "bench" /\ pending' = [i \in 1..NPrompts |-> i]
  /\ benchResults' = <<>>
  /\ UNCHANGED <<executing, racing, toCheck, dir, scorecard>>

(* withConcurrency: a task starts unless the pool was full when the last one   *)
(* did and none has ended since.  A limit that is no number is never reached.  *)
Full(n) == config.limit # NotANumber /\ n >= config.limit

StartTask ==
  /\ phase \in {"bench", "judge"} /\ pending # <<>> /\ ~racing
  /\ executing' = executing \cup {Head(pending)}
  /\ pending' = Tail(pending)
  /\ racing' = Full(Cardinality(executing'))
  /\ UNCHANGED <<runNo, config, phase, benchResults, toCheck, dir, scorecard>>

Leave(i) == executing' = executing \ {i} /\ racing' = FALSE

AgentWrites(i) ==
  /\ phase = "bench" /\ i \in executing
  /\ dir' = [dir EXCEPT ![i].code = @ \cup {runNo}]
  /\ UNCHANGED <<runNo, config, phase, pending, executing, racing, benchResults, toCheck, scorecard>>

(* The agent's answer is stored, whether or not it is JSON; an agent that      *)
(* fails or times out, or an answer that cannot be stored, is a failure.       *)
BenchEnds(i) ==
  /\ phase = "bench" /\ i \in executing
  /\ Leave(i)
  /\ \/ /\ \E ok \in BOOLEAN : dir' = [dir EXCEPT ![i].test = Written(ok)]
        /\ benchResults' = Append(benchResults, [prompt |-> i, success |-> TRUE])
     \/ /\ dir' \in {dir, [dir EXCEPT ![i].test = Written(FALSE)]}
        /\ benchResults' = Append(benchResults, [prompt |-> i, success |-> FALSE])
  /\ UNCHANGED <<runNo, config, phase, pending, toCheck, scorecard>>

PoolEmpty == pending = <<>> /\ executing = {}

BenchDone ==
  /\ phase = "bench" /\ PoolEmpty
  /\ phase' = "check"
  /\ toCheck' = IF config.skipCheck THEN <<>> ELSE benchResults
  /\ UNCHANGED <<runNo, config, pending, executing, racing, benchResults, dir, scorecard>>

(* One prompt: skipped when it failed, when its answer cannot be read or names *)
(* no file that is there, or when the checker fails.                           *)
Check ==
  /\ phase = "check" /\ toCheck # <<>>
  /\ toCheck' = Tail(toCheck)
  /\ LET i == Head(toCheck).prompt
         checkable == Head(toCheck).success /\ dir[i].test.ok /\ dir[i].code # {}
     IN \/ UNCHANGED dir
        \/ checkable /\ dir' = [dir EXCEPT ![i].check = Written(TRUE)]
  /\ UNCHANGED <<runNo, config, phase, pending, executing, racing, benchResults, scorecard>>

CheckDone ==
  /\ phase = "check" /\ toCheck = <<>>
  /\ phase' = "judge"
  /\ pending' = IF config.skipJudge THEN <<>> ELSE [k \in DOMAIN benchResults |-> benchResults[k].prompt]
  /\ UNCHANGED <<runNo, config, executing, racing, benchResults, toCheck, dir, scorecard>>

Succeeded(i) == \E r \in Range(benchResults) : r.prompt = i /\ r.success

(* A mutant: whatever lies in the directory of a failed prompt is judged.      *)
Judgeable_Any(i) == dir[i].code # {}

Judgeable(i) == Succeeded(i) /\ dir[i].code # {}

JudgeEnds(i) ==
  /\ phase = "judge" /\ i \in executing
  /\ Leave(i)
  /\ \/ UNCHANGED dir
     \/ /\ Judgeable(i)
        /\ \E ok \in BOOLEAN : dir' = [dir EXCEPT ![i].judge = Written(ok)]
  /\ UNCHANGED <<runNo, config, phase, pending, benchResults, toCheck, scorecard>>

JudgeDone ==
  /\ phase = "judge" /\ PoolEmpty
  /\ phase' = "assemble"
  /\ UNCHANGED <<runNo, config, pending, executing, racing, benchResults, toCheck, dir, scorecard>>

(* What the assembler reads of a prompt: files it cannot read are left out.    *)
Loaded(i) ==
  LET read(f) == IF f.ok THEN f.run ELSE 0
  IN [test |-> read(dir[i].test), check |-> read(dir[i].check), judge |-> read(dir[i].judge)]

Assemble ==
  /\ phase = "assemble"
  /\ phase' = "idle"
  /\ scorecard' \in {scorecard, [i \in 1..NPrompts |-> Loaded(i)]}
  /\ UNCHANGED <<runNo, config, pending, executing, racing, benchResults, toCheck, dir>>

(* The run dies, or a task fails outside what it catches: files being written  *)
(* stay torn.                                                                  *)
DiagDies ==
  /\ phase # "idle"
  /\ phase' = "idle" /\ pending' = <<>> /\ executing' = {} /\ racing' = FALSE /\ toCheck' = <<>>
  /\ \/ UNCHANGED dir
     \/ \E i \in executing :
          \/ phase = "bench" /\ dir' = [dir EXCEPT ![i].test = Written(FALSE)]
          \/ phase = "judge" /\ Judgeable(i) /\ dir' = [dir EXCEPT ![i].judge = Written(FALSE)]
     \/ /\ phase = "check" /\ toCheck # <<>>
        /\ LET i == Head(toCheck).prompt
           IN /\ Head(toCheck).success /\ dir[i].test.ok /\ dir[i].code # {}
              /\ dir' = [dir EXCEPT ![i].check = Written(FALSE)]
  /\ UNCHANGED <<runNo, config, benchResults, scorecard>>

DiagNext ==
  \/ \E c \in Configs : Run(c)
  \/ StartTask \/ BenchDone \/ Check \/ CheckDone \/ JudgeDone \/ Assemble \/ DiagDies
  \/ \E i \in 1..NPrompts : AgentWrites(i) \/ BenchEnds(i) \/ JudgeEnds(i)

DiagSpec == DiagInit /\ [][DiagNext]_diagVars

(* -------------------------------------------------------------------------- *)
(* However often a version is run over its own leftovers and wherever a run    *)
(* dies: no check and no judge file is newer than the answer it is shown       *)
(* beside, every prompt is in the pool's care exactly once, and the pool never *)
(* holds more agents than it may.                                              *)
ScoresFollowAnswers ==
  /\ \A i \in 1..NPrompts : /\ dir[i].check.run <= dir[i].test.run
                               /\ dir[i].judge.run <= dir[i].test.run
  /\ \A i \in DOMAIN scorecard :
       scorecard[i].test # 0 => /\ scorecard[i].check <= scorecard[i].test
                                /\ scorecard[i].judge <= scorecard[i].test
  /\ phase = "bench" =>
       Len(benchResults) + Cardinality(executing) + Len(pending) = NPrompts
  /\ config.limit # NotANumber =>
       Cardinality(executing) <= (IF config.limit = 0 THEN 1 ELSE config.limit)
=============================================================================
