-------------------------------- MODULE PrFlow --------------------------------
(***************************************************************************)
(* The bench's stage-hook agent and the pull-request flow it runs over one *)
(* workspace (bench/scbench: agent/stages.py, agent/claude_code_cw.py,     *)
(* prflow/, review/solve.py, synthesis/stage.py).  Each checkpoint is one  *)
(* PR on a hidden git repository: pr-open branches cp-N from main, the     *)
(* session solves, commit-ratchet commits the solve and indexes its        *)
(* merge-base, triage leaves a verdict fragment, solve-review may resume   *)
(* the solve and amend it, the fix stage works on the branch, synthesis    *)
(* merges it into main and folds the fragments.                            *)
(*                                                                         *)
(* A stage that fails does not stop the next one; a stage that is not      *)
(* launched before the deadline is skipped, and one running at the         *)
(* deadline is killed between two of its effects.  The work tree and the   *)
(* tree of a commit are sets of changes, a change being who made it in     *)
(* which checkpoint.  The index is not modelled: a commit that fails       *)
(* leaves nothing staged.  External: git, the sessions, the reviewer.      *)
(* Stages inject and audit leave the repository and the code alone.        *)
(***************************************************************************)
EXTENDS Naturals, Sequences, FiniteSetsExt

CONSTANTS
  Checkpoints,      \* how many the problem has
  MaxFaults         \* bound on the git calls that fail and the merges cut in two

ASSUME PrFlowAssumption == Checkpoints \in Nat \ {0} /\ MaxFaults \in Nat

VARIABLES
  checkpoint,       \* the agent's own count
  stage, step,      \* the stage, and where it is
  late,             \* the launch deadline has passed
  commits,          \* every commit made: its tree, its ancestors (itself too) and
                    \* what git show says it changed
  refs,             \* the branches; 0 while there is none
  head,             \* the branch HEAD names
  work,             \* the workspace
  base,             \* the commit indexed as cw-merge-base-cp-N; 0 for none
  start,            \* history: the workspace the solve started from
  faults            \* history: the calls that failed, the merges cut in two

agent == <<checkpoint, stage, step, late>>
repo  == <<commits, refs, head>>
ghost == <<base, start>>
flowVars  == <<agent, repo, work, ghost, faults>>

Stages == <<"repo-init", "pr-open", "solve", "commit-ratchet", "triage",
            "solve-review", "fix", "synthesis">>
AfterSolve == {"commit-ratchet", "triage", "solve-review", "fix", "synthesis"}

----------------------------------------------------------------------------
(* Changes, trees, branches *)

CodeKinds == {"solve", "revision", "fix", "half"}
Changes == (CodeKinds \cup {"verdicts", "taste", "fold"}) \X (1 .. Checkpoints)
Mine(kind) == {<<kind, checkpoint>>}

\* What the pathspec OUTSIDE_CODEWATCH covers.  A fold changes tracked files.
Code(tree) == {c \in tree : c[1] \in CodeKinds}
Notes(tree) == tree \ Code(tree)
Fragments(tree) == {c \in tree : c[1] \in {"verdicts", "taste"}}

Main == 0
Pr(n) == n                            \* cp-n
Backlog(n) == Checkpoints + n         \* a phase-3 branch of the fix stage
Branches == 0 .. 2 * Checkpoints

Born == refs[Main] # 0
Tip == refs[head]
Tree(c) == commits[c].tree
Past(c) == commits[c].past
Shown(c) == commits[c].shown
IsAncestor(a, c) == a \in Past(c)
CommonAncestors == Past(refs[Main]) \cap Past(Tip)
OnPr == Born /\ head = Pr(checkpoint)

\* git merge-base raises when there is none.
IndexMergeBase ==
  base' = IF CommonAncestors = {} THEN base ELSE Max(CommonAncestors)

\* A new commit becomes branch b's tip.
NewCommit(b, tree, past, shown) ==
  LET c == Len(commits) + 1
  IN  /\ commits' = Append(commits, [tree |-> tree, past |-> past \cup {c}, shown |-> shown])
      /\ refs' = [refs EXCEPT ![b] = c]

CommitAll == NewCommit(head, work, Past(Tip), work \ Tree(Tip))

CommitPending ==
  IF work = Tree(Tip) THEN UNCHANGED <<commits, refs>> ELSE CommitAll

\* Mutant: the merge commit is built from the tree of main.
MergeIntoMain_TreeOfMain ==
  /\ IsAncestor(refs[Main], Tip)
  /\ NewCommit(Main, Tree(refs[Main]), Past(Tip), {})

\* git show says nothing of a merge whose tree is that of a parent.
MergeIntoMain ==
  /\ IsAncestor(refs[Main], Tip)
  /\ NewCommit(Main, Tree(Tip), Past(Tip), {})

----------------------------------------------------------------------------
(* The agent *)

Goto(s) == step' = s /\ UNCHANGED <<checkpoint, stage, late>>

\* The next stage, or the next checkpoint: its clock starts anew.
Finish ==
  /\ step' = "start"
  /\ IF stage # "synthesis"
     THEN /\ \E i \in DOMAIN Stages : Stages[i] = stage /\ stage' = Stages[i + 1]
          /\ UNCHANGED <<checkpoint, late>>
     ELSE /\ checkpoint' = checkpoint + 1
          /\ stage' = IF checkpoint = Checkpoints THEN "done" ELSE "pr-open"
          /\ late' = FALSE

Launch(s) == stage = s /\ step = "start" /\ ~late
StageAt(s, st) == stage = s /\ step = st

\* The task's own files are in the workspace of every commit: no change of anyone.
FlowInit ==
  /\ checkpoint = 1 /\ stage = "repo-init" /\ step = "start" /\ late = FALSE
  /\ commits = <<>> /\ refs = [b \in Branches |-> 0] /\ head = Main
  /\ work = {} /\ base = 0 /\ start = {} /\ faults = 0

Clock ==
  /\ ~late /\ stage \in AfterSolve \cup {"solve"} /\ late' = TRUE
  /\ UNCHANGED <<checkpoint, stage, step, repo, work, ghost, faults>>

SkipBudget ==
  /\ late /\ stage \in AfterSolve /\ step = "start"
  /\ Finish /\ UNCHANGED <<repo, work, ghost, faults>>

\* The stage is cut off at the deadline.  Between the move of main and the move
\* of HEAD that cuts a merge in two.
Timeout ==
  /\ late /\ stage \in AfterSolve /\ step # "start"
  /\ IF step = "switch" THEN faults < MaxFaults /\ faults' = faults + 1
                        ELSE UNCHANGED faults
  /\ Finish /\ UNCHANGED <<repo, work, ghost>>

\* A git call raises: the stage is over, except in refresh_ratchet, which
\* reports it and goes on.
GitFails ==
  /\ faults < MaxFaults /\ faults' = faults + 1
  /\ stage \notin {"solve", "triage", "done"} /\ step \notin {"resume", "notes"}
  /\ stage \in AfterSolve /\ step = "start" => ~late
  /\ \/ ~StageAt("synthesis", "base") /\ Finish
     \/ stage = "synthesis" /\ step \in {"start", "base"} /\ OnPr /\ Goto("notes")
  /\ UNCHANGED <<repo, work, ghost>>

----------------------------------------------------------------------------
(* Before the solve *)

RepoInit ==
  /\ Launch("repo-init")
  /\ NewCommit(Main, {}, {}, {})
  /\ Finish /\ UNCHANGED <<head, work, ghost, faults>>

\* Mutant: what a stage left uncommitted on the previous branch stays so.
PrOpen_NothingPending ==
  /\ Launch("pr-open") /\ Born
  /\ \/ head = Main /\ Goto("from-main")
     \/ head # Main /\ Goto("merge")
  /\ UNCHANGED <<commits, refs, head, work, ghost, faults>>

\* On main there is nothing to merge; what is uncommitted there stays so.
PrOpen ==
  /\ Launch("pr-open") /\ Born
  /\ \/ head = Main /\ Goto("from-main") /\ UNCHANGED <<commits, refs>>
     \/ head # Main /\ CommitPending /\ Goto("merge")
  /\ UNCHANGED <<head, work, ghost, faults>>

PrOpenMerge ==
  /\ StageAt("pr-open", "merge")
  /\ \/ MergeIntoMain /\ Goto("from-main")
     \/ ~IsAncestor(refs[Main], Tip) /\ Goto("from-head") /\ UNCHANGED <<commits, refs>>
  /\ UNCHANGED <<head, work, ghost, faults>>

PrOpenBranch ==
  /\ stage = "pr-open" /\ step \in {"from-main", "from-head"}
  /\ refs' = [refs EXCEPT ![Pr(checkpoint)] = IF step = "from-main" THEN refs[Main] ELSE Tip]
  /\ Goto("point")
  /\ UNCHANGED <<commits, head, work, ghost, faults>>

PrOpenPoint ==
  /\ StageAt("pr-open", "point")
  /\ head' = Pr(checkpoint)
  /\ Finish /\ UNCHANGED <<commits, refs, work, ghost, faults>>

Solve ==
  /\ stage = "solve"
  /\ \E edits \in SUBSET Mine("solve") : work' = work \cup edits
  /\ start' = work /\ base' = 0
  /\ Finish /\ UNCHANGED <<repo, faults>>

----------------------------------------------------------------------------
(* After the solve *)

CommitSolve ==
  /\ Launch("commit-ratchet") /\ OnPr
  /\ CommitAll /\ Goto("ratchet")
  /\ UNCHANGED <<head, work, ghost, faults>>

Ratchet ==
  /\ StageAt("commit-ratchet", "ratchet")
  /\ IndexMergeBase
  /\ Finish /\ UNCHANGED <<repo, work, start, faults>>

Triage ==
  /\ Launch("triage")
  /\ \E fragment \in SUBSET Mine("verdicts") : work' = work \cup fragment
  /\ Finish /\ UNCHANGED <<repo, ghost, faults>>

\* Mutant: a commit without expected outputs is given to the reviewer too.
SolveReview_AnyCommit ==
  /\ Launch("solve-review") /\ OnPr
  /\ Finish \/ Goto("resume")
  /\ UNCHANGED <<repo, work, ghost, faults>>

\* The first review: no conflict, no session to resume or no time, or a resume.
\* A commit that changes no code has no expected output to be in conflict with.
SolveReview ==
  /\ Launch("solve-review") /\ OnPr
  /\ \/ Finish
     \/ Code(Shown(Tip)) # {} /\ Goto("resume")
  /\ UNCHANGED <<repo, work, ghost, faults>>

\* The resumed session answers, or reaches the end of its own time.
Resume ==
  /\ StageAt("solve-review", "resume")
  /\ \E edits \in SUBSET Mine("revision") : work' = work \cup edits
  /\ \E how \in {"answered", "timed-out"} : Goto(how)
  /\ UNCHANGED <<repo, ghost, faults>>

Restore ==
  /\ StageAt("solve-review", "timed-out")
  /\ work' = Code(Tree(Tip)) \cup Notes(work)
  /\ Finish /\ UNCHANGED <<repo, ghost, faults>>

\* The second review decides only what is reported.
Amend ==
  /\ StageAt("solve-review", "answered")
  /\ LET tree == Code(work) \cup Notes(Tree(Tip))
     IN  IF tree = Tree(Tip) THEN UNCHANGED <<commits, refs>>
                             ELSE NewCommit(head, tree, Past(Tip) \ {Tip},
                                            Shown(Tip) \cup (tree \ Tree(Tip)))
  /\ Finish /\ UNCHANGED <<head, work, ghost, faults>>

\* It starts on a clean work tree (notes apart), on whatever branch HEAD names.
MayFix == Born /\ Code(work) = Code(Tree(Tip)) /\ CommonAncestors # {}

\* What the fix stage leaves: see FixPromise, which FixStage implements.
\* Returning or raising, it leaves the branch with what it kept and no edit of
\* its own; a hard reset also takes back changes of tracked notes.
Fix ==
  /\ Launch("fix") /\ MayFix
  /\ \E fixes \in SUBSET Mine("fix"), left \in {work, Tree(Tip) \cup Fragments(work)} :
       /\ work' = left \cup fixes
       /\ IF fixes = {} THEN UNCHANGED <<commits, refs>>
                        ELSE NewCommit(head, Tree(Tip) \cup fixes, Past(Tip), fixes)
  /\ Finish /\ UNCHANGED <<head, ghost, faults>>

\* Killed at the deadline, it leaves half an item, committed or not, on the PR
\* branch or on the item's own.
FixKilled ==
  /\ Launch("fix") /\ MayFix
  /\ work' = work \cup Mine("half") /\ late' = TRUE
  /\ head' \in {head, Backlog(checkpoint)}
  /\ \/ NewCommit(head', Tree(Tip) \cup Mine("half"), Past(Tip), Mine("half"))
     \/ refs' = [refs EXCEPT ![head'] = Tip] /\ UNCHANGED commits
  /\ stage' = "synthesis" /\ step' = "start"
  /\ UNCHANGED <<checkpoint, ghost, faults>>

\* A stage that needs the repository, or HEAD on cp-N, or (fix) a clean work
\* tree reports why it does nothing; synthesis then merges nothing.
SkipStage ==
  /\ \/ Launch("pr-open") /\ ~Born
     \/ ~late /\ step = "start" /\ ~OnPr
        /\ stage \in {"commit-ratchet", "solve-review"}
     \/ Launch("fix") /\ ~MayFix
     \/ StageAt("synthesis", "pending") /\ ~OnPr
  /\ Finish /\ UNCHANGED <<repo, work, ghost, faults>>

----------------------------------------------------------------------------
(* Synthesis *)

\* Off cp-N nothing is committed or compared, but the taste is still written.
RefreshRatchet ==
  /\ Launch("synthesis")
  /\ \/ OnPr /\ CommitPending /\ Goto("base")
     \/ ~OnPr /\ Goto("notes") /\ UNCHANGED <<commits, refs>>
  /\ UNCHANGED <<head, work, ghost, faults>>

RefreshBase ==
  /\ StageAt("synthesis", "base")
  /\ IndexMergeBase
  /\ Goto("notes") /\ UNCHANGED <<repo, work, start, faults>>

WriteTaste ==
  /\ StageAt("synthesis", "notes")
  /\ \E fragment \in SUBSET Mine("taste") : work' = work \cup fragment
  /\ Goto("pending") /\ UNCHANGED <<repo, ghost, faults>>

MergePending ==
  /\ StageAt("synthesis", "pending") /\ OnPr
  /\ CommitPending /\ Goto("merge")
  /\ UNCHANGED <<head, work, ghost, faults>>

Merge ==
  /\ StageAt("synthesis", "merge")
  /\ \/ MergeIntoMain /\ Goto("switch")
     \/ ~IsAncestor(refs[Main], Tip) /\ Finish /\ UNCHANGED <<commits, refs>>
  /\ UNCHANGED <<head, work, ghost, faults>>

PointAtMain ==
  /\ StageAt("synthesis", "switch")
  /\ head' = Main
  /\ Goto("fold") /\ UNCHANGED <<commits, refs, work, ghost, faults>>

Fold ==
  /\ StageAt("synthesis", "fold")
  /\ \/ work' = work \cup Mine("fold") /\ Goto("commit")
     \/ UNCHANGED work /\ Finish
  /\ UNCHANGED <<repo, ghost, faults>>

FoldCommit ==
  /\ StageAt("synthesis", "commit")
  /\ NewCommit(Main, Tree(Tip) \cup Mine("fold"), Past(Tip), Mine("fold"))
  /\ Finish /\ UNCHANGED <<head, work, ghost, faults>>

----------------------------------------------------------------------------
BeforeSolve == RepoInit \/ PrOpen \/ PrOpenMerge \/ PrOpenBranch \/ PrOpenPoint
Review == SolveReview \/ Resume \/ Restore \/ Amend
Synthesis ==
  \/ RefreshRatchet \/ RefreshBase \/ WriteTaste \/ MergePending
  \/ Merge \/ PointAtMain \/ Fold \/ FoldCommit

FlowNext ==
  \/ Clock \/ SkipBudget \/ Timeout \/ GitFails \/ SkipStage
  \/ BeforeSolve \/ Solve \/ CommitSolve \/ Ratchet \/ Triage
  \/ Review \/ Fix \/ FixKilled \/ Synthesis

FlowSpec == FlowInit /\ [][FlowNext]_flowVars

----------------------------------------------------------------------------
(* Properties *)

FlowTypeOK ==
  /\ checkpoint \in 1 .. Checkpoints + 1
  /\ stage \in {Stages[i] : i \in DOMAIN Stages} \cup {"done"}
  /\ late \in BOOLEAN /\ faults \in 0 .. MaxFaults
  /\ commits \in Seq([tree : SUBSET Changes, past : SUBSET (1 .. Len(commits)),
                      shown : SUBSET Changes])
  /\ \A c \in DOMAIN commits : c \in Past(c) /\ Past(c) \subseteq 1 .. c
  /\ refs \in [Branches -> 0 .. Len(commits)] /\ head \in Branches
  /\ work \subseteq Changes /\ start \subseteq Changes
  /\ base \in 0 .. Len(commits)

\* Nothing that was ever committed is lost, whatever fails and wherever a stage
\* is cut off: it is in the commit HEAD names, and in the workspace, which the
\* next commit of the whole work tree takes (prflow/pr.py, commit_all).
CommittedStays ==
  Born => /\ \A c \in DOMAIN commits : Tree(c) \subseteq Tree(Tip)
          /\ Tree(Tip) \subseteq work

\* While no git call failed and no merge was cut in two: main holds the merged
\* state through checkpoint N-1, and N works on cp-N (prflow/repo.py), whatever
\* stages of earlier checkpoints were skipped or killed.
MainHoldsPrevious ==
  faults = 0 /\ stage = "solve" =>
    head = Pr(checkpoint) /\ Tip = refs[Main] /\ Code(Tree(Tip)) = Code(work)

\* Likewise: the merge-base the ratchet compares with is the code the checkpoint
\* started from, so what it reports is of this checkpoint only.
RatchetSeesOneSolve ==
  faults = 0 /\ base # 0 => Code(Tree(base)) = Code(start)

\* Both: main and the ratchet's base are those of the checkpoint before.
CheckpointsBuildOnLast == MainHoldsPrevious /\ RatchetSeesOneSolve

\* No stage takes a solve out of the workspace (review/solve.py: the solve is
\* never reverted), though _restore takes HEAD for the solve commit and
\* commit-ratchet may have failed to make one: a HEAD that is main's tip shows the
\* reviewer no code, so nothing is resumed.  A second fault is needed: a cut merge,
\* after which cp-N opens on the previous branch.
SolveStays ==
  [][faults <= 1 => \A n \in 1 .. Checkpoints :
                      <<"solve", n>> \in work => <<"solve", n>> \in work']_flowVars

\* What prflow/repo.py says of main.  It fails for good once a merge was cut
\* between the move of main and the move of HEAD: main then has a commit that no
\* later branch descends from, and nothing is merged any more.
MainThroughPrevious ==
  stage = "solve" /\ head = Pr(checkpoint) => Tree(Tip) \subseteq Tree(refs[Main])
=============================================================================
