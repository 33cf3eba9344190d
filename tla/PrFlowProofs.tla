---------------------------- MODULE PrFlowProofs ----------------------------
(***************************************************************************)
(* Theorems about the agent's stages over the hidden repository, for any   *)
(* number of checkpoints and of failing git calls: type correctness, that  *)
(* nothing committed is ever lost, that checkpoints build on one another   *)
(* while git works, and that no stage takes a solve out of the workspace.  *)
(***************************************************************************)
EXTENDS PrFlow, WellFoundedInduction, SequenceTheorems, TLAPS

\* The parts of FlowTypeOK: the agent, the repository, the rest.
AgentType ==
  /\ checkpoint \in 1 .. Checkpoints + 1
  /\ stage \in {Stages[i] : i \in DOMAIN Stages} \cup {"done"}
  /\ late \in BOOLEAN

\* A commit among n.
Commit(n) == [tree : SUBSET Changes, past : SUBSET (1 .. n), shown : SUBSET Changes]

RepoType ==
  /\ commits \in Seq(Commit(Len(commits)))
  /\ \A c \in DOMAIN commits : c \in Past(c) /\ Past(c) \subseteq 1 .. c
  /\ refs \in [Branches -> 0 .. Len(commits)] /\ head \in Branches

RestType ==
  /\ work \subseteq Changes /\ start \subseteq Changes
  /\ base \in 0 .. Len(commits) /\ faults \in 0 .. MaxFaults

\* A commit that has every change any commit has.
Complete(c) ==
  /\ c \in 1 .. Len(commits)
  /\ \A d \in 1 .. Len(commits) : Tree(d) \subseteq Tree(c)

\* HEAD's commit is complete and the workspace has all of it.
KeepHead ==
  /\ Born => Complete(Tip) /\ Tree(Tip) \subseteq work
  /\ ~Born => commits = <<>> /\ head = Main

\* What the branch HEAD is about to be pointed at has, at each step.
KeepStep ==
  /\ stage = "repo-init" => ~Born
  /\ stage # "done" => checkpoint \in 1 .. Checkpoints
  /\ step \notin {"start", "notes", "pending"} => Born
  /\ StageAt("pr-open", "from-main") => Complete(refs[Main])
  /\ StageAt("pr-open", "point") => Complete(refs[Pr(checkpoint)])
  /\ StageAt("synthesis", "switch") => Complete(refs[Main])
  /\ StageAt("synthesis", "fold") => head = Main
  /\ StageAt("synthesis", "commit") => head = Main /\ Mine("fold") \subseteq work

\* The inductive invariant.
Good == AgentType /\ RepoType /\ RestType /\ KeepHead /\ KeepStep

-----------------------------------------------------------------------------
(* Commits *)

LEMMA TypeParts == FlowTypeOK <=> AgentType /\ RepoType /\ RestType
BY DEF FlowTypeOK, AgentType, RepoType, RestType, Commit

LEMMA LenNat ==
  ASSUME RepoType
  PROVE  Len(commits) \in Nat /\ DOMAIN commits = 1 .. Len(commits)
BY LenProperties DEF RepoType

\* The parts of a commit.
LEMMA CommitParts ==
  ASSUME RepoType, NEW c \in 1 .. Len(commits)
  PROVE  /\ Tree(c) \subseteq Changes /\ Shown(c) \subseteq Changes
         /\ Past(c) \subseteq 1 .. Len(commits)
<1>1. commits[c] \in Commit(Len(commits))
  BY ElementOfSeq DEF RepoType
<1> QED
  BY <1>1 DEF Commit, Tree, Shown, Past

LEMMA BranchNames ==
  /\ Main \in Branches
  /\ \A n \in 1 .. Checkpoints :
       /\ Pr(n) \in Branches /\ Backlog(n) \in Branches
       /\ Pr(n) # Main /\ Backlog(n) # Main
BY PrFlowAssumption DEF Main, Branches, Pr, Backlog

\* A new commit keeps the others, and is its branch's tip.
LEMMA NewCommitType ==
  ASSUME RepoType, NEW b \in Branches, head' \in Branches,
         NEW tree \in SUBSET Changes, NEW past \in SUBSET (1 .. Len(commits)),
         NEW shown \in SUBSET Changes, NewCommit(b, tree, past, shown)
  PROVE  /\ RepoType'
         /\ Len(commits') = Len(commits) + 1
         /\ refs'[b] = Len(commits')
         /\ \A o \in Branches \ {b} : refs'[o] = refs[o]
         /\ commits'[Len(commits')].tree = tree
         /\ \A c \in 1 .. Len(commits) : commits'[c] = commits[c]
<1> DEFINE n == Len(commits)
           r == [tree |-> tree, past |-> past \cup {n + 1}, shown |-> shown]
<1>1. n \in Nat /\ DOMAIN commits = 1 .. n
  BY LenNat
<1>2. commits' = Append(commits, r) /\ refs' = [refs EXCEPT ![b] = n + 1]
  BY DEF NewCommit
<1>3. commits \in Seq(Commit(n + 1))
  <2>1. Commit(n) \subseteq Commit(n + 1)
    BY <1>1 DEF Commit
  <2> QED
    BY <2>1, SeqMonotonic DEF RepoType
<1>4. past \cup {n + 1} \subseteq 1 .. n + 1
  <2>1. 1 .. n \subseteq 1 .. n + 1
    BY <1>1
  <2>2. n + 1 \in 1 .. n + 1
    BY <1>1
  <2>3. past \subseteq 1 .. n
    OBVIOUS
  <2> QED
    BY <2>1, <2>2, <2>3
<1>5. r \in Commit(n + 1)
  BY <1>4 DEF Commit
<1>6. /\ commits' \in Seq(Commit(n + 1)) /\ Len(commits') = n + 1
      /\ DOMAIN commits' = 1 .. n + 1
      /\ \A c \in 1 .. n : commits'[c] = commits[c]
      /\ commits'[n + 1] = r
  <2> HIDE DEF r
  <2> QED
    BY <1>1, <1>2, <1>3, <1>5, LenProperties
<1>7. \A c \in DOMAIN commits' : c \in commits'[c].past /\ commits'[c].past \subseteq 1 .. c
  <2>1. \A c \in 1 .. n : c \in commits[c].past /\ commits[c].past \subseteq 1 .. c
    BY <1>1 DEF RepoType, Past
  <2>2. n + 1 \in r.past /\ r.past \subseteq 1 .. n + 1
    BY <1>4
  <2> QED
    BY <1>1, <1>6, <2>1, <2>2
<1>8. /\ refs' \in [Branches -> 0 .. n + 1]
      /\ refs'[b] = n + 1 /\ \A o \in Branches \ {b} : refs'[o] = refs[o]
  BY <1>1, <1>2 DEF RepoType
<1>9. RepoType'
  BY <1>6, <1>7, <1>8 DEF RepoType, Past
<1>10. commits'[n + 1].tree = tree
  BY <1>6
<1> HIDE DEF r
<1> QED
  BY <1>1, <1>6, <1>8, <1>9, <1>10

\* A commit on top of a complete one is complete, and a commit of no change
\* leaves the one below complete.
LEMMA CommitAdds ==
  ASSUME RepoType, NEW b \in Branches, head' \in Branches,
         NEW tree \in SUBSET Changes, NEW past \in SUBSET (1 .. Len(commits)),
         NEW shown \in SUBSET Changes, NewCommit(b, tree, past, shown),
         NEW c, Complete(c), Tree(c) \subseteq tree
  PROVE  /\ Complete(refs[b])' /\ Tree(refs[b])' = tree
         /\ Tree(c)' = Tree(c) /\ (tree = Tree(c) => Complete(c)')
<1> DEFINE n == Len(commits)
<1>1. n \in Nat
  BY LenNat
<1>2. /\ Len(commits') = n + 1 /\ refs'[b] = n + 1
      /\ commits'[n + 1].tree = tree
      /\ \A d \in 1 .. n : commits'[d] = commits[d]
  BY NewCommitType
<1>3. c \in 1 .. n /\ \A d \in 1 .. n : commits[d].tree \subseteq commits[c].tree
  BY DEF Complete, Tree
<1>4. \A d \in 1 .. n + 1 : commits'[d].tree \subseteq tree
  <2> SUFFICES ASSUME NEW d \in 1 .. n + 1 PROVE commits'[d].tree \subseteq tree
    OBVIOUS
  <2>1. CASE d \in 1 .. n
    BY <1>2, <1>3, <2>1 DEF Tree
  <2>2. CASE d = n + 1
    BY <1>2, <2>2
  <2> QED
    BY <1>1, <2>1, <2>2
<1>5. Complete(refs[b])' /\ Tree(refs[b])' = tree
  BY <1>1, <1>2, <1>4 DEF Complete, Tree
<1>6. Tree(c)' = Tree(c)
  BY <1>2, <1>3 DEF Tree
<1>7. tree = Tree(c) => Complete(c)'
  BY <1>1, <1>2, <1>3, <1>4, <1>6 DEF Complete, Tree
<1> QED
  BY <1>5, <1>6, <1>7

\* A non-empty set of numbers below n has a greatest one.
LEMMA MaxInRange ==
  ASSUME NEW n \in Nat, NEW S \in SUBSET (1 .. n), S # {}
  PROVE  Max(S) \in S /\ \A y \in S : Max(S) >= y
<1> DEFINE T == {n - x : x \in S}
<1>1. T \subseteq Nat /\ T # {}
  <2>1. ASSUME NEW x \in S
        PROVE  n - x \in Nat
    OBVIOUS
  <2>2. PICK x \in S : TRUE
    OBVIOUS
  <2>3. n - x \in T
    BY <2>2
  <2> QED
    BY <2>1, <2>3
<1>2. PICK m \in T : \A y \in T : ~ (<<y, m>> \in OpToRel(<, Nat))
  BY <1>1, NatLessThanWellFounded, WFMin
<1>3. \A y \in T : ~ (y < m)
  BY <1>1, <1>2 DEF OpToRel
<1>4. PICK x \in S : m = n - x
  OBVIOUS
<1>5. \A y \in S : x >= y
  BY <1>3, <1>4
<1> QED
  BY <1>5 DEF Max

\* The merge-base is a commit.
LEMMA MergeBaseType ==
  ASSUME RepoType, base \in 0 .. Len(commits), Tip \in 1 .. Len(commits), IndexMergeBase
  PROVE  base' \in 0 .. Len(commits)
<1>1. CommonAncestors \subseteq 1 .. Len(commits)
  BY CommitParts DEF CommonAncestors
<1>2. CASE CommonAncestors = {}
  BY <1>2 DEF IndexMergeBase
<1>3. CASE CommonAncestors # {}
  <2>1. Max(CommonAncestors) \in CommonAncestors
    BY <1>1, <1>3, MaxInRange, LenNat
  <2> QED
    BY <1>1, <1>3, <2>1, LenNat DEF IndexMergeBase
<1> QED
  BY <1>2, <1>3

-----------------------------------------------------------------------------
(* The agent *)

\* The next stage never is repo-init, and it starts at its beginning.
LEMMA FinishKeeps ==
  ASSUME AgentType, KeepStep, stage # "done", Finish
  PROVE  AgentType' /\ KeepStep'
<1>1. DOMAIN Stages = 1 .. 8
  BY DEF Stages
<1>2. step' = "start"
  BY DEF Finish
<1>3. CASE stage = "synthesis"
  <2>1. checkpoint' = checkpoint + 1 /\ late' = FALSE
        /\ stage' = IF checkpoint = Checkpoints THEN "done" ELSE "pr-open"
    BY <1>3 DEF Finish
  <2>2. Stages[2] = "pr-open"
    BY DEF Stages
  <2>3. checkpoint \in 1 .. Checkpoints
    BY DEF KeepStep
  <2>4. AgentType'
    <3>1. stage' \in {Stages[i] : i \in DOMAIN Stages} \cup {"done"}
      BY <1>1, <2>1, <2>2
    <3>2. checkpoint' \in 1 .. Checkpoints + 1
      BY <2>1, <2>3, PrFlowAssumption
    <3> QED
      BY <2>1, <3>1, <3>2 DEF AgentType
  <2>5. stage' # "repo-init" /\ (stage' # "done" => checkpoint' \in 1 .. Checkpoints)
    BY <2>1, <2>3, PrFlowAssumption
  <2> QED
    BY <1>2, <2>4, <2>5 DEF KeepStep, StageAt
<1>4. CASE stage # "synthesis"
  <2>1. PICK i \in DOMAIN Stages : Stages[i] = stage /\ stage' = Stages[i + 1]
    BY <1>4 DEF Finish
  <2>2. i \in 1 .. 7
    BY <1>1, <1>4, <2>1 DEF Stages
  <2>3. i + 1 \in DOMAIN Stages /\ stage' # "repo-init"
    BY <1>1, <2>1, <2>2 DEF Stages
  <2>4. checkpoint' = checkpoint /\ late' = late
    BY <1>4 DEF Finish
  <2>5. AgentType'
    BY <2>1, <2>3, <2>4 DEF AgentType
  <2>6. stage' # "done" => checkpoint' \in 1 .. Checkpoints
    BY <2>4 DEF KeepStep
  <2> QED
    BY <1>2, <2>3, <2>5, <2>6 DEF KeepStep, StageAt
<1> QED
  BY <1>3, <1>4

\* Another step of the same stage, which needs what KeepStep says of it.
LEMMA GotoKeeps ==
  ASSUME AgentType, KeepStep, stage \notin {"repo-init", "done"}, NEW s, Goto(s),
         s \notin {"start", "notes", "pending"} => Born',
         stage = "pr-open" /\ s = "from-main" => Complete(refs[Main])',
         stage = "pr-open" /\ s = "point" => Complete(refs[Pr(checkpoint)])',
         stage = "synthesis" /\ s = "switch" => Complete(refs[Main])',
         stage = "synthesis" /\ s = "fold" => head' = Main,
         stage = "synthesis" /\ s = "commit" => head' = Main /\ Mine("fold")' \subseteq work'
  PROVE  AgentType' /\ KeepStep'
<1>1. step' = s /\ stage' = stage /\ checkpoint' = checkpoint /\ late' = late
  BY DEF Goto
<1>2. AgentType'
  BY <1>1 DEF AgentType
<1>3. checkpoint' \in 1 .. Checkpoints /\ stage' # "repo-init"
  BY <1>1 DEF KeepStep
<1> QED
  BY <1>1, <1>2, <1>3 DEF KeepStep, StageAt

LEMMA MineType ==
  ASSUME checkpoint \in 1 .. Checkpoints,
         NEW kind \in CodeKinds \cup {"verdicts", "taste", "fold"}
  PROVE  Mine(kind) \subseteq Changes
BY DEF Mine, Changes

-----------------------------------------------------------------------------
(* The repository *)

\* HEAD names a commit once the repository is made.
LEMMA TipIsCommit ==
  ASSUME RepoType, KeepHead, Born
  PROVE  Tip \in 1 .. Len(commits) /\ Complete(Tip) /\ Tree(Tip) \subseteq work
BY DEF KeepHead, Complete

\* A step that makes no commit and only adds to the workspace loses nothing.
LEMMA SameRepo ==
  ASSUME RepoType, KeepHead, UNCHANGED repo, work \subseteq work'
  PROVE  RepoType' /\ KeepHead' /\ (Born' <=> Born) /\ Len(commits') = Len(commits)
<1>1. commits' = commits /\ refs' = refs /\ head' = head
  BY DEF repo
<1>2. RepoType'
  BY <1>1 DEF RepoType, Past
<1>3. KeepHead'
  BY <1>1 DEF KeepHead, Born, Complete, Tip, Tree
<1> QED
  BY <1>1, <1>2, <1>3 DEF Born

\* A commit on HEAD's branch that has the tree below it, of the workspace only.
LEMMA CommitOnHead ==
  ASSUME RepoType, KeepHead, Born, head' = head,
         NEW tree \in SUBSET Changes, NEW past \in SUBSET (1 .. Len(commits)),
         NEW shown \in SUBSET Changes, NewCommit(head, tree, past, shown),
         Tree(Tip) \subseteq tree, tree \subseteq work'
  PROVE  RepoType' /\ KeepHead' /\ Born' /\ Len(commits') = Len(commits) + 1
<1>1. head \in Branches
  BY DEF RepoType
<1>2. Complete(Tip)
  BY TipIsCommit
<1>3. /\ RepoType' /\ Len(commits') = Len(commits) + 1
      /\ refs'[head] = Len(commits') /\ \A o \in Branches \ {head} : refs'[o] = refs[o]
  BY <1>1, NewCommitType
<1>4. Complete(Tip)' /\ Tree(Tip)' = tree
  BY <1>1, <1>2, CommitAdds DEF Tip
<1>5. Born'
  BY <1>3, LenNat, BranchNames DEF Born
<1> QED
  BY <1>3, <1>4, <1>5 DEF KeepHead

\* A merge into main from refs alone changes neither HEAD's tree nor the workspace.
LEMMA MergeKeeps ==
  ASSUME RepoType, KeepHead, Born, MergeIntoMain, UNCHANGED <<head, work>>
  PROVE  /\ RepoType' /\ KeepHead' /\ Born'
         /\ Complete(refs[Main])' /\ Len(commits') = Len(commits) + 1
<1>1. Main \in Branches /\ head' \in Branches /\ head' = head /\ work' = work
  BY BranchNames DEF RepoType
<1>2. Tip \in 1 .. Len(commits) /\ Complete(Tip) /\ Tree(Tip) \subseteq work
  BY TipIsCommit
<1>3. /\ Tree(Tip) \in SUBSET Changes /\ Past(Tip) \in SUBSET (1 .. Len(commits))
      /\ {} \in SUBSET Changes
  BY <1>2, CommitParts
<1>4. NewCommit(Main, Tree(Tip), Past(Tip), {})
  BY DEF MergeIntoMain
<1>5. /\ RepoType' /\ Len(commits') = Len(commits) + 1
      /\ refs'[Main] = Len(commits') /\ \A o \in Branches \ {Main} : refs'[o] = refs[o]
  BY <1>1, <1>3, <1>4, NewCommitType
<1>6. /\ Complete(refs[Main])' /\ Tree(refs[Main])' = Tree(Tip)
      /\ \A c \in 1 .. Len(commits) :
           c = Tip => Tree(c)' = Tree(Tip) /\ Complete(c)'
  BY <1>1, <1>2, <1>3, <1>4, CommitAdds
<1>7. Born'
  BY <1>5, LenNat DEF Born
<1>8. Complete(Tip)' /\ Tree(Tip)' = Tree(Tip)
  <2>1. CASE head = Main
    BY <1>1, <1>6, <2>1 DEF Tip
  <2>2. CASE head # Main
    <3>1. refs'[head'] = Tip
      BY <1>1, <1>5, <2>2 DEF Tip
    <3>2. PICK c \in 1 .. Len(commits) : c = Tip
      BY <1>2
    <3>3. Tree(c)' = Tree(Tip) /\ Complete(c)'
      BY <1>6, <3>2
    <3> QED
      BY <3>1, <3>2, <3>3 DEF Tip, Tree, Complete
  <2> QED
    BY <2>1, <2>2
<1> QED
  BY <1>1, <1>2, <1>5, <1>6, <1>7, <1>8 DEF KeepHead

\* What is left in the work tree is committed.
LEMMA PendingKeeps ==
  ASSUME RepoType, KeepHead, Born, CommitPending, work \subseteq Changes,
         UNCHANGED <<head, work>>
  PROVE  RepoType' /\ KeepHead' /\ Born' /\ Len(commits) <= Len(commits')
<1>1. Tip \in 1 .. Len(commits) /\ Tree(Tip) \subseteq work
  BY TipIsCommit
<1>2. CASE UNCHANGED <<commits, refs>>
  BY <1>2, SameRepo, LenNat DEF repo
<1>3. CASE CommitAll
  <2>1. Past(Tip) \in SUBSET (1 .. Len(commits)) /\ work \ Tree(Tip) \in SUBSET Changes
    BY <1>1, CommitParts
  <2>2. NewCommit(head, work, Past(Tip), work \ Tree(Tip))
    BY <1>3 DEF CommitAll
  <2> QED
    BY <1>1, <2>1, <2>2, CommitOnHead, LenNat
<1> QED
  BY <1>2, <1>3 DEF CommitPending

\* HEAD is pointed at a branch that has everything.
LEMMA PointKeeps ==
  ASSUME RepoType, KeepHead, Born, UNCHANGED <<commits, refs, work>>,
         head' \in Branches, Complete(refs[head'])
  PROVE  RepoType' /\ KeepHead' /\ Born' /\ Len(commits') = Len(commits)
<1>1. commits' = commits /\ refs' = refs /\ work' = work
  OBVIOUS
<1>2. RepoType'
  BY <1>1 DEF RepoType, Past
<1>3. Complete(Tip)'
  BY <1>1 DEF Complete, Tree, Tip
<1>4. Tree(refs[head']) \subseteq work
  BY TipIsCommit DEF Complete
<1> QED
  BY <1>1, <1>2, <1>3, <1>4 DEF KeepHead, Born, Tree, Tip

-----------------------------------------------------------------------------
(* The steps *)

LEMMA InitGood == FlowInit => Good
<1> SUFFICES ASSUME FlowInit PROVE Good
  OBVIOUS
<1>1. DOMAIN Stages = 1 .. 8 /\ Stages[1] = "repo-init"
  BY DEF Stages
<1>2. AgentType
  <2>1. stage \in {Stages[i] : i \in DOMAIN Stages}
    BY <1>1 DEF FlowInit
  <2>2. checkpoint \in 1 .. Checkpoints + 1
    BY PrFlowAssumption DEF FlowInit
  <2>3. late \in BOOLEAN
    BY DEF FlowInit
  <2> QED
    BY <2>1, <2>2, <2>3 DEF AgentType
<1>3. Len(commits) = 0 /\ DOMAIN commits = {} /\ commits \in Seq(Commit(0))
  BY EmptySeq DEF FlowInit
<1>4. RepoType
  BY <1>3, BranchNames DEF FlowInit, RepoType
<1>5. RestType
  BY <1>3, PrFlowAssumption DEF FlowInit, RestType
<1>6. ~Born
  BY BranchNames DEF FlowInit, Born
<1>7. KeepHead /\ KeepStep
  BY <1>6, PrFlowAssumption DEF FlowInit, KeepHead, KeepStep, StageAt
<1> QED
  BY <1>2, <1>4, <1>5, <1>7 DEF Good

\* The deadline, skipped and cut stages, failing git calls.
LEMMA ClockGood == Good /\ Clock => Good'
<1> SUFFICES ASSUME Good, Clock PROVE Good'
  OBVIOUS
<1>1. /\ UNCHANGED <<checkpoint, stage, step, repo, work, base, start, faults>>
      /\ late' = TRUE
  BY DEF Clock, ghost
<1>2. RepoType' /\ KeepHead' /\ (Born' <=> Born) /\ Len(commits') = Len(commits)
  BY <1>1, SameRepo DEF Good
<1>3. AgentType' /\ RestType'
  BY <1>1, <1>2 DEF Good, AgentType, RestType
<1>4. KeepStep'
  BY <1>1, <1>2 DEF Good, KeepStep, StageAt, Complete, Tree, Mine, Pr, repo
<1> QED
  BY <1>2, <1>3, <1>4 DEF Good

LEMMA EndGood ==
  ASSUME Good, stage # "done", Finish, UNCHANGED <<repo, base>>,
         work \subseteq work', work' \subseteq Changes, start' \subseteq Changes,
         faults' \in 0 .. MaxFaults
  PROVE  Good'
<1>1. RepoType' /\ KeepHead' /\ Len(commits') = Len(commits)
  BY SameRepo DEF Good
<1>2. AgentType' /\ KeepStep'
  BY FinishKeeps DEF Good
<1>3. RestType'
  BY <1>1 DEF Good, RestType
<1> QED
  BY <1>1, <1>2, <1>3 DEF Good

LEMMA FaultType ==
  ASSUME RestType, faults < MaxFaults, faults' = faults + 1
  PROVE  faults' \in 0 .. MaxFaults
BY PrFlowAssumption DEF RestType

LEMMA FaultsGood ==
  ASSUME Good, SkipBudget \/ SkipStage \/ Timeout \/ GitFails
  PROVE  Good'
<1>1. UNCHANGED <<repo, work, base, start>>
  BY DEF SkipBudget, SkipStage, Timeout, GitFails, ghost
<1>2. faults' \in 0 .. MaxFaults
  BY FaultType DEF SkipBudget, SkipStage, Timeout, GitFails, Good, RestType
<1>3. work' \subseteq Changes /\ start' \subseteq Changes
  BY <1>1 DEF Good, RestType
<1>4. stage # "done"
  BY DEF SkipBudget, SkipStage, Timeout, GitFails, Launch, StageAt, AfterSolve
<1>5. CASE Finish
  BY <1>1, <1>2, <1>3, <1>4, <1>5, EndGood
<1>6. CASE stage = "synthesis" /\ Goto("notes")
  <2>1. RepoType' /\ KeepHead' /\ Len(commits') = Len(commits)
    BY <1>1, SameRepo DEF Good
  <2>2. AgentType' /\ KeepStep'
    BY <1>6, GotoKeeps DEF Good
  <2>3. RestType'
    BY <1>1, <1>2, <2>1 DEF Good, RestType
  <2> QED
    BY <2>1, <2>2, <2>3 DEF Good
<1> QED
  BY <1>5, <1>6 DEF SkipBudget, SkipStage, Timeout, GitFails

LEMMA RestKeeps ==
  ASSUME RepoType, RestType, RepoType', Len(commits) <= Len(commits'),
         UNCHANGED <<base, start, faults>>, work' \subseteq Changes
  PROVE  RestType'
<1>1. Len(commits) \in Nat /\ Len(commits') \in Nat
  <2>1. Len(commits') \in Nat
    BY LenProperties DEF RepoType
  <2> QED
    BY <2>1, LenNat
<1>2. base' \in 0 .. Len(commits')
  BY <1>1 DEF RestType
<1> QED
  BY <1>2 DEF RestType

\* A stage's step that makes no commit and moves nothing.
LEMMA NextStepGood ==
  ASSUME Good, stage \notin {"repo-init", "done"}, NEW s, Goto(s),
         s \in {"start", "notes", "pending"} \/ Born,
         UNCHANGED <<repo, base, start, faults>>,
         work \subseteq work', work' \subseteq Changes,
         stage = "pr-open" /\ s = "from-main" => Complete(refs[Main]),
         ~ (stage = "pr-open" /\ s = "point"),
         ~ (stage = "synthesis" /\ s \in {"switch", "fold"}),
         stage = "synthesis" /\ s = "commit" => head = Main /\ Mine("fold") \subseteq work'
  PROVE  Good'
<1>1. RepoType' /\ KeepHead' /\ (Born' <=> Born) /\ Len(commits') = Len(commits)
  BY SameRepo DEF Good
<1>2. Complete(refs[Main])' <=> Complete(refs[Main])
  BY DEF repo, Complete, Tree
<1>3. Mine("fold")' = Mine("fold") /\ head' = head
  BY DEF Goto, Mine, repo
<1>4. AgentType' /\ KeepStep'
  BY <1>1, <1>2, <1>3, GotoKeeps DEF Good
<1>5. RestType'
  BY <1>1, RestKeeps, LenNat DEF Good
<1> QED
  BY <1>1, <1>4, <1>5 DEF Good

\* Before the solve.
LEMMA RepoInitGood == Good /\ RepoInit => Good'
<1> SUFFICES ASSUME Good, RepoInit PROVE Good'
  OBVIOUS
<1>1. /\ stage = "repo-init" /\ NewCommit(Main, {}, {}, {}) /\ Finish
      /\ UNCHANGED <<head, work, base, start, faults>>
  BY DEF RepoInit, Launch, ghost
<1>2. commits = <<>> /\ head = Main /\ Len(commits) = 0
  BY <1>1, EmptySeq DEF Good, KeepStep, KeepHead
<1>3. {} \in SUBSET Changes /\ {} \in SUBSET (1 .. Len(commits)) /\ head' \in Branches
  BY <1>1, <1>2, BranchNames
<1>4. /\ RepoType' /\ Len(commits') = 1 /\ refs'[Main] = 1
      /\ commits'[1].tree = {}
  <2>1. /\ RepoType' /\ Len(commits') = Len(commits) + 1 /\ refs'[Main] = Len(commits')
        /\ commits'[Len(commits')].tree = {}
    BY <1>1, <1>3, BranchNames, NewCommitType DEF Good
  <2>2. Len(commits) = 0
    BY <1>2
  <2> QED
    BY <2>1, <2>2
<1>5. KeepHead'
  BY <1>1, <1>2, <1>4 DEF KeepHead, Born, Complete, Tip, Tree
<1>6. AgentType' /\ KeepStep'
  BY <1>1, FinishKeeps DEF Good
<1>7. RestType'
  BY <1>1, <1>2, <1>4, RestKeeps DEF Good, RestType
<1> QED
  BY <1>4, <1>5, <1>6, <1>7 DEF Good

LEMMA PrOpenGood == Good /\ PrOpen => Good'
<1> SUFFICES ASSUME Good, PrOpen PROVE Good'
  OBVIOUS
<1>1. stage = "pr-open" /\ Born /\ UNCHANGED <<head, work, base, start, faults>>
  BY DEF PrOpen, Launch, ghost
<1>2. work' \subseteq Changes
  BY <1>1 DEF Good, RestType
<1>3. CASE head = Main /\ Goto("from-main") /\ UNCHANGED <<commits, refs>>
  <2>1. Complete(refs[Main])
    BY <1>1, <1>3, TipIsCommit DEF Good, Tip
  <2> QED
    BY <1>1, <1>2, <1>3, <2>1, NextStepGood DEF repo
<1>4. CASE CommitPending /\ Goto("merge")
  <2>1. RepoType' /\ KeepHead' /\ Born' /\ Len(commits) <= Len(commits')
    BY <1>1, <1>4, PendingKeeps DEF Good, RestType
  <2>2. AgentType' /\ KeepStep'
    BY <1>1, <1>4, <2>1, GotoKeeps DEF Good
  <2>3. RestType'
    BY <1>1, <1>2, <2>1, RestKeeps DEF Good
  <2> QED
    BY <2>1, <2>2, <2>3 DEF Good
<1> QED
  BY <1>3, <1>4 DEF PrOpen

LEMMA PrOpenMergeGood == Good /\ PrOpenMerge => Good'
<1> SUFFICES ASSUME Good, PrOpenMerge PROVE Good'
  OBVIOUS
<1>1. /\ stage = "pr-open" /\ step = "merge" /\ Born
      /\ UNCHANGED <<head, work, base, start, faults>>
  BY DEF PrOpenMerge, StageAt, ghost, Good, KeepStep
<1>2. work' \subseteq Changes
  BY <1>1 DEF Good, RestType
<1>3. CASE MergeIntoMain /\ Goto("from-main")
  <2>1. /\ RepoType' /\ KeepHead' /\ Born' /\ Complete(refs[Main])'
        /\ Len(commits') = Len(commits) + 1
    BY <1>1, <1>3, MergeKeeps DEF Good
  <2>2. AgentType' /\ KeepStep'
    BY <1>1, <1>3, <2>1, GotoKeeps DEF Good
  <2>3. RestType'
    BY <1>1, <1>2, <2>1, RestKeeps, LenNat DEF Good
  <2> QED
    BY <2>1, <2>2, <2>3 DEF Good
<1>4. CASE Goto("from-head") /\ UNCHANGED <<commits, refs>>
  BY <1>1, <1>2, <1>4, NextStepGood DEF repo
<1> QED
  BY <1>3, <1>4 DEF PrOpenMerge

LEMMA PrOpenBranchGood == Good /\ PrOpenBranch => Good'
<1> SUFFICES ASSUME Good, PrOpenBranch PROVE Good'
  OBVIOUS
<1>1. /\ stage = "pr-open" /\ Goto("point")
      /\ UNCHANGED <<commits, head, work, base, start, faults>>
  BY DEF PrOpenBranch, ghost
<1>2. Born /\ checkpoint \in 1 .. Checkpoints
  BY DEF PrOpenBranch, Good, KeepStep
<1>3. PICK c \in 1 .. Len(commits) :
         Complete(c) /\ refs' = [refs EXCEPT ![Pr(checkpoint)] = c]
  <2>1. CASE step = "from-main"
    BY <1>1, <2>1 DEF PrOpenBranch, Good, KeepStep, StageAt, Complete
  <2>2. CASE step = "from-head"
    BY <1>2, <2>2, TipIsCommit DEF PrOpenBranch, Good
  <2> QED
    BY <2>1, <2>2 DEF PrOpenBranch
<1>4. Pr(checkpoint) \in Branches /\ Pr(checkpoint) # Main
  BY <1>2, BranchNames
<1>5. RepoType'
  BY <1>1, <1>3, <1>4, LenNat DEF Good, RepoType, Past
<1>6. Born'
  BY <1>2, <1>3, <1>4, BranchNames DEF Born, Good, RepoType
<1>7. Complete(refs[Pr(checkpoint)])'
  <2>1. Pr(checkpoint)' = Pr(checkpoint)
    BY <1>1 DEF Goto, Pr
  <2>2. refs'[Pr(checkpoint)'] = c
    BY <1>3, <1>4, <2>1 DEF Good, RepoType
  <2> QED
    BY <1>1, <1>3, <2>2 DEF Complete, Tree
<1>8. KeepHead'
  <2>1. Complete(Tip) /\ Tree(Tip) \subseteq work
    BY <1>2, TipIsCommit DEF Good
  <2>2. refs'[head'] \in {c, Tip}
    BY <1>1, <1>3, <1>4 DEF Tip, Good, RepoType
  <2>3. Complete(Tip)'
    BY <1>1, <1>3, <2>1, <2>2 DEF Complete, Tree, Tip
  <2>4. Tree(Tip)' \subseteq work'
    BY <1>1, <1>3, <2>1, <2>2 DEF Complete, Tree, Tip
  <2> QED
    BY <1>6, <2>3, <2>4 DEF KeepHead
<1>9. AgentType' /\ KeepStep'
  BY <1>1, <1>6, <1>7, GotoKeeps DEF Good
<1>10. RestType'
  BY <1>1, <1>5, RestKeeps, LenNat DEF Good, RestType
<1> QED
  BY <1>5, <1>8, <1>9, <1>10 DEF Good

LEMMA PrOpenPointGood == Good /\ PrOpenPoint => Good'
<1> SUFFICES ASSUME Good, PrOpenPoint PROVE Good'
  OBVIOUS
<1>1. /\ stage = "pr-open" /\ step = "point" /\ Finish /\ head' = Pr(checkpoint)
      /\ UNCHANGED <<commits, refs, work, base, start, faults>>
  BY DEF PrOpenPoint, StageAt, ghost
<1>2. Born /\ Complete(refs[Pr(checkpoint)]) /\ Pr(checkpoint) \in Branches
  BY <1>1, BranchNames DEF Good, KeepStep, StageAt
<1>3. RepoType' /\ KeepHead' /\ Len(commits') = Len(commits)
  BY <1>1, <1>2, PointKeeps DEF Good
<1>4. AgentType' /\ KeepStep'
  BY <1>1, FinishKeeps DEF Good
<1>5. RestType'
  BY <1>1, <1>3, RestKeeps, LenNat DEF Good, RestType
<1> QED
  BY <1>3, <1>4, <1>5 DEF Good

LEMMA BeforeSolveGood == Good /\ BeforeSolve => Good'
BY RepoInitGood, PrOpenGood, PrOpenMergeGood, PrOpenBranchGood, PrOpenPointGood DEF BeforeSolve

\* A session or a stage leaves changes of its own in the workspace.
LEMMA EditsType ==
  ASSUME Good, stage # "done", NEW kind \in CodeKinds \cup {"verdicts", "taste", "fold"},
         NEW edits \in SUBSET Mine(kind), work' = work \cup edits
  PROVE  work \subseteq work' /\ work' \subseteq Changes
<1>1. Mine(kind) \subseteq Changes /\ work \subseteq Changes
  BY MineType DEF Good, KeepStep, RestType
<1> QED
  BY <1>1

LEMMA SolveGood == Good /\ Solve => Good'
<1> SUFFICES ASSUME Good, Solve PROVE Good'
  OBVIOUS
<1>1. /\ stage = "solve" /\ Finish /\ start' = work /\ base' = 0
      /\ UNCHANGED <<commits, refs, head, faults>>
  BY DEF Solve, repo
<1>2. work \subseteq work' /\ work' \subseteq Changes
  <2>1. PICK edits \in SUBSET Mine("solve") : work' = work \cup edits
    BY DEF Solve
  <2> QED
    BY <1>1, <2>1, EditsType DEF CodeKinds
<1>3. RepoType' /\ KeepHead' /\ Len(commits') = Len(commits)
  BY <1>1, <1>2, SameRepo DEF Good, repo
<1>4. AgentType' /\ KeepStep'
  BY <1>1, FinishKeeps DEF Good
<1>5. RestType'
  BY <1>1, <1>2, <1>3, LenNat DEF Good, RestType
<1> QED
  BY <1>3, <1>4, <1>5 DEF Good

\* After the solve.
LEMMA CommitSolveGood == Good /\ CommitSolve => Good'
<1> SUFFICES ASSUME Good, CommitSolve PROVE Good'
  OBVIOUS
<1>1. /\ stage = "commit-ratchet" /\ Born /\ CommitAll /\ Goto("ratchet")
      /\ UNCHANGED <<head, work, base, start, faults>>
  BY DEF CommitSolve, Launch, OnPr, ghost
<1>2. work \subseteq Changes /\ Tip \in 1 .. Len(commits) /\ Tree(Tip) \subseteq work
  BY <1>1, TipIsCommit DEF Good, RestType
<1>3. Past(Tip) \in SUBSET (1 .. Len(commits)) /\ work \ Tree(Tip) \in SUBSET Changes
  BY <1>2, CommitParts DEF Good
<1>4. RepoType' /\ KeepHead' /\ Born' /\ Len(commits') = Len(commits) + 1
  BY <1>1, <1>2, <1>3, CommitOnHead DEF Good, CommitAll
<1>5. AgentType' /\ KeepStep'
  BY <1>1, <1>4, GotoKeeps DEF Good
<1>6. RestType'
  BY <1>1, <1>2, <1>4, RestKeeps, LenNat DEF Good
<1> QED
  BY <1>4, <1>5, <1>6 DEF Good

LEMMA RatchetGood == Good /\ (Ratchet \/ RefreshBase) => Good'
<1> SUFFICES ASSUME Good, Ratchet \/ RefreshBase PROVE Good'
  OBVIOUS
<1>1. /\ IndexMergeBase /\ UNCHANGED <<commits, refs, head, work, start, faults>>
      /\ stage \in {"commit-ratchet", "synthesis"} /\ step \in {"ratchet", "base"}
  BY DEF Ratchet, RefreshBase, StageAt, repo
<1>2. Born /\ Tip \in 1 .. Len(commits)
  BY <1>1, TipIsCommit DEF Good, KeepStep
<1>3. base' \in 0 .. Len(commits)
  BY <1>1, <1>2, MergeBaseType DEF Good, RestType
<1>4. RepoType' /\ KeepHead' /\ Len(commits') = Len(commits)
  BY <1>1, SameRepo DEF Good, repo
<1>5. AgentType' /\ KeepStep'
  BY <1>1, FinishKeeps, GotoKeeps DEF Good, Ratchet, RefreshBase
<1>6. RestType'
  BY <1>1, <1>3, <1>4 DEF Good, RestType
<1> QED
  BY <1>4, <1>5, <1>6 DEF Good

LEMMA FragmentGood == Good /\ (Triage \/ WriteTaste) => Good'
<1> SUFFICES ASSUME Good, Triage \/ WriteTaste PROVE Good'
  OBVIOUS
<1>1. /\ stage \in {"triage", "synthesis"}
      /\ Finish \/ (stage = "synthesis" /\ Goto("pending"))
      /\ UNCHANGED <<repo, base, start, faults>>
  BY DEF Triage, WriteTaste, Launch, StageAt, ghost
<1>2. work \subseteq work' /\ work' \subseteq Changes
  <2>1. PICK kind \in {"verdicts", "taste"} :
           \E edits \in SUBSET Mine(kind) : work' = work \cup edits
    BY DEF Triage, WriteTaste
  <2> QED
    BY <1>1, <2>1, EditsType
<1>3. CASE Finish
  BY <1>1, <1>2, <1>3, EndGood DEF Good, RestType
<1>4. CASE stage = "synthesis" /\ Goto("pending")
  BY <1>1, <1>2, <1>4, NextStepGood
<1> QED
  BY <1>1, <1>3, <1>4

LEMMA SolveReviewGood == Good /\ SolveReview => Good'
<1> SUFFICES ASSUME Good, SolveReview PROVE Good'
  OBVIOUS
<1>1. /\ stage = "solve-review" /\ Born
      /\ Finish \/ Goto("resume")
      /\ UNCHANGED <<repo, work, base, start, faults>>
  BY DEF SolveReview, Launch, OnPr, ghost
<1>2. work' \subseteq Changes /\ start' \subseteq Changes /\ faults' \in 0 .. MaxFaults
  BY <1>1 DEF Good, RestType
<1>3. CASE Finish
  BY <1>1, <1>2, <1>3, EndGood
<1>4. CASE Goto("resume")
  BY <1>1, <1>2, <1>4, NextStepGood
<1> QED
  BY <1>1, <1>3, <1>4

LEMMA ResumeGood == Good /\ Resume => Good'
<1> SUFFICES ASSUME Good, Resume PROVE Good'
  OBVIOUS
<1>1. /\ stage = "solve-review" /\ step = "resume"
      /\ Goto("answered") \/ Goto("timed-out")
      /\ UNCHANGED <<repo, base, start, faults>>
  BY DEF Resume, StageAt, ghost
<1>2. Born
  BY <1>1 DEF Good, KeepStep
<1>3. work \subseteq work' /\ work' \subseteq Changes
  <2>1. PICK edits \in SUBSET Mine("revision") : work' = work \cup edits
    BY DEF Resume
  <2> QED
    BY <1>1, <2>1, EditsType DEF CodeKinds
<1> QED
  BY <1>1, <1>2, <1>3, NextStepGood

\* The work tree falls back to HEAD's code, which has everything committed.
LEMMA RestoreGood == Good /\ Restore => Good'
<1> SUFFICES ASSUME Good, Restore PROVE Good'
  OBVIOUS
<1>1. /\ stage = "solve-review" /\ step = "timed-out" /\ Finish
      /\ work' = Code(Tree(Tip)) \cup Notes(work)
      /\ commits' = commits /\ refs' = refs /\ head' = head
      /\ UNCHANGED <<base, start, faults>>
  BY DEF Restore, StageAt, ghost, repo
<1>2. Born /\ Tip \in 1 .. Len(commits) /\ Complete(Tip) /\ Tree(Tip) \subseteq work
  BY <1>1, TipIsCommit DEF Good, KeepStep
<1>3. work' \subseteq Changes /\ Tree(Tip) \subseteq work'
  BY <1>1, <1>2 DEF Code, Notes, Good, RestType
<1>4. RepoType' /\ Len(commits') = Len(commits)
  BY <1>1 DEF Good, RepoType, Past
<1>5. KeepHead'
  BY <1>1, <1>2, <1>3 DEF KeepHead, Born, Complete, Tree, Tip
<1>6. AgentType' /\ KeepStep'
  BY <1>1, FinishKeeps DEF Good
<1>7. RestType'
  BY <1>1, <1>3, <1>4, RestKeeps, LenNat DEF Good
<1> QED
  BY <1>4, <1>5, <1>6, <1>7 DEF Good

\* The amended commit keeps the notes of the first one, and its code too, since
\* the workspace has all of that.
LEMMA AmendGood == Good /\ Amend => Good'
<1> SUFFICES ASSUME Good, Amend PROVE Good'
  OBVIOUS
<1> DEFINE tree == Code(work) \cup Notes(Tree(Tip))
<1>1. /\ stage = "solve-review" /\ step = "answered" /\ Finish
      /\ UNCHANGED <<head, work, base, start, faults>>
      /\ \/ UNCHANGED <<commits, refs>>
         \/ NewCommit(head, tree, Past(Tip) \ {Tip}, Shown(Tip) \cup (tree \ Tree(Tip)))
  BY DEF Amend, StageAt, ghost
<1>2. Born /\ Tip \in 1 .. Len(commits) /\ Tree(Tip) \subseteq work /\ work \subseteq Changes
  BY <1>1, TipIsCommit DEF Good, KeepStep, RestType
<1>3. RepoType' /\ KeepHead' /\ Len(commits) <= Len(commits')
  <2>1. CASE UNCHANGED <<commits, refs>>
    BY <1>1, <2>1, SameRepo, LenNat DEF Good, repo
  <2>2. CASE NewCommit(head, tree, Past(Tip) \ {Tip}, Shown(Tip) \cup (tree \ Tree(Tip)))
    <3>1. Tree(Tip) \subseteq tree /\ tree \subseteq work
      BY <1>2 DEF Code, Notes
    <3>2. /\ Past(Tip) \ {Tip} \in SUBSET (1 .. Len(commits))
          /\ Shown(Tip) \cup (tree \ Tree(Tip)) \in SUBSET Changes
          /\ tree \in SUBSET Changes
      BY <1>2, <3>1, CommitParts DEF Good
    <3> HIDE DEF tree
    <3> QED
      BY <1>1, <1>2, <2>2, <3>1, <3>2, CommitOnHead, LenNat DEF Good
  <2> QED
    BY <1>1, <2>1, <2>2
<1>4. AgentType' /\ KeepStep'
  BY <1>1, FinishKeeps DEF Good
<1>5. RestType'
  BY <1>1, <1>2, <1>3, RestKeeps DEF Good
<1> QED
  BY <1>3, <1>4, <1>5 DEF Good

LEMMA FixGood == Good /\ Fix => Good'
<1> SUFFICES ASSUME Good, Fix PROVE Good'
  OBVIOUS
<1>1. /\ stage = "fix" /\ Born /\ Finish /\ UNCHANGED <<head, base, start, faults>>
  BY DEF Fix, Launch, MayFix, ghost
<1>2. Tip \in 1 .. Len(commits) /\ Tree(Tip) \subseteq work /\ work \subseteq Changes
  BY <1>1, TipIsCommit DEF Good, RestType
<1>3. PICK fixes \in SUBSET Mine("fix"), left \in {work, Tree(Tip) \cup Fragments(work)} :
        /\ work' = left \cup fixes
        /\ \/ UNCHANGED <<commits, refs>>
           \/ NewCommit(head, Tree(Tip) \cup fixes, Past(Tip), fixes)
  BY DEF Fix
<1>4. fixes \in SUBSET Changes
  BY <1>1, <1>3, MineType DEF CodeKinds, Good, KeepStep
<1>5. left \subseteq Changes /\ Tree(Tip) \subseteq left
  BY <1>2 DEF Fragments
<1>6. work' \subseteq Changes /\ Tree(Tip) \cup fixes \subseteq work'
  BY <1>3, <1>4, <1>5
<1>7. RepoType' /\ KeepHead' /\ Len(commits) <= Len(commits')
  <2>1. CASE UNCHANGED <<commits, refs>>
    <3>1. commits' = commits /\ refs' = refs /\ head' = head
      BY <1>1, <2>1
    <3>2. RepoType'
      BY <3>1 DEF Good, RepoType, Past
    <3>3. KeepHead'
      BY <1>1, <1>6, <3>1, TipIsCommit DEF Good, KeepHead, Born, Complete, Tree, Tip
    <3> QED
      BY <3>1, <3>2, <3>3, LenNat DEF Good
  <2>2. CASE NewCommit(head, Tree(Tip) \cup fixes, Past(Tip), fixes)
    <3>1. Tree(Tip) \cup fixes \in SUBSET Changes /\ Past(Tip) \in SUBSET (1 .. Len(commits))
      BY <1>2, <1>4, CommitParts DEF Good
    <3>2. PICK tree \in SUBSET Changes : tree = Tree(Tip) \cup fixes
      BY <3>1
    <3>3. Tree(Tip) \subseteq tree /\ tree \subseteq work'
      BY <1>6, <3>2
    <3> QED
      BY <1>1, <1>4, <2>2, <3>1, <3>2, <3>3, CommitOnHead, LenNat DEF Good
  <2> QED
    BY <1>3, <2>1, <2>2
<1>8. AgentType' /\ KeepStep'
  BY <1>1, FinishKeeps DEF Good
<1>9. RestType'
  BY <1>1, <1>6, <1>7, RestKeeps DEF Good
<1> QED
  BY <1>7, <1>8, <1>9 DEF Good

\* Wherever the killed stage leaves HEAD, its branch has what was committed before.
LEMMA FixKilledGood == Good /\ FixKilled => Good'
<1> SUFFICES ASSUME Good, FixKilled PROVE Good'
  OBVIOUS
<1>1. /\ stage = "fix" /\ Born /\ work' = work \cup Mine("half") /\ late' = TRUE
      /\ head' \in {head, Backlog(checkpoint)} /\ stage' = "synthesis" /\ step' = "start"
      /\ UNCHANGED <<checkpoint, base, start, faults>>
  BY DEF FixKilled, Launch, MayFix, ghost
<1>2. /\ Tip \in 1 .. Len(commits) /\ Complete(Tip) /\ Tree(Tip) \subseteq work
      /\ checkpoint \in 1 .. Checkpoints /\ work \subseteq Changes
  BY <1>1, TipIsCommit DEF Good, KeepStep, RestType
<1>3. Mine("half") \in SUBSET Changes
  BY <1>2, MineType DEF CodeKinds
<1>4. /\ head' \in Branches /\ work' \subseteq Changes
      /\ Tree(Tip) \cup Mine("half") \subseteq work'
  BY <1>1, <1>2, <1>3, BranchNames DEF Good, RepoType
<1>5. AgentType' /\ KeepStep'
  <2>1. DOMAIN Stages = 1 .. 8 /\ Stages[8] = "synthesis"
    BY DEF Stages
  <2>2. stage' \in {Stages[i] : i \in DOMAIN Stages}
    BY <1>1, <2>1
  <2>3. late' \in BOOLEAN
    BY <1>1
  <2>4. AgentType'
    BY <1>1, <2>2, <2>3 DEF AgentType, Good
  <2>5. KeepStep'
    BY <1>1, <1>2 DEF KeepStep, StageAt
  <2> QED
    BY <2>4, <2>5
<1>6. /\ RepoType' /\ Len(commits) <= Len(commits') /\ Complete(Tip)' /\ Born'
      /\ Tree(Tip)' \subseteq work'
  <2>1. CASE NewCommit(head', Tree(Tip) \cup Mine("half"), Past(Tip), Mine("half"))
    <3>1. PICK b \in Branches, tree \in SUBSET Changes, past \in SUBSET (1 .. Len(commits)) :
             b = head' /\ tree = Tree(Tip) \cup Mine("half") /\ past = Past(Tip)
      BY <1>2, <1>3, <1>4, CommitParts DEF Good
    <3>2. NewCommit(b, tree, past, Mine("half")) /\ Tree(Tip) \subseteq tree
      BY <2>1, <3>1
    <3>3. /\ RepoType' /\ Len(commits') = Len(commits) + 1 /\ refs'[b] = Len(commits')
          /\ \A o \in Branches \ {b} : refs'[o] = refs[o]
      BY <1>3, <1>4, <3>2, NewCommitType DEF Good
    <3>4. Complete(refs[b])' /\ Tree(refs[b])' = tree
      BY <1>2, <1>3, <1>4, <3>2, CommitAdds DEF Good
    <3>5. Born'
      BY <1>1, <3>3, LenNat, BranchNames DEF Born, Good
    <3> QED
      BY <1>4, <3>1, <3>3, <3>4, <3>5, LenNat DEF Complete, Tree, Tip, Good
  <2>2. CASE refs' = [refs EXCEPT ![head'] = Tip] /\ UNCHANGED commits
    <3>1. PICK c \in 1 .. Len(commits) : c = Tip
      BY <1>2
    <3>2. refs' \in [Branches -> 0 .. Len(commits)] /\ refs'[head'] = c
      BY <1>4, <2>2, <3>1, LenNat DEF Good, RepoType
    <3>3. RepoType'
      BY <1>4, <2>2, <3>2 DEF Good, RepoType, Past
    <3>4. Born'
      BY <1>1, <1>4, <2>2, <3>1, BranchNames DEF Born, Good, RepoType
    <3> QED
      BY <1>2, <1>4, <2>2, <3>1, <3>2, <3>3, <3>4, LenNat DEF Complete, Tree, Tip, Good
  <2> QED
    BY <2>1, <2>2 DEF FixKilled
<1>7. RestType'
  BY <1>1, <1>4, <1>6, RestKeeps DEF Good
<1> QED
  BY <1>5, <1>6, <1>7 DEF Good, KeepHead

\* Synthesis.
LEMMA PendingGood == Good /\ (RefreshRatchet \/ MergePending) => Good'
<1> SUFFICES ASSUME Good, RefreshRatchet \/ MergePending PROVE Good'
  OBVIOUS
<1>1. /\ stage = "synthesis" /\ UNCHANGED <<head, work, base, start, faults>>
      /\ \/ Born /\ CommitPending /\ (Goto("base") \/ Goto("merge"))
         \/ Goto("notes") /\ UNCHANGED <<commits, refs>>
  BY DEF RefreshRatchet, MergePending, Launch, StageAt, OnPr, ghost
<1>2. work' \subseteq Changes
  BY <1>1 DEF Good, RestType
<1>3. CASE Born /\ CommitPending /\ (Goto("base") \/ Goto("merge"))
  <2>1. RepoType' /\ KeepHead' /\ Born' /\ Len(commits) <= Len(commits')
    BY <1>1, <1>3, PendingKeeps DEF Good, RestType
  <2>2. AgentType' /\ KeepStep'
    BY <1>1, <1>3, <2>1, GotoKeeps DEF Good
  <2>3. RestType'
    BY <1>1, <1>2, <2>1, RestKeeps DEF Good
  <2> QED
    BY <2>1, <2>2, <2>3 DEF Good
<1>4. CASE Goto("notes") /\ UNCHANGED <<commits, refs>>
  BY <1>1, <1>2, <1>4, NextStepGood DEF repo
<1> QED
  BY <1>1, <1>3, <1>4

LEMMA MergeGood == Good /\ Merge => Good'
<1> SUFFICES ASSUME Good, Merge PROVE Good'
  OBVIOUS
<1>1. /\ stage = "synthesis" /\ step = "merge"
      /\ UNCHANGED <<head, work, base, start, faults>>
  BY DEF Merge, StageAt, ghost
<1>2. Born /\ work' \subseteq Changes /\ start' \subseteq Changes /\ faults' \in 0 .. MaxFaults
  BY <1>1 DEF Good, KeepStep, RestType
<1>3. CASE MergeIntoMain /\ Goto("switch")
  <2>1. /\ RepoType' /\ KeepHead' /\ Born' /\ Complete(refs[Main])'
        /\ Len(commits') = Len(commits) + 1
    BY <1>1, <1>2, <1>3, MergeKeeps DEF Good
  <2>2. AgentType' /\ KeepStep'
    BY <1>1, <1>3, <2>1, GotoKeeps DEF Good
  <2>3. RestType'
    BY <1>1, <1>2, <2>1, RestKeeps, LenNat DEF Good
  <2> QED
    BY <2>1, <2>2, <2>3 DEF Good
<1>4. CASE Finish /\ UNCHANGED <<commits, refs>>
  BY <1>1, <1>2, <1>4, EndGood DEF repo
<1> QED
  BY <1>3, <1>4 DEF Merge

LEMMA PointAtMainGood == Good /\ PointAtMain => Good'
<1> SUFFICES ASSUME Good, PointAtMain PROVE Good'
  OBVIOUS
<1>1. /\ stage = "synthesis" /\ step = "switch" /\ head' = Main /\ Goto("fold")
      /\ UNCHANGED <<commits, refs, work, base, start, faults>>
  BY DEF PointAtMain, StageAt, ghost
<1>2. Born /\ Complete(refs[Main])
  BY <1>1 DEF Good, KeepStep, StageAt
<1>3. RepoType' /\ KeepHead' /\ Born' /\ Len(commits') = Len(commits)
  BY <1>1, <1>2, BranchNames, PointKeeps DEF Good
<1>4. AgentType' /\ KeepStep'
  BY <1>1, <1>3, GotoKeeps DEF Good
<1>5. RestType'
  BY <1>1, <1>3, RestKeeps, LenNat DEF Good, RestType
<1> QED
  BY <1>3, <1>4, <1>5 DEF Good

LEMMA FoldGood == Good /\ Fold => Good'
<1> SUFFICES ASSUME Good, Fold PROVE Good'
  OBVIOUS
<1>1. /\ stage = "synthesis" /\ step = "fold" /\ UNCHANGED <<repo, base, start, faults>>
  BY DEF Fold, StageAt, ghost
<1>2. Born /\ head = Main /\ start' \subseteq Changes /\ faults' \in 0 .. MaxFaults
  BY <1>1 DEF Good, KeepStep, StageAt, RestType
<1>3. CASE work' = work \cup Mine("fold") /\ Goto("commit")
  <2>1. work \subseteq work' /\ work' \subseteq Changes /\ Mine("fold") \subseteq work'
    BY <1>1, <1>3, EditsType
  <2> QED
    BY <1>1, <1>2, <1>3, <2>1, NextStepGood
<1>4. CASE UNCHANGED work /\ Finish
  <2>1. work' \subseteq Changes
    BY <1>4 DEF Good, RestType
  <2> QED
    BY <1>1, <1>2, <1>4, <2>1, EndGood
<1> QED
  BY <1>3, <1>4 DEF Fold

LEMMA FoldCommitGood == Good /\ FoldCommit => Good'
<1> SUFFICES ASSUME Good, FoldCommit PROVE Good'
  OBVIOUS
<1>1. /\ stage = "synthesis" /\ step = "commit" /\ Finish
      /\ UNCHANGED <<head, work, base, start, faults>>
      /\ NewCommit(Main, Tree(Tip) \cup Mine("fold"), Past(Tip), Mine("fold"))
  BY DEF FoldCommit, StageAt, ghost
<1>2. Born /\ head = Main /\ Mine("fold") \subseteq work /\ work \subseteq Changes
  BY <1>1 DEF Good, KeepStep, StageAt, RestType
<1>3. Tip \in 1 .. Len(commits) /\ Tree(Tip) \subseteq work
  BY <1>2, TipIsCommit DEF Good
<1>4. PICK tree \in SUBSET Changes, past \in SUBSET (1 .. Len(commits)), shown \in SUBSET Changes :
        tree = Tree(Tip) \cup Mine("fold") /\ past = Past(Tip) /\ shown = Mine("fold")
  BY <1>2, <1>3, CommitParts DEF Good
<1>5. /\ NewCommit(head, tree, past, shown)
      /\ Tree(Tip) \subseteq tree /\ tree \subseteq work'
  BY <1>1, <1>2, <1>3, <1>4
<1>6. RepoType' /\ KeepHead' /\ Len(commits') = Len(commits) + 1
  BY <1>1, <1>2, <1>5, CommitOnHead DEF Good
<1>7. AgentType' /\ KeepStep'
  BY <1>1, FinishKeeps DEF Good
<1>8. RestType'
  BY <1>1, <1>2, <1>6, RestKeeps, LenNat DEF Good
<1> QED
  BY <1>6, <1>7, <1>8 DEF Good

LEMMA SynthesisGood == Good /\ Synthesis => Good'
BY PendingGood, RatchetGood, FragmentGood, MergeGood, PointAtMainGood, FoldGood, FoldCommitGood
   DEF Synthesis

-----------------------------------------------------------------------------
LEMMA NextGood == Good /\ [FlowNext]_flowVars => Good'
<1> SUFFICES ASSUME Good, [FlowNext]_flowVars PROVE Good'
  OBVIOUS
<1>1. CASE FlowNext
  BY <1>1, ClockGood, FaultsGood, BeforeSolveGood, SolveGood, CommitSolveGood, RatchetGood,
     FragmentGood, SolveReviewGood, ResumeGood, RestoreGood, AmendGood, FixGood, FixKilledGood,
     SynthesisGood DEF FlowNext, Review
<1>2. CASE UNCHANGED flowVars
  <2>1. UNCHANGED <<checkpoint, stage, step, late, commits, refs, head, work, base, start, faults>>
    BY <1>2 DEF flowVars, agent, repo, ghost
  <2>2. RepoType' /\ AgentType' /\ RestType'
    BY <2>1 DEF Good, RepoType, AgentType, RestType, Past
  <2>3. KeepHead' /\ KeepStep'
    BY <2>1 DEF Good, KeepHead, KeepStep, Born, Complete, Tree, Tip, StageAt, Mine, Pr
  <2> QED
    BY <2>2, <2>3 DEF Good
<1> QED
  BY <1>1, <1>2

LEMMA AlwaysGood == FlowSpec => []Good
BY InitGood, NextGood, PTL DEF FlowSpec

\* Every reachable state is well typed (FlowTypeOK of PrFlow): HEAD and the branches name
\* commits that exist, and the ratchet's base is one of them.
THEOREM TypeCorrect == FlowSpec => []FlowTypeOK
<1>1. Good => FlowTypeOK
  BY TypeParts DEF Good
<1> QED
  BY <1>1, AlwaysGood, PTL

\* Nothing that was ever committed is lost, for any number of checkpoints, whatever
\* git calls fail and wherever stages are cut off (prflow/pr.py, agent/stages.py).
THEOREM CommittedIsKept == FlowSpec => []CommittedStays
<1>1. Good => CommittedStays
  <2> SUFFICES ASSUME Good, Born PROVE /\ \A c \in DOMAIN commits : Tree(c) \subseteq Tree(Tip)
                                      /\ Tree(Tip) \subseteq work
    BY DEF CommittedStays
  <2> QED
    BY LenNat, TipIsCommit DEF Good, Complete
<1> QED
  BY <1>1, AlwaysGood, PTL

-----------------------------------------------------------------------------
(* Checkpoints that build on the last one. *)

\* A stage after the solve that has merged, and one that has not.
Merged == stage = "synthesis" /\ step \in {"switch", "fold", "commit"}
OnCheckpoint == stage \in AfterSolve /\ ~Merged
MainHasWork == Code(Tree(refs[Main])) = Code(work)

\* Nothing but a merge or a fold moves main, so that the next merge is possible.
Straight ==
  /\ Born /\ Code(Shown(refs[Main])) = {}
  /\ OnCheckpoint \/ (stage = "pr-open" /\ step \in {"start", "merge"})
       => IsAncestor(refs[Main], Tip)
  /\ OnCheckpoint => head # Main

\* Where main has the code of the workspace, or that of the checkpoint's start.
MainCode ==
  /\ stage = "pr-open" => step \in {"start", "merge", "from-main", "point"}
  /\ StageAt("pr-open", "start") /\ head = Main => MainHasWork
  /\ StageAt("pr-open", "merge") \/ StageAt("synthesis", "merge") => work = Tree(Tip)
  /\ stage = "pr-open" /\ step \in {"from-main", "point"} => MainHasWork
  /\ StageAt("pr-open", "point") => refs[Pr(checkpoint)] = refs[Main]
  /\ stage = "solve" => head = Pr(checkpoint) /\ Tip = refs[Main] /\ MainHasWork
  /\ OnCheckpoint => Code(Tree(refs[Main])) = Code(start)
  /\ Merged => MainHasWork
  /\ stage = "synthesis" /\ step \in {"fold", "commit"} => head = Main

\* A commit that may be amended is the checkpoint's own, never main's tip.
AmendsOwn ==
  stage = "solve-review" /\ step \in {"resume", "answered", "timed-out"}
    => Code(Shown(Tip)) # {}

BaseIsStart == base # 0 => Code(Tree(base)) = Code(start)

OnLine == /\ stage = "repo-init" => work = {}
          /\ stage \notin {"repo-init", "done"} => Straight /\ MainCode /\ AmendsOwn
          /\ BaseIsStart

\* HEAD's branch goes on from main's tip.
Ahead ==
  /\ Born /\ Code(Shown(refs[Main])) = {}
  /\ IsAncestor(refs[Main], Tip) /\ head # Main

\* While nothing failed.
Clean == faults = 0 => OnLine

\* A new commit, in full.
LEMMA NewCommitIs ==
  ASSUME RepoType, NEW b \in Branches, NEW tree, NEW past, NEW shown,
         NewCommit(b, tree, past, shown)
  PROVE  /\ Len(commits) \in Nat
         /\ refs'[b] = Len(commits) + 1
         /\ \A o \in Branches \ {b} : refs'[o] = refs[o]
         /\ commits'[Len(commits) + 1].tree = tree
         /\ commits'[Len(commits) + 1].shown = shown
         /\ commits'[Len(commits) + 1].past = past \cup {Len(commits) + 1}
         /\ \A c \in 1 .. Len(commits) : commits'[c] = commits[c]
<1> DEFINE n == Len(commits)
           r == [tree |-> tree, past |-> past \cup {n + 1}, shown |-> shown]
<1>1. n \in Nat /\ DOMAIN commits = 1 .. n
  BY LenNat
<1>2. commits' = Append(commits, r) /\ refs' = [refs EXCEPT ![b] = n + 1]
  BY DEF NewCommit
<1>3. refs'[b] = n + 1 /\ \A o \in Branches \ {b} : refs'[o] = refs[o]
  BY <1>2 DEF RepoType
<1>4. commits'[n + 1] = r /\ \A c \in 1 .. n : commits'[c] = commits[c]
  <2> HIDE DEF r
  <2>1. commits \in Seq(Commit(n))
    BY DEF RepoType
  <2> QED
    BY <1>1, <1>2, <2>1
<1>5. r.tree = tree /\ r.past = past \cup {n + 1} /\ r.shown = shown
  OBVIOUS
<1> HIDE DEF r
<1> QED
  BY <1>1, <1>3, <1>4, <1>5

\* What a stage is followed by.
LEMMA FinishStage ==
  ASSUME AgentType, stage # "done", Finish
  PROVE  /\ step' = "start"
         /\ stage = "repo-init" => stage' = "pr-open"
         /\ stage = "pr-open" => stage' = "solve" /\ checkpoint' = checkpoint
         /\ stage = "solve" => stage' = "commit-ratchet"
         /\ stage \in AfterSolve => stage' \in AfterSolve \cup {"pr-open", "done"}
<1>1. step' = "start"
  BY DEF Finish
<1>2. CASE stage = "synthesis"
  BY <1>1, <1>2 DEF Finish
<1>3. CASE stage # "synthesis"
  <2>1. PICK i \in DOMAIN Stages : Stages[i] = stage /\ stage' = Stages[i + 1]
    BY <1>3 DEF Finish
  <2>2. i \in 1 .. 7
    BY <1>3, <2>1 DEF Stages
  <2>3. checkpoint' = checkpoint
    BY <1>3 DEF Finish
  <2> QED
    BY <1>1, <1>3, <2>1, <2>2, <2>3 DEF Stages, AfterSolve
<1> QED
  BY <1>2, <1>3

\* main's commit and HEAD's are commits, and a commit is its own ancestor.
LEMMA MainIsCommit ==
  ASSUME Good, Born
  PROVE  /\ refs[Main] \in 1 .. Len(commits) /\ Tip \in 1 .. Len(commits)
         /\ refs[Main] \in Past(refs[Main])
         /\ \A c \in Past(refs[Main]) : c <= refs[Main]
<1>1. refs[Main] \in 1 .. Len(commits)
  <2>1. refs[Main] \in 0 .. Len(commits)
    BY BranchNames DEF Good, RepoType
  <2> QED
    BY <2>1, LenNat DEF Born, Good
<1>2. refs[Main] \in Past(refs[Main]) /\ Past(refs[Main]) \subseteq 1 .. refs[Main]
  BY <1>1, LenNat DEF Good, RepoType
<1>3. \A c \in 1 .. refs[Main] : c <= refs[Main]
  BY <1>1
<1> QED
  BY <1>1, <1>2, <1>3, TipIsCommit DEF Good

LEMMA AheadNow ==
  ASSUME OnLine, OnCheckpoint
  PROVE  Ahead /\ Code(Tree(refs[Main])) = Code(start)
BY DEF OnLine, OnCheckpoint, AfterSolve, Straight, MainCode, Ahead

LEMMA AheadKept ==
  ASSUME Ahead, UNCHANGED <<commits, refs, head>>
  PROVE  Ahead' /\ Tree(refs[Main])' = Tree(refs[Main])
BY DEF Ahead, Born, Code, Shown, IsAncestor, Past, Tip, Tree

\* A commit on another branch than main, that has main's tip among its ancestors.
LEMMA AheadCommit ==
  ASSUME Good, Ahead, NEW b \in Branches, b # Main, head' = b,
         NEW tree, NEW past, NEW shown, NewCommit(b, tree, past, shown),
         refs[Main] \in past
  PROVE  /\ Ahead' /\ Tree(refs[Main])' = Tree(refs[Main]) /\ Tree(Tip)' = tree
         /\ \A c \in 1 .. Len(commits) : commits'[c] = commits[c]
<1>1. /\ Len(commits) \in Nat
      /\ refs'[b] = Len(commits) + 1
      /\ \A o \in Branches \ {b} : refs'[o] = refs[o]
      /\ commits'[Len(commits) + 1].tree = tree
      /\ commits'[Len(commits) + 1].past = past \cup {Len(commits) + 1}
      /\ \A c \in 1 .. Len(commits) : commits'[c] = commits[c]
  BY NewCommitIs DEF Good
<1>2. refs[Main] \in 1 .. Len(commits)
  BY MainIsCommit DEF Ahead
<1>3. refs'[Main] = refs[Main]
  BY <1>1, BranchNames
<1>4. commits'[refs'[Main]] = commits[refs[Main]]
  BY <1>1, <1>2, <1>3
<1>5. Born' /\ Code(Shown(refs[Main]))' = {} /\ Tree(refs[Main])' = Tree(refs[Main])
  BY <1>3, <1>4 DEF Ahead, Born, Code, Shown, Tree
<1>6. Tree(Tip)' = tree /\ IsAncestor(refs[Main], Tip)'
  BY <1>1, <1>3 DEF Tree, Tip, IsAncestor, Past
<1> QED
  BY <1>1, <1>5, <1>6 DEF Ahead

\* The stages after the solve, up to the merge, go on from main's tip.
LEMMA OnwardOnLine ==
  ASSUME OnLine, OnCheckpoint, Ahead', Tree(refs[Main])' = Tree(refs[Main]),
         BaseIsStart', start' = start,
         OnCheckpoint' \/ (stage' \in {"pr-open", "done"} /\ step' = "start"),
         StageAt("synthesis", "merge")' => work' = Tree(Tip)', AmendsOwn'
  PROVE  OnLine'
<1>1. stage' # "repo-init"
  BY DEF OnCheckpoint, AfterSolve
<1>2. Straight'
  BY DEF Straight, Ahead
<1>3. Code(Tree(refs[Main]))' = Code(start)'
  BY AheadNow DEF Code
<1>4. ~Merged' /\ stage' # "solve" /\ (stage' = "pr-open" => step' = "start")
  BY DEF Merged, OnCheckpoint, AfterSolve
<1>5. MainCode'
  BY <1>3, <1>4 DEF MainCode, StageAt, Ahead, Merged
<1> QED
  BY <1>1, <1>2, <1>5 DEF OnLine

LEMMA BaseKept ==
  ASSUME Good, BaseIsStart, base' = base, start' = start,
         \A c \in 1 .. Len(commits) : commits'[c] = commits[c]
  PROVE  BaseIsStart'
<1>1. Len(commits) \in Nat /\ base \in 0 .. Len(commits)
  BY LenNat DEF Good, RestType
<1>2. ASSUME base # 0
      PROVE  Code(Tree(base))' = Code(start)'
  <2>1. base \in 1 .. Len(commits)
    BY <1>1, <1>2
  <2>2. commits'[base'] = commits[base]
    BY <2>1
  <2>3. Tree(base)' = Tree(base)
    BY <2>2 DEF Tree
  <2> QED
    BY <1>2, <2>3 DEF BaseIsStart, Code
<1> QED
  BY <1>2 DEF BaseIsStart

\* A stage before the merge ends, with nothing new in the repository.
LEMMA EndOnLine ==
  ASSUME Good, OnLine, OnCheckpoint, Finish, UNCHANGED <<commits, refs, head, start>>,
         BaseIsStart'
  PROVE  OnLine'
<1>1. step' = "start" /\ stage' \in AfterSolve \cup {"pr-open", "done"}
  BY FinishStage DEF Good, OnCheckpoint, AfterSolve
<1>2. OnCheckpoint' \/ stage' \in {"pr-open", "done"}
  BY <1>1 DEF OnCheckpoint, Merged
<1>3. AmendsOwn' /\ ~StageAt("synthesis", "merge")'
  BY <1>1 DEF AmendsOwn, StageAt
<1> QED
  BY <1>1, <1>2, <1>3, AheadNow, AheadKept, OnwardOnLine

\* A stage before the merge goes on, with nothing new in the repository.
LEMMA GoOnLine ==
  ASSUME Good, OnLine, OnCheckpoint, NEW s, Goto(s), s \notin {"merge", "switch", "fold", "commit"},
         UNCHANGED <<commits, refs, head, start>>, BaseIsStart',
         stage = "solve-review" /\ s \in {"resume", "answered", "timed-out"}
           => Code(Shown(Tip)) # {}
  PROVE  OnLine'
<1>1. stage' = stage /\ step' = s
  BY DEF Goto
<1>2. OnCheckpoint' /\ ~StageAt("synthesis", "merge")'
  BY <1>1 DEF OnCheckpoint, Merged, StageAt
<1>3. AmendsOwn'
  BY <1>1 DEF AmendsOwn, Code, Shown, Tip
<1> QED
  BY <1>2, <1>3, AheadNow, AheadKept, OnwardOnLine

\* After the merge: main has the code of the workspace, and HEAD names main.
LEMMA MergedEnds ==
  ASSUME Good, OnLine, stage = "synthesis", step \in {"fold", "commit"}, Finish,
         Born', Code(Shown(refs[Main]))' = {}, IsAncestor(refs[Main], Tip)', MainHasWork',
         BaseIsStart'
  PROVE  OnLine'
<1>1. step' = "start" /\ stage' \in {"pr-open", "done"}
  BY DEF Finish
<1>2. Straight'
  BY <1>1 DEF Straight, OnCheckpoint, AfterSolve
<1>3. MainCode'
  BY <1>1 DEF MainCode, StageAt, OnCheckpoint, Merged, AfterSolve
<1> QED
  BY <1>1, <1>2, <1>3 DEF OnLine, AmendsOwn

\* Before the solve.
LEMMA RepoInitClean == Good /\ OnLine /\ RepoInit => OnLine'
<1> SUFFICES ASSUME Good, OnLine, RepoInit PROVE OnLine'
  OBVIOUS
<1>1. /\ stage = "repo-init" /\ NewCommit(Main, {}, {}, {}) /\ Finish
      /\ UNCHANGED <<head, work, base, start>>
  BY DEF RepoInit, Launch, ghost
<1>2. head = Main /\ work = {} /\ Main \in Branches
  BY <1>1, BranchNames DEF Good, KeepStep, KeepHead, OnLine
<1>3. /\ Len(commits) \in Nat
      /\ refs'[Main] = Len(commits) + 1
      /\ commits'[Len(commits) + 1].tree = {}
      /\ commits'[Len(commits) + 1].shown = {}
      /\ commits'[Len(commits) + 1].past = {} \cup {Len(commits) + 1}
      /\ \A c \in 1 .. Len(commits) : commits'[c] = commits[c]
  BY <1>1, <1>2, NewCommitIs DEF Good
<1>4. stage' = "pr-open" /\ step' = "start"
  BY <1>1, FinishStage DEF Good
<1>5. BaseIsStart'
  BY <1>1, <1>3, BaseKept DEF OnLine
<1>6. Born' /\ Code(Shown(refs[Main]))' = {} /\ IsAncestor(refs[Main], Tip)'
  BY <1>1, <1>2, <1>3 DEF Born, Code, Shown, IsAncestor, Past, Tip
<1>7. MainHasWork'
  BY <1>1, <1>2, <1>3 DEF MainHasWork, Tree
<1>8. ~OnCheckpoint' /\ ~Merged'
  BY <1>4 DEF OnCheckpoint, Merged, AfterSolve
<1>9. Straight' /\ MainCode' /\ AmendsOwn'
  BY <1>4, <1>6, <1>7, <1>8 DEF Straight, MainCode, AmendsOwn, StageAt
<1> QED
  BY <1>4, <1>5, <1>9 DEF OnLine

\* What is left in the work tree goes to HEAD's branch.
LEMMA PendingClean ==
  ASSUME Good, Ahead, CommitPending, UNCHANGED <<head, work, base, start>>, BaseIsStart
  PROVE  Ahead' /\ Tree(refs[Main])' = Tree(refs[Main]) /\ work' = Tree(Tip)' /\ BaseIsStart'
<1>1. CASE work = Tree(Tip) /\ UNCHANGED <<commits, refs>>
  <2>1. Ahead' /\ Tree(refs[Main])' = Tree(refs[Main])
    BY <1>1, AheadKept
  <2>2. BaseIsStart'
    BY <1>1, BaseKept
  <2> QED
    BY <1>1, <2>1, <2>2 DEF Tree, Tip
<1>2. CASE CommitAll
  <2>1. NewCommit(head, work, Past(Tip), work \ Tree(Tip))
    BY <1>2 DEF CommitAll
  <2>2. head \in Branches /\ head # Main /\ refs[Main] \in Past(Tip)
    BY DEF Good, RepoType, Ahead, IsAncestor
  <2>3. /\ Ahead' /\ Tree(refs[Main])' = Tree(refs[Main]) /\ Tree(Tip)' = work
        /\ \A c \in 1 .. Len(commits) : commits'[c] = commits[c]
    BY <2>1, <2>2, AheadCommit
  <2> QED
    BY <2>3, BaseKept
<1> QED
  BY <1>1, <1>2 DEF CommitPending

LEMMA PrOpenClean == Good /\ OnLine /\ PrOpen => OnLine'
<1> SUFFICES ASSUME Good, OnLine, PrOpen PROVE OnLine'
  OBVIOUS
<1>1. stage = "pr-open" /\ step = "start" /\ UNCHANGED <<head, work, base, start>>
  BY DEF PrOpen, Launch, ghost
<1>2. Straight /\ MainCode /\ BaseIsStart
  BY <1>1 DEF OnLine
<1>3. CASE head = Main /\ Goto("from-main") /\ UNCHANGED <<commits, refs>>
  <2>1. stage' = "pr-open" /\ step' = "from-main"
    BY <1>1, <1>3 DEF Goto
  <2>2. ~OnCheckpoint' /\ ~Merged'
    BY <2>1 DEF OnCheckpoint, Merged, AfterSolve
  <2>3. Born' /\ Code(Shown(refs[Main]))' = {}
    BY <1>2, <1>3 DEF Straight, Born, Code, Shown
  <2>4. MainHasWork'
    BY <1>1, <1>2, <1>3 DEF MainCode, MainHasWork, StageAt, Code, Tree
  <2>5. Straight' /\ MainCode' /\ AmendsOwn'
    BY <2>1, <2>2, <2>3, <2>4 DEF Straight, MainCode, AmendsOwn, StageAt
  <2>6. BaseIsStart'
    BY <1>1, <1>2, <1>3, BaseKept
  <2> QED
    BY <2>1, <2>5, <2>6 DEF OnLine
<1>4. CASE head # Main /\ CommitPending /\ Goto("merge")
  <2>1. stage' = "pr-open" /\ step' = "merge"
    BY <1>1, <1>4 DEF Goto
  <2>2. Ahead
    BY <1>1, <1>2, <1>4 DEF Straight, Ahead
  <2>3. Ahead' /\ work' = Tree(Tip)' /\ BaseIsStart'
    BY <1>1, <1>2, <1>4, <2>2, PendingClean
  <2>4. ~OnCheckpoint' /\ ~Merged'
    BY <2>1 DEF OnCheckpoint, Merged, AfterSolve
  <2>5. Straight' /\ MainCode' /\ AmendsOwn'
    BY <2>1, <2>3, <2>4 DEF Straight, Ahead, MainCode, AmendsOwn, StageAt
  <2> QED
    BY <2>1, <2>3, <2>5 DEF OnLine
<1> QED
  BY <1>3, <1>4 DEF PrOpen

\* A merge into main that can be made is made: main has the tree of the workspace.
LEMMA MergeClean ==
  ASSUME Good, OnLine, stage \in {"pr-open", "synthesis"}, step = "merge", MergeIntoMain,
         UNCHANGED <<head, work, base, start>>
  PROVE  Born' /\ Code(Shown(refs[Main]))' = {} /\ MainHasWork' /\ BaseIsStart'
<1>1. work = Tree(Tip)
  BY DEF OnLine, MainCode, StageAt
<1>2. NewCommit(Main, Tree(Tip), Past(Tip), {}) /\ Main \in Branches
  BY BranchNames DEF MergeIntoMain
<1>3. /\ Len(commits) \in Nat
      /\ refs'[Main] = Len(commits) + 1
      /\ commits'[Len(commits) + 1].tree = Tree(Tip)
      /\ commits'[Len(commits) + 1].shown = {}
      /\ \A c \in 1 .. Len(commits) : commits'[c] = commits[c]
  BY <1>2, NewCommitIs DEF Good
<1>4. Born' /\ Code(Shown(refs[Main]))' = {}
  BY <1>3 DEF Born, Code, Shown
<1>5. Tree(refs[Main])' = work'
  BY <1>1, <1>3 DEF Tree
<1>6. MainHasWork'
  BY <1>5 DEF MainHasWork
<1> QED
  BY <1>3, <1>4, <1>6, BaseKept DEF OnLine

LEMMA PrOpenMergeClean == Good /\ OnLine /\ PrOpenMerge => OnLine'
<1> SUFFICES ASSUME Good, OnLine, PrOpenMerge PROVE OnLine'
  OBVIOUS
<1>1. stage = "pr-open" /\ step = "merge" /\ UNCHANGED <<head, work, base, start>>
  BY DEF PrOpenMerge, StageAt, ghost
<1>2. IsAncestor(refs[Main], Tip)
  BY <1>1 DEF OnLine, Straight
<1>3. MergeIntoMain /\ Goto("from-main")
  BY <1>2 DEF PrOpenMerge
<1>4. stage' = "pr-open" /\ step' = "from-main"
  BY <1>1, <1>3 DEF Goto
<1>5. Born' /\ Code(Shown(refs[Main]))' = {} /\ MainHasWork' /\ BaseIsStart'
  BY <1>1, <1>3, MergeClean
<1>6. ~OnCheckpoint' /\ ~Merged'
  BY <1>4 DEF OnCheckpoint, Merged, AfterSolve
<1>7. Straight' /\ MainCode' /\ AmendsOwn'
  BY <1>4, <1>5, <1>6 DEF Straight, MainCode, AmendsOwn, StageAt
<1> QED
  BY <1>4, <1>5, <1>7 DEF OnLine

LEMMA PrOpenBranchClean == Good /\ OnLine /\ PrOpenBranch => OnLine'
<1> SUFFICES ASSUME Good, OnLine, PrOpenBranch PROVE OnLine'
  OBVIOUS
<1>1. /\ stage = "pr-open" /\ step = "from-main" /\ Goto("point")
      /\ UNCHANGED <<commits, head, work, base, start>>
  BY DEF PrOpenBranch, ghost, OnLine, MainCode
<1>2. refs' = [refs EXCEPT ![Pr(checkpoint)] = refs[Main]]
  BY <1>1 DEF PrOpenBranch
<1>3. Pr(checkpoint) \in Branches /\ Pr(checkpoint) # Main /\ Main \in Branches
  BY <1>1, BranchNames DEF Good, KeepStep
<1>4. refs'[Main] = refs[Main] /\ refs'[Pr(checkpoint)] = refs[Main]
  BY <1>2, <1>3 DEF Good, RepoType
<1>5. stage' = "pr-open" /\ step' = "point" /\ checkpoint' = checkpoint
  BY <1>1 DEF Goto
<1>6. Straight /\ MainCode
  BY <1>1 DEF OnLine
<1>7. Born' /\ Code(Shown(refs[Main]))' = {}
  BY <1>1, <1>4, <1>6 DEF Straight, Born, Code, Shown
<1>8. MainHasWork'
  BY <1>1, <1>4, <1>6 DEF MainCode, MainHasWork, Code, Tree
<1>9. refs'[Pr(checkpoint')] = refs'[Main]
  BY <1>4, <1>5
<1>10. ~OnCheckpoint' /\ ~Merged'
  BY <1>5 DEF OnCheckpoint, Merged, AfterSolve
<1>11. Straight' /\ MainCode' /\ AmendsOwn'
  BY <1>5, <1>7, <1>8, <1>9, <1>10 DEF Straight, MainCode, AmendsOwn, StageAt
<1>12. BaseIsStart'
  BY <1>1, BaseKept DEF OnLine
<1> QED
  BY <1>5, <1>11, <1>12 DEF OnLine

LEMMA PrOpenPointClean == Good /\ OnLine /\ PrOpenPoint => OnLine'
<1> SUFFICES ASSUME Good, OnLine, PrOpenPoint PROVE OnLine'
  OBVIOUS
<1>1. /\ stage = "pr-open" /\ step = "point" /\ Finish /\ head' = Pr(checkpoint)
      /\ UNCHANGED <<commits, refs, work, base, start>>
  BY DEF PrOpenPoint, StageAt, ghost
<1>2. stage' = "solve" /\ checkpoint' = checkpoint
  BY <1>1, FinishStage DEF Good
<1>3. Straight /\ MainCode
  BY <1>1 DEF OnLine
<1>4. Born' /\ Code(Shown(refs[Main]))' = {}
  BY <1>1, <1>3 DEF Straight, Born, Code, Shown
<1>5. MainHasWork'
  BY <1>1, <1>3 DEF MainCode, MainHasWork, Code, Tree
<1>6. head' = Pr(checkpoint') /\ Tip' = refs'[Main]
  BY <1>1, <1>2, <1>3 DEF MainCode, StageAt, Tip
<1>7. ~OnCheckpoint' /\ ~Merged'
  BY <1>2 DEF OnCheckpoint, Merged, AfterSolve
<1>8. Straight' /\ MainCode' /\ AmendsOwn'
  BY <1>2, <1>4, <1>5, <1>6, <1>7 DEF Straight, MainCode, AmendsOwn, StageAt, Pr
<1>9. BaseIsStart'
  BY <1>1, BaseKept DEF OnLine
<1> QED
  BY <1>2, <1>8, <1>9 DEF OnLine

LEMMA SolveClean == Good /\ OnLine /\ Solve => OnLine'
<1> SUFFICES ASSUME Good, OnLine, Solve PROVE OnLine'
  OBVIOUS
<1>1. /\ stage = "solve" /\ Finish /\ start' = work /\ base' = 0
      /\ UNCHANGED <<commits, refs, head>>
  BY DEF Solve, repo
<1>2. step' = "start" /\ stage' = "commit-ratchet"
  BY <1>1, FinishStage DEF Good
<1>3. Straight /\ MainCode
  BY <1>1 DEF OnLine
<1>4. /\ head = Pr(checkpoint) /\ Tip = refs[Main] /\ Code(Tree(refs[Main])) = Code(work)
      /\ head # Main
  BY <1>1, <1>3, BranchNames DEF MainCode, MainHasWork, Good, KeepStep
<1>5. Ahead
  BY <1>3, <1>4, MainIsCommit DEF Ahead, Straight, IsAncestor
<1>6. Ahead' /\ Tree(refs[Main])' = Tree(refs[Main])
  BY <1>1, <1>5, AheadKept
<1>7. Code(Tree(refs[Main]))' = Code(start)'
  BY <1>1, <1>4, <1>6 DEF Code
<1>8. ~Merged'
  BY <1>2 DEF Merged
<1>9. Straight' /\ MainCode' /\ AmendsOwn'
  BY <1>2, <1>6, <1>7, <1>8 DEF Straight, Ahead, MainCode, AmendsOwn, StageAt
<1>10. BaseIsStart'
  BY <1>1 DEF BaseIsStart
<1> QED
  BY <1>2, <1>9, <1>10 DEF OnLine

\* After the solve.  What the ratchet compares with is main's tip.
LEMMA BaseAtMain ==
  ASSUME Good, OnLine, OnCheckpoint, IndexMergeBase, UNCHANGED <<commits, start>>
  PROVE  BaseIsStart'
<1>1. Ahead /\ Code(Tree(refs[Main])) = Code(start) /\ BaseIsStart
  BY AheadNow DEF OnLine
<1>2. /\ refs[Main] \in 1 .. Len(commits) /\ Tip \in 1 .. Len(commits)
      /\ refs[Main] \in Past(refs[Main])
      /\ \A c \in Past(refs[Main]) : c <= refs[Main]
  BY <1>1, MainIsCommit DEF Ahead
<1>3. CommonAncestors \subseteq 1 .. Len(commits) /\ refs[Main] \in CommonAncestors
  BY <1>1, <1>2, CommitParts DEF CommonAncestors, Good, Ahead, IsAncestor
<1>4. Len(commits) \in Nat
  BY LenNat DEF Good
<1>5. /\ Max(CommonAncestors) \in CommonAncestors
      /\ \A y \in CommonAncestors : Max(CommonAncestors) >= y
  BY <1>3, <1>4, MaxInRange
<1>6. Max(CommonAncestors) \in Past(refs[Main])
  BY <1>5 DEF CommonAncestors
<1>7. Max(CommonAncestors) = refs[Main]
  <2>1. Max(CommonAncestors) >= refs[Main] /\ Max(CommonAncestors) <= refs[Main]
    BY <1>2, <1>3, <1>5, <1>6
  <2>2. Max(CommonAncestors) \in Nat /\ refs[Main] \in Nat
    <3>1. 1 .. Len(commits) \subseteq Nat
      BY <1>4
    <3>2. Max(CommonAncestors) \in 1 .. Len(commits)
      BY <1>3, <1>5
    <3> QED
      BY <1>2, <3>1, <3>2
  <2> QED
    BY <2>1, <2>2
<1>8. base' = refs[Main]
  BY <1>3, <1>7 DEF IndexMergeBase
<1>9. Tree(base)' = Tree(refs[Main])
  BY <1>8 DEF Tree
<1> QED
  BY <1>1, <1>9 DEF BaseIsStart, Code

\* A commit of the checkpoint on HEAD's branch, or on the fix stage's.
LEMMA CheckpointCommit ==
  ASSUME Good, OnLine, OnCheckpoint, UNCHANGED <<base, start>>,
         NEW b \in Branches, b # Main, head' = b,
         NEW tree, NEW past, NEW shown, NewCommit(b, tree, past, shown),
         refs[Main] \in past,
         OnCheckpoint' \/ (stage' \in {"pr-open", "done"} /\ step' = "start"),
         step' \in {"start", "ratchet"}
  PROVE  OnLine'
<1>1. Ahead /\ BaseIsStart
  BY AheadNow DEF OnLine
<1>2. /\ Ahead' /\ Tree(refs[Main])' = Tree(refs[Main])
      /\ \A c \in 1 .. Len(commits) : commits'[c] = commits[c]
  BY <1>1, AheadCommit
<1>3. BaseIsStart'
  BY <1>1, <1>2, BaseKept
<1>4. AmendsOwn' /\ ~StageAt("synthesis", "merge")'
  BY DEF AmendsOwn, StageAt
<1> QED
  BY <1>2, <1>3, <1>4, OnwardOnLine

LEMMA CommitSolveClean == Good /\ OnLine /\ CommitSolve => OnLine'
<1> SUFFICES ASSUME Good, OnLine, CommitSolve PROVE OnLine'
  OBVIOUS
<1>1. /\ stage = "commit-ratchet" /\ step = "start" /\ CommitAll /\ Goto("ratchet")
      /\ UNCHANGED <<head, base, start>>
  BY DEF CommitSolve, Launch, ghost
<1>2. OnCheckpoint
  BY <1>1 DEF OnCheckpoint, Merged, AfterSolve
<1>3. head \in Branches /\ head # Main /\ refs[Main] \in Past(Tip)
  BY <1>2, AheadNow DEF Good, RepoType, Ahead, IsAncestor
<1>4. NewCommit(head, work, Past(Tip), work \ Tree(Tip))
  BY <1>1 DEF CommitAll
<1>5. stage' = "commit-ratchet" /\ step' = "ratchet"
  BY <1>1 DEF Goto
<1>6. OnCheckpoint'
  BY <1>5 DEF OnCheckpoint, Merged, AfterSolve
<1> QED
  BY <1>1, <1>2, <1>3, <1>4, <1>5, <1>6, CheckpointCommit

LEMMA RatchetClean == Good /\ OnLine /\ (Ratchet \/ RefreshBase) => OnLine'
<1> SUFFICES ASSUME Good, OnLine, Ratchet \/ RefreshBase PROVE OnLine'
  OBVIOUS
<1>1. /\ IndexMergeBase /\ UNCHANGED <<commits, refs, head, start>>
      /\ stage \in {"commit-ratchet", "synthesis"} /\ step \in {"ratchet", "base"}
      /\ Finish \/ Goto("notes")
  BY DEF Ratchet, RefreshBase, StageAt, repo
<1>2. OnCheckpoint
  BY <1>1 DEF OnCheckpoint, Merged, AfterSolve
<1>3. BaseIsStart'
  BY <1>1, <1>2, BaseAtMain
<1>4. CASE Finish
  BY <1>1, <1>2, <1>3, <1>4, EndOnLine
<1>5. CASE Goto("notes")
  BY <1>1, <1>2, <1>3, <1>5, GoOnLine
<1> QED
  BY <1>1, <1>4, <1>5

\* Steps before the merge that touch the workspace only.
LEMMA WorkspaceClean ==
  Good /\ OnLine /\ (Triage \/ SolveReview \/ Resume \/ Restore \/ WriteTaste) => OnLine'
<1> SUFFICES ASSUME Good, OnLine, Triage \/ SolveReview \/ Resume \/ Restore \/ WriteTaste
             PROVE  OnLine'
  OBVIOUS
<1>1. UNCHANGED <<commits, refs, head, base, start>>
  BY DEF Triage, SolveReview, Resume, Restore, WriteTaste, repo, ghost
<1>2. BaseIsStart'
  BY <1>1, BaseKept DEF OnLine
<1>3. OnCheckpoint
  BY DEF Triage, SolveReview, Resume, Restore, WriteTaste, Launch, StageAt,
         OnCheckpoint, Merged, AfterSolve
<1>4. CASE Finish
  BY <1>1, <1>2, <1>3, <1>4, EndOnLine
<1>5. CASE SolveReview /\ Code(Shown(Tip)) # {} /\ Goto("resume")
  BY <1>1, <1>2, <1>3, <1>5, GoOnLine
<1>6. CASE Resume
  <2>1. Goto("answered") \/ Goto("timed-out")
    BY <1>6 DEF Resume
  <2>2. Code(Shown(Tip)) # {}
    BY <1>6 DEF Resume, StageAt, OnLine, AmendsOwn
  <2> QED
    BY <1>1, <1>2, <1>3, <2>1, <2>2, GoOnLine
<1>7. CASE stage = "synthesis" /\ Goto("pending")
  BY <1>1, <1>2, <1>3, <1>7, GoOnLine
<1> QED
  BY <1>4, <1>5, <1>6, <1>7 DEF Triage, SolveReview, Restore, WriteTaste, StageAt

\* The commit that is amended is not main's tip, so main's tip stays an ancestor.
LEMMA AmendClean == Good /\ OnLine /\ Amend => OnLine'
<1> SUFFICES ASSUME Good, OnLine, Amend PROVE OnLine'
  OBVIOUS
<1> DEFINE tree == Code(work) \cup Notes(Tree(Tip))
           shown == Shown(Tip) \cup (tree \ Tree(Tip))
<1>1. /\ stage = "solve-review" /\ step = "answered" /\ Finish
      /\ UNCHANGED <<head, base, start>>
      /\ \/ UNCHANGED <<commits, refs>>
         \/ NewCommit(head, tree, Past(Tip) \ {Tip}, shown)
  BY DEF Amend, StageAt, ghost
<1> HIDE DEF tree, shown
<1>2. OnCheckpoint
  BY <1>1 DEF OnCheckpoint, Merged, AfterSolve
<1>3. Ahead
  BY <1>2, AheadNow
<1>4. CASE UNCHANGED <<commits, refs>>
  <2>1. BaseIsStart'
    BY <1>1, <1>4, BaseKept DEF OnLine
  <2> QED
    BY <1>1, <1>2, <1>4, <2>1, EndOnLine
<1>5. CASE NewCommit(head, tree, Past(Tip) \ {Tip}, shown)
  <2>1. Code(Shown(Tip)) # {}
    BY <1>1 DEF OnLine, AmendsOwn
  <2>2. refs[Main] \in Past(Tip) \ {Tip}
    BY <1>3, <2>1 DEF Ahead, IsAncestor
  <2>3. head \in Branches /\ head # Main
    BY <1>3 DEF Good, RepoType, Ahead
  <2>4. step' = "start" /\ stage' \in AfterSolve \cup {"pr-open", "done"}
    BY <1>1, FinishStage DEF Good, AfterSolve
  <2>5. OnCheckpoint' \/ (stage' \in {"pr-open", "done"} /\ step' = "start")
    BY <2>4 DEF OnCheckpoint, Merged
  <2> QED
    BY <1>1, <1>2, <1>5, <2>2, <2>3, <2>4, <2>5, CheckpointCommit
<1> QED
  BY <1>1, <1>4, <1>5

LEMMA FixClean == Good /\ OnLine /\ Fix => OnLine'
<1> SUFFICES ASSUME Good, OnLine, Fix PROVE OnLine'
  OBVIOUS
<1>1. stage = "fix" /\ step = "start" /\ Finish /\ UNCHANGED <<head, base, start>>
  BY DEF Fix, Launch, ghost
<1>2. PICK fixes \in SUBSET Mine("fix") :
        \/ UNCHANGED <<commits, refs>>
        \/ NewCommit(head, Tree(Tip) \cup fixes, Past(Tip), fixes)
  BY DEF Fix
<1>3. OnCheckpoint
  BY <1>1 DEF OnCheckpoint, Merged, AfterSolve
<1>4. CASE UNCHANGED <<commits, refs>>
  <2>1. BaseIsStart'
    BY <1>1, <1>4, BaseKept DEF OnLine
  <2> QED
    BY <1>1, <1>3, <1>4, <2>1, EndOnLine
<1>5. CASE NewCommit(head, Tree(Tip) \cup fixes, Past(Tip), fixes)
  <2>1. head \in Branches /\ head # Main /\ refs[Main] \in Past(Tip)
    BY <1>3, AheadNow DEF Good, RepoType, Ahead, IsAncestor
  <2>2. step' = "start" /\ stage' \in AfterSolve \cup {"pr-open", "done"}
    BY <1>1, FinishStage DEF Good, AfterSolve
  <2>3. OnCheckpoint' \/ (stage' \in {"pr-open", "done"} /\ step' = "start")
    BY <2>2 DEF OnCheckpoint, Merged
  <2> QED
    BY <1>1, <1>3, <1>5, <2>1, <2>2, <2>3, CheckpointCommit
<1> QED
  BY <1>2, <1>4, <1>5

\* Wherever the killed stage leaves HEAD, that branch goes on from main's tip.
LEMMA FixKilledClean == Good /\ OnLine /\ FixKilled => OnLine'
<1> SUFFICES ASSUME Good, OnLine, FixKilled PROVE OnLine'
  OBVIOUS
<1>1. /\ stage = "fix" /\ step = "start" /\ stage' = "synthesis" /\ step' = "start"
      /\ head' \in {head, Backlog(checkpoint)} /\ UNCHANGED <<base, start>>
  BY DEF FixKilled, Launch, ghost
<1>2. OnCheckpoint /\ OnCheckpoint'
  BY <1>1 DEF OnCheckpoint, Merged, AfterSolve
<1>3. Ahead
  BY <1>2, AheadNow
<1>4. head' \in Branches /\ head' # Main /\ Main \in Branches
  BY <1>1, <1>3, BranchNames DEF Good, KeepStep, RepoType, Ahead
<1>5. CASE NewCommit(head', Tree(Tip) \cup Mine("half"), Past(Tip), Mine("half"))
  <2>1. PICK b \in Branches, tree \in {Tree(Tip) \cup Mine("half")}, past \in {Past(Tip)},
             shown \in {Mine("half")} :
          b = head' /\ b # Main /\ NewCommit(b, tree, past, shown) /\ refs[Main] \in past
    BY <1>3, <1>4, <1>5 DEF Ahead, IsAncestor
  <2> QED
    BY <1>1, <1>2, <2>1, CheckpointCommit
<1>6. CASE refs' = [refs EXCEPT ![head'] = Tip] /\ UNCHANGED commits
  <2>1. refs'[Main] = refs[Main] /\ refs'[head'] = Tip
    BY <1>4, <1>6 DEF Good, RepoType
  <2>2. Ahead' /\ Tree(refs[Main])' = Tree(refs[Main])
    BY <1>3, <1>4, <1>6, <2>1 DEF Ahead, Born, Code, Shown, IsAncestor, Past, Tip, Tree
  <2>3. BaseIsStart'
    BY <1>1, <1>6, BaseKept DEF OnLine
  <2>4. AmendsOwn' /\ ~StageAt("synthesis", "merge")'
    BY <1>1 DEF AmendsOwn, StageAt
  <2> QED
    BY <1>1, <1>2, <2>2, <2>3, <2>4, OnwardOnLine
<1> QED
  BY <1>5, <1>6 DEF FixKilled

\* Synthesis.
LEMMA PendingStepClean == Good /\ OnLine /\ (RefreshRatchet \/ MergePending) => OnLine'
<1> SUFFICES ASSUME Good, OnLine, RefreshRatchet \/ MergePending PROVE OnLine'
  OBVIOUS
<1>1. /\ stage = "synthesis" /\ step \in {"start", "pending"}
      /\ UNCHANGED <<head, work, base, start>>
      /\ \/ CommitPending /\ (Goto("base") \/ Goto("merge"))
         \/ Goto("notes") /\ UNCHANGED <<commits, refs>>
  BY DEF RefreshRatchet, MergePending, Launch, StageAt, ghost
<1>2. OnCheckpoint
  BY <1>1 DEF OnCheckpoint, Merged, AfterSolve
<1>3. Ahead /\ BaseIsStart
  BY <1>2, AheadNow DEF OnLine
<1>4. CASE CommitPending /\ (Goto("base") \/ Goto("merge"))
  <2>1. Ahead' /\ Tree(refs[Main])' = Tree(refs[Main]) /\ work' = Tree(Tip)' /\ BaseIsStart'
    BY <1>1, <1>3, <1>4, PendingClean
  <2>2. stage' = "synthesis" /\ step' \in {"base", "merge"}
    BY <1>1, <1>4 DEF Goto
  <2>3. OnCheckpoint' /\ AmendsOwn'
    BY <2>2 DEF OnCheckpoint, Merged, AfterSolve, AmendsOwn
  <2> QED
    BY <1>1, <1>2, <2>1, <2>3, OnwardOnLine
<1>5. CASE Goto("notes") /\ UNCHANGED <<commits, refs>>
  <2>1. BaseIsStart'
    BY <1>1, <1>3, <1>5, BaseKept
  <2> QED
    BY <1>1, <1>2, <1>5, <2>1, GoOnLine
<1> QED
  BY <1>1, <1>4, <1>5

\* The branch goes on from main, so it is merged.
LEMMA MergeStepClean == Good /\ OnLine /\ Merge => OnLine'
<1> SUFFICES ASSUME Good, OnLine, Merge PROVE OnLine'
  OBVIOUS
<1>1. stage = "synthesis" /\ step = "merge" /\ UNCHANGED <<head, work, base, start>>
  BY DEF Merge, StageAt, ghost
<1>2. OnCheckpoint
  BY <1>1 DEF OnCheckpoint, Merged, AfterSolve
<1>3. MergeIntoMain /\ Goto("switch")
  BY <1>2, AheadNow DEF Merge, Ahead
<1>4. stage' = "synthesis" /\ step' = "switch"
  BY <1>1, <1>3 DEF Goto
<1>5. Born' /\ Code(Shown(refs[Main]))' = {} /\ MainHasWork' /\ BaseIsStart'
  BY <1>1, <1>3, MergeClean
<1>6. ~OnCheckpoint'
  BY <1>4 DEF OnCheckpoint, Merged
<1>7. Straight' /\ MainCode' /\ AmendsOwn'
  BY <1>4, <1>5, <1>6 DEF Straight, MainCode, AmendsOwn, StageAt
<1> QED
  BY <1>4, <1>5, <1>7 DEF OnLine

\* Where HEAD names main, a fold changes notes only.
LEMMA FoldIsNotes == \A tree : Code(tree \cup Mine("fold")) = Code(tree)
BY DEF Code, Mine, CodeKinds

LEMMA MergedGoesOn ==
  ASSUME Good, OnLine, Merged, NEW s \in {"fold", "commit"}, Goto(s), head' = Main,
         UNCHANGED <<commits, refs, base, start>>, Code(work') = Code(work)
  PROVE  OnLine'
<1>1. stage' = "synthesis" /\ step' = s
  BY DEF Goto, Merged
<1>2. Straight /\ MainHasWork
  BY DEF OnLine, Merged, MainCode
<1>3. Born' /\ Code(Shown(refs[Main]))' = {}
  BY <1>2 DEF Straight, Born, Code, Shown
<1>4. MainHasWork'
  BY <1>2 DEF MainHasWork, Code, Tree
<1>5. Merged' /\ ~OnCheckpoint'
  BY <1>1 DEF OnCheckpoint, Merged
<1>6. Straight' /\ MainCode' /\ AmendsOwn'
  BY <1>1, <1>3, <1>4, <1>5 DEF Straight, MainCode, AmendsOwn, StageAt
<1>7. BaseIsStart'
  BY BaseKept DEF OnLine
<1> QED
  BY <1>1, <1>6, <1>7 DEF OnLine

LEMMA FoldClean == Good /\ OnLine /\ (PointAtMain \/ Fold) => OnLine'
<1> SUFFICES ASSUME Good, OnLine, PointAtMain \/ Fold PROVE OnLine'
  OBVIOUS
<1>1. stage = "synthesis" /\ step \in {"switch", "fold"} /\ UNCHANGED <<commits, refs, base, start>>
  BY DEF PointAtMain, Fold, StageAt, ghost, repo
<1>2. Merged /\ Straight /\ MainCode
  BY <1>1 DEF Merged, OnLine
<1>3. CASE PointAtMain
  BY <1>1, <1>2, <1>3, MergedGoesOn DEF PointAtMain
<1>4. CASE Fold
  <2>1. step = "fold" /\ head = Main /\ head' = head
    BY <1>2, <1>4 DEF Fold, StageAt, MainCode, repo
  <2>2. Code(work') = Code(work)
    BY <1>4, FoldIsNotes DEF Fold
  <2>3. CASE Goto("commit")
    BY <1>1, <1>2, <2>1, <2>2, <2>3, MergedGoesOn
  <2>4. CASE Finish
    <3>1. /\ Born' /\ Code(Shown(refs[Main]))' = {} /\ MainHasWork'
      BY <1>1, <1>2, <2>2 DEF Straight, Born, Code, Shown, MainCode, MainHasWork, Tree
    <3>2. IsAncestor(refs[Main], Tip)'
      BY <1>1, <1>2, <2>1, MainIsCommit DEF Straight, IsAncestor, Tip, Past
    <3>3. BaseIsStart'
      BY <1>1, BaseKept DEF OnLine
    <3> QED
      BY <1>1, <2>1, <2>4, <3>1, <3>2, <3>3, MergedEnds
  <2> QED
    BY <1>4, <2>3, <2>4 DEF Fold
<1> QED
  BY <1>3, <1>4

LEMMA FoldCommitClean == Good /\ OnLine /\ FoldCommit => OnLine'
<1> SUFFICES ASSUME Good, OnLine, FoldCommit PROVE OnLine'
  OBVIOUS
<1>1. /\ stage = "synthesis" /\ step = "commit" /\ Finish
      /\ UNCHANGED <<head, work, base, start>>
      /\ NewCommit(Main, Tree(Tip) \cup Mine("fold"), Past(Tip), Mine("fold"))
  BY DEF FoldCommit, StageAt, ghost
<1>2. head = Main /\ MainHasWork /\ Main \in Branches
  BY <1>1, BranchNames DEF OnLine, MainCode, Merged
<1>3. /\ Len(commits) \in Nat
      /\ refs'[Main] = Len(commits) + 1
      /\ commits'[Len(commits) + 1].tree = Tree(Tip) \cup Mine("fold")
      /\ commits'[Len(commits) + 1].shown = Mine("fold")
      /\ commits'[Len(commits) + 1].past = Past(Tip) \cup {Len(commits) + 1}
      /\ \A c \in 1 .. Len(commits) : commits'[c] = commits[c]
  BY <1>1, <1>2, NewCommitIs DEF Good
<1>4. Born' /\ IsAncestor(refs[Main], Tip)'
  BY <1>1, <1>2, <1>3 DEF Born, IsAncestor, Past, Tip
<1>5. Code(Shown(refs[Main]))' = {}
  <2>1. Shown(refs[Main])' = Mine("fold")
    BY <1>3 DEF Shown
  <2>2. Code(Mine("fold")) = {}
    BY DEF Code, Mine, CodeKinds
  <2> QED
    BY <2>1, <2>2 DEF Code
<1>6. MainHasWork'
  <2>1. Tree(refs[Main])' = Tree(refs[Main]) \cup Mine("fold")
    BY <1>2, <1>3 DEF Tree, Tip
  <2>2. Code(Tree(refs[Main]) \cup Mine("fold")) = Code(Tree(refs[Main]))
    BY FoldIsNotes
  <2> QED
    BY <1>1, <1>2, <2>1, <2>2 DEF MainHasWork
<1>7. BaseIsStart'
  BY <1>1, <1>3, BaseKept DEF OnLine
<1> QED
  BY <1>1, <1>4, <1>5, <1>6, <1>7, MergedEnds

-----------------------------------------------------------------------------
LEMMA CleanInit == FlowInit => Clean
<1> SUFFICES ASSUME FlowInit PROVE OnLine
  BY DEF Clean
<1> QED
  BY DEF FlowInit, OnLine, BaseIsStart

\* The clock, and the stages that end early with nothing failed.
LEMMA EarlyEndClean ==
  ASSUME Good, OnLine, Clock \/ SkipBudget \/ Timeout \/ SkipStage, faults' = faults
  PROVE  OnLine'
<1>1. /\ UNCHANGED <<commits, refs, head, work, base, start>>
  BY DEF Clock, SkipBudget, Timeout, SkipStage, repo, ghost
<1>2. BaseIsStart'
  BY <1>1, BaseKept DEF OnLine
<1>3. CASE Clock
  <2>1. UNCHANGED <<stage, step, checkpoint>>
    BY <1>3 DEF Clock
  <2>2. UNCHANGED <<Born, Tip, Tree(refs[Main]), Past(Tip), Tree(Tip), Shown(Tip), Shown(refs[Main])>>
    BY <1>1 DEF Born, Tip, Tree, Past, Shown
  <2>3. UNCHANGED <<Merged, OnCheckpoint, StageAt("pr-open", "start"), StageAt("pr-open", "merge"),
                    StageAt("pr-open", "point"), StageAt("synthesis", "merge")>>
    BY <2>1 DEF Merged, OnCheckpoint, StageAt
  <2>4. Straight => Straight'
    BY <1>1, <2>1, <2>2, <2>3 DEF Straight, Code, IsAncestor
  <2>5. MainCode => MainCode'
    BY <1>1, <2>1, <2>2, <2>3 DEF MainCode, MainHasWork, Code, Pr
  <2>6. AmendsOwn => AmendsOwn'
    BY <2>1, <2>2 DEF AmendsOwn, Code
  <2> QED
    BY <1>1, <1>2, <2>1, <2>4, <2>5, <2>6 DEF OnLine
<1>4. CASE SkipBudget \/ Timeout \/ SkipStage
  <2>1. Finish
    BY <1>4 DEF SkipBudget, Timeout, SkipStage
  <2>2. stage \in AfterSolve
    <3>1. CASE SkipStage
      <4>1. stage # "pr-open"
        BY <3>1 DEF SkipStage, Launch, StageAt, OnLine, Straight
      <4> QED
        BY <3>1, <4>1 DEF SkipStage, Launch, StageAt, AfterSolve
    <3> QED
      BY <1>4, <3>1 DEF SkipBudget, Timeout
  <2>3. ~(stage = "synthesis" /\ step = "switch")
    <3>1. Timeout => step # "switch"
      BY DEF Timeout, Good, RestType
    <3> QED
      BY <1>4, <3>1 DEF SkipBudget, SkipStage, Launch, StageAt
  <2>4. CASE OnCheckpoint
    BY <1>1, <1>2, <2>1, <2>4, EndOnLine
  <2>5. CASE ~OnCheckpoint
    <3>1. stage = "synthesis" /\ step \in {"fold", "commit"} /\ Straight /\ MainCode
      BY <2>2, <2>3, <2>5 DEF OnCheckpoint, Merged, OnLine
    <3>2. head = Main
      BY <3>1 DEF MainCode
    <3>3. Born' /\ Code(Shown(refs[Main]))' = {} /\ MainHasWork'
      BY <1>1, <3>1 DEF Straight, Born, Code, Shown, MainCode, MainHasWork, Tree, Merged
    <3>4. IsAncestor(refs[Main], Tip)'
      BY <1>1, <3>1, <3>2, MainIsCommit DEF Straight, IsAncestor, Tip, Past
    <3> QED
      BY <1>2, <2>1, <3>1, <3>3, <3>4, MergedEnds
  <2> QED
    BY <2>4, <2>5
<1> QED
  BY <1>3, <1>4

LEMMA CleanNext == Good /\ Clean /\ [FlowNext]_flowVars => Clean'
<1> SUFFICES ASSUME Good, Clean, [FlowNext]_flowVars, faults' = 0 PROVE OnLine'
  BY DEF Clean
<1>1. faults \in Nat
  BY PrFlowAssumption DEF Good, RestType
<1>2. CASE FlowNext
  <2>1. faults' = faults \/ faults' = faults + 1
    BY <1>2 DEF FlowNext, Clock, SkipBudget, Timeout, GitFails, SkipStage, BeforeSolve,
       RepoInit, PrOpen, PrOpenMerge, PrOpenBranch, PrOpenPoint, Solve, CommitSolve, Ratchet,
       Triage, Review, SolveReview, Resume, Restore, Amend, Fix, FixKilled, Synthesis,
       RefreshRatchet, RefreshBase, WriteTaste, MergePending, Merge, PointAtMain, Fold,
       FoldCommit, ghost
  <2>2. faults = 0 /\ faults' = faults
    BY <1>1, <2>1
  <2>3. OnLine
    BY <2>2 DEF Clean
  <2>4. ~GitFails
    BY <2>2 DEF GitFails
  <2>5. CASE Clock \/ SkipBudget \/ Timeout \/ SkipStage
    BY <2>2, <2>3, <2>5, EarlyEndClean
  <2>6. CASE BeforeSolve
    BY <2>3, <2>6, RepoInitClean, PrOpenClean, PrOpenMergeClean, PrOpenBranchClean,
       PrOpenPointClean DEF BeforeSolve
  <2>7. CASE Solve \/ CommitSolve \/ Ratchet \/ Triage \/ Review \/ Fix \/ FixKilled
    BY <2>3, <2>7, SolveClean, CommitSolveClean, RatchetClean, WorkspaceClean, AmendClean,
       FixClean, FixKilledClean DEF Review
  <2>8. CASE Synthesis
    BY <2>3, <2>8, PendingStepClean, RatchetClean, WorkspaceClean, MergeStepClean, FoldClean,
       FoldCommitClean DEF Synthesis
  <2> QED
    BY <1>2, <2>4, <2>5, <2>6, <2>7, <2>8 DEF FlowNext
<1>3. CASE UNCHANGED flowVars
  <2>1. UNCHANGED <<checkpoint, stage, step, commits, refs, head, work, base, start, faults>>
    BY <1>3 DEF flowVars, agent, repo, ghost
  <2>2. OnLine
    BY <2>1 DEF Clean
  <2>3. UNCHANGED <<Straight, MainCode, AmendsOwn, BaseIsStart>>
    BY <2>1 DEF Straight, MainCode, AmendsOwn, BaseIsStart, OnCheckpoint, Merged, StageAt, Born,
       MainHasWork, Tip, Tree, Past, Shown, IsAncestor, Code, Pr
  <2> QED
    BY <2>1, <2>2, <2>3 DEF OnLine
<1> QED
  BY <1>2, <1>3

\* While no git call failed and no merge was cut in two, each checkpoint builds on
\* the last one: it starts on cp-N with the code main has, and the ratchet compares
\* with that code (prflow/repo.py, prflow/ratchet.py), for any number of checkpoints,
\* whatever stages are skipped, killed or run out of time.
THEOREM CheckpointsAreChained == FlowSpec => []CheckpointsBuildOnLast
<1>1. FlowInit => Good /\ Clean
  BY InitGood, CleanInit
<1>2. Good /\ Clean /\ [FlowNext]_flowVars => Good' /\ Clean'
  BY NextGood, CleanNext
<1>3. Clean => CheckpointsBuildOnLast
  <2> SUFFICES ASSUME faults = 0, OnLine PROVE CheckpointsBuildOnLast
    BY DEF Clean, CheckpointsBuildOnLast, MainHoldsPrevious, RatchetSeesOneSolve
  <2>1. MainHoldsPrevious
    BY DEF OnLine, MainCode, MainHasWork, MainHoldsPrevious
  <2>2. RatchetSeesOneSolve
    BY DEF OnLine, BaseIsStart, RatchetSeesOneSolve
  <2> QED
    BY <2>1, <2>2 DEF CheckpointsBuildOnLast
<1> QED
  BY <1>1, <1>2, <1>3, PTL DEF FlowSpec

-----------------------------------------------------------------------------
(* The solve stays in the workspace. *)

\* What the workspace has of the solves, HEAD's commit has.
SolvesIn ==
  \A n \in 1 .. Checkpoints : <<"solve", n>> \in work => <<"solve", n>> \in Tree(Tip)

\* The review resumes no session over a solve that is not committed: where
\* commit-ratchet made no commit, HEAD shows no code.
SolveSafe ==
  /\ stage = "commit-ratchet" => step \in {"start", "ratchet"}
  /\ faults = 0 /\ StageAt("commit-ratchet", "start") => Tip = refs[Main]
  /\ faults <= 1 /\ ~late /\ OnPr
       /\ (StageAt("commit-ratchet", "ratchet")
             \/ (stage \in {"triage", "solve-review"} /\ step = "start"))
       => SolvesIn \/ Code(Shown(Tip)) = {}
  /\ faults <= 1 /\ stage = "solve-review" /\ step \in {"resume", "answered", "timed-out"}
       => SolvesIn

LEMMA FinishNext ==
  ASSUME AgentType, stage \notin {"synthesis", "done"}, Finish
  PROVE  /\ step' = "start" /\ late' = late /\ checkpoint' = checkpoint
         /\ stage = "repo-init" => stage' = "pr-open"
         /\ stage = "pr-open" => stage' = "solve"
         /\ stage = "solve" => stage' = "commit-ratchet"
         /\ stage = "commit-ratchet" => stage' = "triage"
         /\ stage = "triage" => stage' = "solve-review"
         /\ stage = "solve-review" => stage' = "fix"
         /\ stage = "fix" => stage' = "synthesis"
<1>1. PICK i \in DOMAIN Stages : Stages[i] = stage /\ stage' = Stages[i + 1]
  BY DEF Finish
<1>2. i \in 1 .. 7
  BY <1>1 DEF Stages
<1>3. step' = "start" /\ late' = late /\ checkpoint' = checkpoint
  BY DEF Finish
<1> QED
  BY <1>1, <1>2, <1>3 DEF Stages

\* Elsewhere nothing is asked.
LEMMA SafeElsewhere ==
  ASSUME stage' \notin {"commit-ratchet", "triage", "solve-review"}
  PROVE  SolveSafe'
BY DEF SolveSafe, StageAt

LEMMA SynthesisLeaves ==
  ASSUME stage = "synthesis", Finish
  PROVE  stage' \in {"pr-open", "done"}
BY DEF Finish

LEMMA SafeNext == Good /\ Clean /\ SolveSafe /\ [FlowNext]_flowVars => SolveSafe'
<1> SUFFICES ASSUME Good, Clean, SolveSafe, [FlowNext]_flowVars PROVE SolveSafe'
  OBVIOUS
<1>0. AgentType /\ faults \in Nat
  BY PrFlowAssumption DEF Good, RestType
<1>1. CASE UNCHANGED flowVars
  BY <1>1 DEF flowVars, agent, repo, ghost, SolveSafe, StageAt, OnPr, Born, SolvesIn, Tip, Tree,
              Shown, Code, Pr
<1>2. CASE BeforeSolve
  <2>1. stage \in {"repo-init", "pr-open"} /\ (Finish \/ stage' = stage)
    BY <1>2 DEF BeforeSolve, RepoInit, PrOpen, PrOpenMerge, PrOpenBranch, PrOpenPoint, Launch,
                StageAt, Goto
  <2>2. stage' \in {"repo-init", "pr-open", "solve"}
    BY <1>0, <2>1, FinishNext
  <2> QED
    BY <2>2, SafeElsewhere
<1>3. CASE Fix \/ FixKilled \/ Synthesis
  <2>1. /\ stage \in {"fix", "synthesis"}
        /\ Finish \/ stage' = stage \/ stage' = "synthesis"
    BY <1>3 DEF Fix, FixKilled, Synthesis, RefreshRatchet, RefreshBase, WriteTaste, MergePending,
                Merge, PointAtMain, Fold, FoldCommit, Launch, StageAt, Goto
  <2>2. stage' \in {"fix", "synthesis", "pr-open", "done"}
    BY <1>0, <2>1, FinishNext, SynthesisLeaves
  <2> QED
    BY <2>2, SafeElsewhere
<1>4. CASE Restore \/ Amend
  <2>1. stage = "solve-review" /\ Finish
    BY <1>4 DEF Restore, Amend, StageAt
  <2> QED
    BY <1>0, <2>1, FinishNext, SafeElsewhere
<1>5. CASE Solve
  <2>1. stage = "solve" /\ Finish /\ UNCHANGED <<commits, refs, head, faults>>
    BY <1>5 DEF Solve, repo
  <2>2. stage' = "commit-ratchet" /\ step' = "start"
    BY <1>0, <2>1, FinishNext
  <2>3. faults = 0 => Tip = refs[Main]
    BY <2>1 DEF Clean, OnLine, MainCode
  <2> QED
    BY <2>1, <2>2, <2>3 DEF SolveSafe, StageAt, Tip
<1>6. CASE Clock
  <2>1. /\ UNCHANGED <<checkpoint, stage, step, commits, refs, head, work, faults>>
        /\ late' = TRUE
    BY <1>6 DEF Clock, repo
  <2> QED
    BY <2>1 DEF SolveSafe, StageAt, SolvesIn, Tip, Tree
<1>7. CASE SkipBudget \/ Timeout
  <2>1. late /\ stage \in AfterSolve /\ Finish
    BY <1>7 DEF SkipBudget, Timeout
  <2>2. CASE stage = "synthesis"
    BY <2>1, <2>2, SynthesisLeaves, SafeElsewhere
  <2>3. CASE stage # "synthesis"
    <3>1. late' /\ step' = "start" /\ stage' # "commit-ratchet"
      BY <1>0, <2>1, <2>3, FinishNext DEF AfterSolve
    <3> QED
      BY <3>1 DEF SolveSafe, StageAt
  <2> QED
    BY <2>2, <2>3
<1>8. CASE SkipStage
  <2>1. Finish /\ UNCHANGED <<commits, refs, head>> /\ stage # "done"
    BY <1>8 DEF SkipStage, Launch, StageAt, repo
  <2>2. CASE stage = "synthesis"
    BY <2>1, <2>2, SynthesisLeaves, SafeElsewhere
  <2>3. CASE stage = "commit-ratchet"
    <3>1. ~OnPr
      BY <1>8, <2>3 DEF SkipStage, Launch, StageAt
    <3>2. stage' = "triage" /\ step' = "start" /\ checkpoint' = checkpoint
      BY <1>0, <2>1, <2>3, FinishNext
    <3>3. ~OnPr'
      BY <2>1, <3>1, <3>2 DEF OnPr, Born, Pr
    <3> QED
      BY <3>2, <3>3 DEF SolveSafe, StageAt
  <2>4. CASE stage \in {"pr-open", "solve-review", "fix"}
    BY <1>0, <2>1, <2>4, FinishNext, SafeElsewhere
  <2> QED
    BY <1>8, <2>2, <2>3, <2>4 DEF SkipStage, Launch, StageAt
<1>9. CASE GitFails
  <2>1. /\ faults' = faults + 1 /\ UNCHANGED <<commits, refs, head, work>>
        /\ stage \notin {"solve", "triage", "done"} /\ step \notin {"resume", "notes"}
        /\ Finish \/ (stage = "synthesis" /\ Goto("notes"))
    BY <1>9 DEF GitFails, repo
  <2>2. CASE stage = "synthesis"
    <3>1. stage' \in {"pr-open", "done", "synthesis"}
      BY <2>1, <2>2, SynthesisLeaves DEF Goto
    <3> QED
      BY <3>1, SafeElsewhere
  <2>3. CASE stage = "commit-ratchet"
    <3>1. stage' = "triage" /\ step' = "start" /\ checkpoint' = checkpoint /\ late' = late
      BY <1>0, <2>1, <2>3, FinishNext
    <3>2. UNCHANGED <<Tip, Tree(Tip), Shown(Tip), OnPr, SolvesIn>>
      BY <2>1, <3>1 DEF Tip, Tree, Shown, OnPr, Born, Pr, SolvesIn
    <3>3. faults' <= 1 /\ ~late' /\ OnPr' => SolvesIn' \/ Code(Shown(Tip))' = {}
      <4>1. SUFFICES ASSUME faults' <= 1, ~late, OnPr PROVE SolvesIn \/ Code(Shown(Tip)) = {}
        BY <3>1, <3>2 DEF Code
      <4>2. faults = 0
        BY <1>0, <2>1, <4>1
      <4>3. CASE step = "ratchet"
        BY <2>3, <4>1, <4>2, <4>3 DEF SolveSafe, StageAt
      <4>4. CASE step = "start"
        <5>1. Tip = refs[Main]
          BY <2>3, <4>2, <4>4 DEF SolveSafe, StageAt
        <5>2. Code(Shown(refs[Main])) = {}
          BY <2>3, <4>2 DEF Clean, OnLine, Straight
        <5> QED
          BY <5>1, <5>2
      <4> QED
        BY <2>3, <4>3, <4>4 DEF SolveSafe
    <3> QED
      BY <3>1, <3>3 DEF SolveSafe, StageAt
  <2>4. CASE stage \in {"repo-init", "pr-open", "solve-review", "fix"}
    BY <1>0, <2>1, <2>4, FinishNext, SafeElsewhere
  <2>5. stage \in {"repo-init", "pr-open", "solve", "commit-ratchet", "triage",
                   "solve-review", "fix", "synthesis", "done"}
    BY <1>0 DEF AgentType, Stages
  <2> QED
    BY <2>1, <2>2, <2>3, <2>4, <2>5
<1>10. CASE CommitSolve
  <2>1. /\ stage = "commit-ratchet" /\ Born /\ CommitAll /\ Goto("ratchet")
        /\ UNCHANGED <<head, work>>
    BY <1>10 DEF CommitSolve, Launch, OnPr
  <2>2. NewCommit(head, work, Past(Tip), work \ Tree(Tip)) /\ head \in Branches
    BY <2>1 DEF CommitAll, Good, RepoType
  <2>3. /\ refs'[head] = Len(commits) + 1
        /\ commits'[Len(commits) + 1].tree = work
    BY <2>2, NewCommitIs DEF Good
  <2>4. Tree(Tip)' = work'
    BY <2>1, <2>3 DEF Tree, Tip
  <2>5. SolvesIn'
    BY <2>4 DEF SolvesIn
  <2>6. stage' = "commit-ratchet" /\ step' = "ratchet"
    BY <2>1 DEF Goto
  <2> QED
    BY <2>5, <2>6 DEF SolveSafe, StageAt
<1>11. CASE Ratchet \/ Triage \/ SolveReview \/ Resume
  <2>1. UNCHANGED <<commits, refs, head, faults>> /\ stage \notin {"synthesis", "done"}
    BY <1>11 DEF Ratchet, Triage, SolveReview, Resume, repo, Launch, StageAt
  <2>2. SolvesIn => SolvesIn'
    <3>1. \A n \in 1 .. Checkpoints : <<"solve", n>> \in work' => <<"solve", n>> \in work
      BY <1>11 DEF Ratchet, Triage, SolveReview, Resume, Mine
    <3> QED
      BY <2>1, <3>1 DEF SolvesIn, Tree, Tip
  <2>3. UNCHANGED <<Tip, Shown(Tip)>> /\ (checkpoint' = checkpoint => OnPr' = OnPr)
    BY <2>1 DEF Tip, Shown, OnPr, Born, Pr
  <2>4. CASE Ratchet
    <3>1. StageAt("commit-ratchet", "ratchet") /\ Finish
      BY <2>4 DEF Ratchet
    <3>2. stage' = "triage" /\ step' = "start" /\ late' = late /\ checkpoint' = checkpoint
      BY <1>0, <2>1, <3>1, FinishNext DEF StageAt
    <3> QED
      BY <2>1, <2>2, <2>3, <3>1, <3>2 DEF SolveSafe, StageAt, Code
  <2>5. CASE Triage
    <3>1. stage = "triage" /\ step = "start" /\ Finish
      BY <2>5 DEF Triage, Launch
    <3>2. stage' = "solve-review" /\ step' = "start" /\ late' = late /\ checkpoint' = checkpoint
      BY <1>0, <2>1, <3>1, FinishNext
    <3> QED
      BY <2>1, <2>2, <2>3, <3>1, <3>2 DEF SolveSafe, StageAt, Code
  <2>6. CASE SolveReview
    <3>1. CASE Finish
      BY <1>0, <2>1, <2>6, <3>1, FinishNext, SafeElsewhere DEF SolveReview, Launch
    <3>2. CASE Code(Shown(Tip)) # {} /\ Goto("resume")
      <4>1. stage = "solve-review" /\ step = "start" /\ ~late /\ OnPr
        BY <2>6 DEF SolveReview, Launch
      <4>2. stage' = "solve-review" /\ step' = "resume"
        BY <3>2, <4>1 DEF Goto
      <4> QED
        BY <2>1, <2>2, <3>2, <4>1, <4>2 DEF SolveSafe, StageAt
    <3> QED
      BY <2>6, <3>1, <3>2 DEF SolveReview
  <2>7. CASE Resume
    <3>1. /\ stage = "solve-review" /\ step = "resume"
          /\ stage' = "solve-review" /\ step' \in {"answered", "timed-out"}
      BY <2>7 DEF Resume, StageAt, Goto
    <3> QED
      BY <2>1, <2>2, <3>1 DEF SolveSafe, StageAt
  <2> QED
    BY <1>11, <2>4, <2>5, <2>6, <2>7
<1> QED
  BY <1>1, <1>2, <1>3, <1>4, <1>5, <1>6, <1>7, <1>8, <1>9, <1>10, <1>11 DEF FlowNext, Review

\* Only Restore and Fix can take something out of the workspace.
LEMMA SolveStep ==
  ASSUME Good, SolveSafe, [FlowNext]_flowVars, faults <= 1, NEW n \in 1 .. Checkpoints,
         <<"solve", n>> \in work
  PROVE  <<"solve", n>> \in work'
<1>1. CASE UNCHANGED flowVars
  BY <1>1 DEF flowVars
<1>2. CASE Restore
  <2>1. /\ stage = "solve-review" /\ step = "timed-out"
        /\ work' = Code(Tree(Tip)) \cup Notes(work)
    BY <1>2 DEF Restore, StageAt
  <2>2. <<"solve", n>> \in Tree(Tip)
    BY <2>1 DEF SolveSafe, SolvesIn
  <2> QED
    BY <2>1, <2>2 DEF Code, CodeKinds
<1>3. CASE Fix
  <2>1. <<"solve", n>> \in Code(work)
    BY DEF Code, CodeKinds
  <2>2. <<"solve", n>> \in Tree(Tip)
    BY <1>3, <2>1 DEF Fix, MayFix, Code
  <2> QED
    BY <1>3, <2>2 DEF Fix
<1>4. CASE FlowNext /\ ~Restore /\ ~Fix
  <2>1. work \subseteq work'
    BY <1>4 DEF FlowNext, Clock, SkipBudget, Timeout, GitFails, SkipStage, BeforeSolve,
       RepoInit, PrOpen, PrOpenMerge, PrOpenBranch, PrOpenPoint, Solve, CommitSolve, Ratchet,
       Triage, Review, SolveReview, Resume, Amend, FixKilled, Synthesis,
       RefreshRatchet, RefreshBase, WriteTaste, MergePending, Merge, PointAtMain, Fold, FoldCommit
  <2> QED
    BY <2>1
<1> QED
  BY <1>1, <1>2, <1>3, <1>4

\* No stage takes a solve out of the workspace, whatever single git call fails or merge
\* is cut in two: where commit-ratchet made no commit, no session is resumed that a
\* restore to HEAD would follow (review/solve.py, agent/stages.py).
THEOREM SolvesAreKept == FlowSpec => SolveStays
<1> DEFINE Keeps == faults <= 1 => \A n \in 1 .. Checkpoints :
                      <<"solve", n>> \in work => <<"solve", n>> \in work'
<1>1. FlowInit => Good /\ Clean /\ SolveSafe
  <2>1. FlowInit => SolveSafe
    BY DEF FlowInit, SolveSafe, StageAt
  <2> QED
    BY <2>1, InitGood, CleanInit
<1>2. Good /\ Clean /\ SolveSafe /\ [FlowNext]_flowVars => Good' /\ Clean' /\ SolveSafe'
  BY NextGood, CleanNext, SafeNext
<1>3. Good /\ SolveSafe /\ [FlowNext]_flowVars => [Keeps]_flowVars
  BY SolveStep
<1> QED
  BY <1>1, <1>2, <1>3, PTL DEF FlowSpec, SolveStays
=============================================================================
