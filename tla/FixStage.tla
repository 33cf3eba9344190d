------------------------------- MODULE FixStage -------------------------------
(***************************************************************************)
(* The fix stage of the bench (bench/scbench/remediation: stage.py,        *)
(* fixer.py, git.py, workspace.py, validate.py): one session takes the     *)
(* confirmed items one by one; its edit is committed, checked by the       *)
(* tests, then by the ratchet (a quality item) or the admission gate (a    *)
(* test gap), then by the reviewer; it is kept, or that commit alone is    *)
(* reverted.  The gate can send the session back once, the reviewer once,  *)
(* and every amend is checked again.  The stage stops at its deadline or   *)
(* after SAME_CAUSE_STOP reverts in a row for one cause.                   *)
(*                                                                         *)
(* A tree is the set of items whose change it holds; a snapshot is the     *)
(* tree it was taken of.  A step can raise (git, a missing file, SIGTERM), *)
(* and the process can be killed.  External: the session, the test run,    *)
(* codewatch, the gate's coverage runs and the reviewer.                   *)
(***************************************************************************)
EXTENDS Naturals, Sequences, FiniteSets

CONSTANTS
  N,                \* how many items
  SAME_CAUSE_STOP,
  Causes,           \* texts a failed check can have
  NoSnapshot        \* the graph check could not run

ASSUME FixAssumption == N \in Nat /\ SAME_CAUSE_STOP \in Nat \ {0} /\ Causes # {}

Items == 1 .. N
NoCause == "none"
BASE == 0                                   \* the PR branch

VARIABLES
  kind, branchOf,   \* each item's kind; n for phase 3 (a branch of its own), else BASE
  gateRuns,         \* is the coverage binary there?
  step,             \* where the stage is
  asked,            \* what the session was last asked: "item", "retry", "conflict"
  late,             \* less than the margin is left before the deadline
  stopped,          \* run_items' stop reason
  records,          \* one record per item handled
  on,               \* the branch checked out
  base, head,       \* the trees of the PR branch and of the checked-out branch
  dirty,            \* uncommitted: "edit" of the session, "litter" of a test run
  kept,             \* the tree of kept_head
  current, stale,   \* Fixer.current, Fixer.stale
  after,            \* the snapshot of the last validation
  cause,            \* why the last check failed
  passed,           \* history: the checks the commit's last revision passed (a
                    \* record of a kept item takes them along)
  backup            \* the workspace copy: "whole", "partial", "gone"

items == <<kind, branchOf, gateRuns>>
repo  == <<on, base, head, dirty>>
snapshots == <<current, stale, after>>
fixVars == <<items, step, asked, late, stopped, records, repo, kept, snapshots,
          cause, passed, backup>>

Over == {"ended", "raised", "dead", "killed"}
item == Len(records) + 1
Kept == {records[i].item : i \in {j \in DOMAIN records : records[j].status = "kept"}}

\* items.jsonl is in phase order, so phase 3 comes last.  The preflight, before
\* the first item, is a test run.
FixInit ==
  /\ kind \in [Items -> {"test gap", "quality"}]
  /\ \E from \in 1 .. N + 1 : branchOf = [i \in Items |-> IF i >= from THEN i ELSE BASE]
  /\ gateRuns \in BOOLEAN
  /\ step = "next" /\ asked = "item" /\ late = FALSE
  /\ stopped = NoCause /\ records = <<>>
  /\ on = BASE /\ base = {} /\ head = {} /\ dirty \in {{}, {"litter"}}
  /\ kept = {} /\ current \in {{}, NoSnapshot} /\ stale = FALSE /\ after = NoSnapshot
  /\ cause = NoCause /\ passed = {} /\ backup = "whole"

Clock ==
  /\ ~ late /\ step \notin Over
  /\ late' = TRUE
  /\ UNCHANGED <<items, step, asked, stopped, records, repo, kept, snapshots,
                 cause, passed, backup>>

-----------------------------------------------------------------------------
(* run_items: the loop over the items. *)

\* Mutant: one record too many is needed.
RepeatedCause_Late(rs) ==
  LET last == Len(rs) - SAME_CAUSE_STOP
  IN  /\ last > 0
      /\ \A i \in last + 1 .. Len(rs) : rs[i].status = "reverted" /\ rs[i].cause = rs[Len(rs)].cause

RepeatedCause(rs) ==
  LET last == Len(rs) - SAME_CAUSE_STOP
  IN  /\ last >= 0
      /\ \A i \in last + 1 .. Len(rs) : rs[i].status = "reverted" /\ rs[i].cause = rs[Len(rs)].cause

Record(status, why) ==
  /\ records' = Append(records,
       [item |-> item, status |-> status, cause |-> why,
        passed |-> IF status = "kept" THEN passed ELSE {}])
  /\ stopped' = IF status = "time limit" THEN "time limit"
                ELSE IF stopped = NoCause /\ RepeatedCause(records') THEN "same cause"
                ELSE stopped

\* Nothing is started once the stage has stopped, or too late.
SkipItem ==
  /\ step = "next" /\ item <= N
  /\ stopped # NoCause \/ late
  /\ records' = Append(records,
       [item |-> item, status |-> "not-started", cause |-> NoCause, passed |-> {}])
  /\ stopped' = IF stopped = NoCause THEN "time limit" ELSE stopped
  /\ UNCHANGED <<items, step, asked, late, repo, kept, snapshots, cause, passed, backup>>

\* The head of fix: a stale snapshot is taken again, an item whose check cannot
\* run is not started, a phase-3 item gets its branch.
StartItem ==
  /\ step = "next" /\ item <= N /\ stopped = NoCause /\ ~ late
  /\ LET refresh == kind[item] = "quality" /\ stale
     IN  /\ current' \in IF refresh THEN {head, NoSnapshot} ELSE {current}
         /\ stale' = (stale /\ ~ refresh)
  /\ \/ /\ \/ kind[item] = "quality" /\ current' = NoSnapshot
           \/ kind[item] = "test gap" /\ ~ gateRuns
        /\ Record("not-started", NoCause)
        /\ UNCHANGED <<step, asked, on>>
     \/ /\ kind[item] = "quality" => current' # NoSnapshot
        /\ kind[item] = "test gap" => gateRuns
        /\ on' = branchOf[item]
        /\ step' = "ask" /\ asked' = "item"
        /\ UNCHANGED <<records, stopped>>
  /\ UNCHANGED <<items, late, base, head, dirty, kept, after, cause, passed, backup>>

-----------------------------------------------------------------------------
(* One item: session, commit, checks. *)

\* The session may edit; at the deadline it is cut off, edits and all.
Ask ==
  /\ step = "ask"
  /\ dirty' \in {dirty, dirty \cup {"edit"}}
  /\ \/ step' = "asked" /\ UNCHANGED <<late, stopped, records>>
     \/ /\ late' = TRUE /\ step' = "next"
        /\ Record("time limit", NoCause)
  /\ UNCHANGED <<items, asked, on, base, head, kept, snapshots, cause, passed, backup>>

SetHead(tree) == head' = tree /\ base' = IF on = BASE THEN tree ELSE base

NoEdit ==
  /\ step = "asked" /\ dirty = {}
  /\ IF asked = "item"
     THEN /\ Record("unchanged", NoCause) /\ step' = "land"
          /\ UNCHANGED cause
     ELSE /\ cause' \in Causes /\ step' = "revert"
          /\ UNCHANGED <<records, stopped>>
  /\ UNCHANGED <<items, asked, late, repo, kept, snapshots, passed, backup>>

\* Mutant: an amend goes straight to the reviewer.
Commit_NoRecheck ==
  /\ step = "asked" /\ dirty # {}
  /\ SetHead(head \cup {item})
  /\ dirty' = {}
  /\ passed' = {}
  /\ step' = IF asked = "item" THEN "validate" ELSE "review"
  /\ UNCHANGED <<items, asked, late, stopped, records, on, kept, snapshots, cause, backup>>

\* A commit of everything in the work tree, or an amend of the item's commit.
Commit ==
  /\ step = "asked" /\ dirty # {}
  /\ SetHead(head \cup {item})
  /\ dirty' = {}
  /\ passed' = {}
  /\ step' = "validate"
  /\ UNCHANGED <<items, asked, late, stopped, records, on, kept, snapshots, cause, backup>>

\* An amend that would undo the whole commit: its edits are discarded.
DiscardRevision ==
  /\ step = "asked" /\ dirty # {} /\ asked # "item"
  /\ dirty' = {}
  /\ cause' \in Causes /\ step' = "revert"
  /\ UNCHANGED <<items, asked, late, stopped, records, on, base, head, kept,
                 snapshots, passed, backup>>

Fails == cause' \in Causes /\ step' = "revert"

\* Scope and tests; a quality item is indexed and checked against `current`.
\* A test run can leave files the repository does not ignore.
Validate ==
  /\ step = "validate"
  /\ dirty' \in {dirty, dirty \cup {"litter"}}
  /\ \/ Fails /\ UNCHANGED <<after, passed>>
     \/ /\ kind[item] = "test gap"
        /\ passed' = {"tests"}
        /\ step' = "gate"
        /\ UNCHANGED <<after, cause>>
     \/ /\ kind[item] = "quality"
        /\ after' \in {head, NoSnapshot}
        /\ \/ Fails /\ UNCHANGED passed
           \/ /\ after' # NoSnapshot /\ current # NoSnapshot
              /\ passed' = {"tests", "graph-check"}
              /\ step' = "review"
              /\ UNCHANGED cause
  /\ UNCHANGED <<items, asked, late, stopped, records, on, base, head, kept,
                 current, stale, backup>>

\* The admission gate: a first rejection goes back to the session; after the
\* retry a rejection, an error, or no new test left, fails the item.
Gate ==
  /\ step = "gate"
  /\ \E verdict \in {"error", "rejected", "admitted", "no new test"} :
       \/ /\ verdict = "admitted" \/ (verdict = "no new test" /\ asked # "retry")
          /\ passed' = passed \cup {"gate"}
          /\ step' = "review"
          /\ UNCHANGED <<asked, cause>>
       \/ /\ verdict = "rejected" /\ asked = "item"
          /\ asked' = "retry" /\ step' = "ask"
          /\ UNCHANGED <<passed, cause>>
       \/ /\ \/ verdict = "error"
             \/ verdict = "rejected" /\ asked # "item"
             \/ verdict = "no new test" /\ asked = "retry"
          /\ Fails
          /\ UNCHANGED <<passed, asked>>
  /\ UNCHANGED <<items, late, stopped, records, repo, kept, snapshots, backup>>

\* Mutant: every conflict resumes the session.
Review_AlwaysResumes ==
  /\ step = "review"
  /\ \/ /\ passed' = passed \cup {"review"}
        /\ step' = "keep"
        /\ UNCHANGED asked
     \/ /\ asked' = "conflict" /\ step' = "ask"
        /\ UNCHANGED passed
  /\ UNCHANGED <<items, late, stopped, records, repo, kept, snapshots, cause, backup>>

\* Only a conflict counts; a reviewer that errs, or none, lets the commit pass.
Review ==
  /\ step = "review"
  /\ \E verdict \in {"ok", "conflict"} :
       \/ /\ verdict = "ok"
          /\ passed' = passed \cup {"review"}
          /\ step' = "keep"
          /\ UNCHANGED <<asked, cause>>
       \/ /\ verdict = "conflict" /\ asked # "conflict"
          /\ asked' = "conflict" /\ step' = "ask"
          /\ UNCHANGED <<passed, cause>>
       \/ /\ verdict = "conflict" /\ asked = "conflict"
          /\ Fails
          /\ UNCHANGED <<passed, asked>>
  /\ UNCHANGED <<items, late, stopped, records, repo, kept, snapshots, backup>>

Revert ==
  /\ step = "revert"
  /\ SetHead(head \ {item})
  /\ Record("reverted", cause)
  /\ step' = "land"
  /\ UNCHANGED <<items, asked, late, on, dirty, kept, snapshots, cause, passed, backup>>

\* A kept test gap makes the snapshot stale, a kept quality item replaces it.
Keep ==
  /\ step = "keep"
  /\ IF kind[item] = "test gap" THEN stale' = TRUE /\ UNCHANGED current
                             ELSE current' = after /\ UNCHANGED stale
  /\ Record("kept", NoCause)
  /\ step' = "land"
  /\ UNCHANGED <<items, asked, late, repo, kept, after, cause, passed, backup>>

LastRecord == records[Len(records)]

\* Back from a phase-3 branch; a kept one is merged.
Land ==
  /\ step = "land"
  /\ on' = BASE
  /\ base' = IF LastRecord.status = "kept" THEN head ELSE base
  /\ head' = base'
  /\ step' = "landed"
  /\ asked' = "item" /\ after' = NoSnapshot /\ cause' = NoCause /\ passed' = {}
  /\ UNCHANGED <<items, late, stopped, records, dirty, kept, current, stale, backup>>

MarkKept ==
  /\ step = "landed"
  /\ kept' = IF LastRecord.status = "kept" THEN head ELSE kept
  /\ step' = "next"
  /\ UNCHANGED <<items, asked, late, stopped, records, repo, snapshots, cause, passed, backup>>

-----------------------------------------------------------------------------
(* The end of the stage, and its recovery. *)

\* Mutant: only the edits are reset, not the branch.
Reset_Edits == on' = BASE /\ base' = base /\ head' = base /\ dirty' = {}

\* reset_to(base_branch, kept_head)
Reset == on' = BASE /\ base' = kept /\ head' = kept /\ dirty' = {}

Finish ==
  /\ step = "next" /\ item > N
  /\ IF stopped = "time limit" THEN Reset ELSE UNCHANGED repo
  /\ step' = "drop"
  /\ UNCHANGED <<items, asked, late, stopped, records, kept, snapshots, cause, passed, backup>>

DropBackup ==
  /\ step = "drop"
  /\ backup' = "gone" /\ step' = "ended"
  /\ UNCHANGED <<items, asked, late, stopped, records, repo, kept, snapshots, cause, passed>>

\* What only the items needed is gone.
Unwind ==
  /\ asked' = "item" /\ cause' = NoCause /\ passed' = {}
  /\ current' = NoSnapshot /\ stale' = FALSE /\ after' = NoSnapshot

\* Anything run_items calls can raise; SIGTERM raises too.
Raise ==
  /\ step \notin Over \cup {"recover", "restore", "restored", "drop"}
  /\ step' = "recover"
  /\ Unwind
  /\ UNCHANGED <<items, late, stopped, records, repo, kept, backup>>

\* Mutant: the backup is dropped whether the reset worked or not.
Recover_Drops ==
  /\ step = "recover"
  /\ Reset \/ UNCHANGED repo
  /\ step' = "restored"
  /\ UNCHANGED <<items, asked, late, stopped, records, kept, snapshots, cause, passed, backup>>

Recover ==
  /\ step = "recover"
  /\ \/ Reset /\ step' = "restored"
     \/ UNCHANGED repo /\ step' = "restore"             \* git itself fails
  /\ UNCHANGED <<items, asked, late, stopped, records, kept, snapshots, cause, passed, backup>>

\* The workspace, the hidden repository with it, is copied back.
Restore ==
  /\ step = "restore"
  /\ \/ /\ on' = BASE /\ base' = {} /\ head' = {} /\ dirty' \in {{}, {"litter"}}
        /\ step' = "restored"
     \/ UNCHANGED repo /\ step' = "dead"                \* the backup is kept
  /\ UNCHANGED <<items, asked, late, stopped, records, kept, snapshots, cause, passed, backup>>

DropRestored ==
  /\ step = "restored"
  /\ backup' = "gone" /\ step' = "raised"
  /\ UNCHANGED <<items, asked, late, stopped, records, repo, kept, snapshots, cause, passed>>

\* SIGKILL, or a second SIGTERM while recovering; a copy being dropped is
\* left in part.
Kill ==
  /\ step \notin Over
  /\ step' = "killed"
  /\ backup' \in IF step \in {"drop", "restored"} THEN {"whole", "partial"} ELSE {backup}
  /\ Unwind
  /\ UNCHANGED <<items, late, stopped, records, repo, kept>>

ItemStep ==
  \/ SkipItem \/ StartItem \/ Ask \/ NoEdit \/ Commit \/ DiscardRevision
  \/ Validate \/ Gate \/ Review \/ Revert \/ Keep \/ Land \/ MarkKept

EndStep == Finish \/ DropBackup \/ Recover \/ Restore \/ DropRestored

FixNext == ItemStep \/ EndStep \/ Clock \/ Raise \/ Kill

FixSpec == FixInit /\ [][FixNext]_fixVars

\* Every call the stage makes returns: sessions and tools have a timeout.
FixFairness == WF_fixVars(ItemStep \/ EndStep)

-----------------------------------------------------------------------------
(* Properties *)

Trees == SUBSET Items

\* A kept commit's last revision, amends after the gate's retry or the
\* reviewer's resume included, passed every check of its kind.
KeptItemsChecked ==
  \A i \in Kept :
    {"tests", "review", IF kind[i] = "quality" THEN "graph-check" ELSE "gate"}
      \subseteq records[i].passed

\* The ratchet compares a quality commit with the tree just before it, however
\* the items kept, reverted and skipped before it left the cached snapshot.
ComparedToParent ==
  step = "validate" /\ kind[item] = "quality" => current = head \ {item}

\* The backup is not given up while the checked-out tree holds anything but the
\* kept items, or the tree from before the stage.
BackupOutlivesDamage ==
  backup # "whole" => on = BASE /\ head = base /\ base \in {kept, {}}

\* Once SAME_CAUSE_STOP items in a row were reverted for one cause, no later
\* item is started.
EarlyStop ==
  \A i \in DOMAIN records :
    (\A d \in 0 .. SAME_CAUSE_STOP - 1 :
        i > d /\ records[i - d].status = "reverted" /\ records[i - d].cause = records[i].cause)
      => /\ \A j \in i + 1 .. Len(records) : records[j].status = "not-started"
         /\ i = Len(records) => step \notin {"ask", "asked", "validate"}

\* When the stage returns, the items it reports as kept are the ones the PR
\* branch holds: an edit cut off by the deadline is not among them.
ReportIsTheTree == step = "ended" => on = BASE /\ head = Kept /\ base = Kept

\* Both: what is kept passed its checks, and they compared it with its parent.
KeptIsChecked == KeptItemsChecked /\ ComparedToParent

\* Both: the report is true of the tree, and the way back is not given up early.
TreeIsReported == BackupOutlivesDamage /\ ReportIsTheTree

Promise == INSTANCE FixPromise WITH
  over   <- CASE step = "ended" -> "returned"
              [] step = "raised" -> "raised"
              [] step \in {"dead", "killed"} -> "lost"
              [] OTHER -> "no",
  result <- IF step \in Over /\ backup # "whole" THEN base ELSE {},
  saved  <- backup = "whole"

\* The stage implements its promise.
KeepsPromise == Promise!Spec

\* The stage ends, however the session, the checks and the clock behave.
Ends == step = "next" ~> step \in Over
=============================================================================
