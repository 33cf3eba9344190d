------------------------------ MODULE GraphStore ------------------------------
(***************************************************************************)
(* graph.db and the commands that write and judge it: graph index (with a  *)
(* database of an older version renamed aside), graph prune, and the git   *)
(* hooks codewatch installs: a commit is indexed and checked against       *)
(* "previous" before it lands, and indexed again after it.                 *)
(* (commands/graph-index-run.ts, graph-check.ts, graph-prune.ts,           *)
(* graph-auto-update.ts, hook.ts, utils/graph-store.ts)                    *)
(*                                                                         *)
(* Two processes run without a lock: the commit with its hooks, and a      *)
(* terminal.  A file is a number into data; disk says which file each name *)
(* has: 0 is graph.db, n >= 1 the n-th aside name.  A process keeps the    *)
(* file it opened when the name is given to another.  The working tree,    *)
(* git's index and the last commit are the sets of rule violations in them.*)
(*                                                                         *)
(* External: one write of a snapshot and one prune are transactions of the *)
(* store; an empty database drops a write-ahead log that is not its own.   *)
(***************************************************************************)
EXTENDS SnapshotRefs, Sequences

CONSTANTS
  Violations,   \* what the rules of check.json can find
  AutoUpdate,   \* autoUpdate of check.json
  Keep,         \* graph prune --keep
  KeepRefs,     \* graph prune --keep-ref
  Refs,         \* labels the terminal indexes under (the hooks use "wd")
  MaxAside,     \* bound: aside names
  MaxFiles,     \* bound: database files over the life of the directory
  MaxRows,      \* bound: the greatest snapshot id
  MaxEdits,     \* bound: edits of the tree
  MaxKills      \* bound: processes killed

Procs == {"hook", "term"}
Names == 0 .. MaxAside
NoFile == 0

ASSUME StoreAssumption ==
  /\ AutoUpdate \in BOOLEAN
  /\ {Keep, MaxAside, MaxFiles, MaxRows, MaxEdits, MaxKills} \subseteq Nat
  /\ Keep > 0 /\ MaxFiles < MaxAside

\* What is kept of a snapshot: when it was taken, and the violations it shows.
Snapshot == [id : Nat \ {0}, taken : Nat, ref : Refs \cup {"wd"}, commit : {NoCommit},
             found : SUBSET Violations]

ASSUME RowAssumption == NoRow \notin Snapshot

VARIABLES
  disk,       \* per name: the database there and the database its -wal belongs to
  data,       \* per file: whether it is of an older version, and its snapshots
  work,       \* violations in the working tree
  index,      \* violations in git's index, the tree that is committed
  landed,     \* violations in the last commit
  edits, kills,
  proc,       \* per process: its next step and what it keeps between steps
  commit,     \* history of the commit the hook runs for: the violations that any
              \* snapshot but the hook's own showed, when it began or since, and
              \* whether all of the tree is staged and nobody touches it
  torn        \* history: a rename met another index, or was killed half done

storeVars == <<disk, data, work, index, landed, edits, kills, proc, commit, torn>>

Rows(f) == IF f = NoFile THEN {} ELSE data[f].rows
Legacy(f) == f # NoFile /\ data[f].legacy
MaxId(rows) == IF rows = {} THEN 0 ELSE Newest(rows).id

OldFile(log) == [legacy |-> TRUE, wal |-> log, rows |-> {}]
NewFile      == [legacy |-> FALSE, wal |-> FALSE, rows |-> {}]

\* job: "commit", "post" (graph auto-update) or "index"; aside: the name chosen;
\* handle: the file opened; head: the snapshot graph check judges.
Idle == [pc |-> "idle", job |-> "index", aside |-> 0, handle |-> NoFile, head |-> 0]
Start(job) == [Idle EXCEPT !.pc = "look", !.job = job]
Steps == {"idle", "look", "aside", "main", "wal", "open", "write", "head", "base"}

NoCommitRuns == [seen |-> {}, whole |-> FALSE]

StoreInit ==
  /\ disk = [n \in Names |-> [main |-> NoFile, wal |-> NoFile]]
  /\ data = <<>>
  /\ work = {} /\ index = {} /\ landed = {}
  /\ edits = 0 /\ kills = 0
  /\ proc = [p \in Procs |-> Idle]
  /\ commit = NoCommitRuns
  /\ torn = FALSE

Is(p, step) == proc[p].pc = step
Goto(p, step) == proc' = [proc EXCEPT ![p].pc = step]
Exit(p) == proc' = [proc EXCEPT ![p] = Idle]

Committing == proc["hook"].job = "commit"
Renaming(p) == proc[p].pc \in {"aside", "main", "wal"}

-----------------------------------------------------------------------------
(* What people do. *)

Edit ==
  /\ edits < MaxEdits
  /\ \E v \in SUBSET Violations : v # work /\ work' = v
  /\ edits' = edits + 1
  /\ commit' = [commit EXCEPT !.whole = FALSE]
  /\ UNCHANGED <<disk, data, index, landed, kills, proc, torn>>

\* git add of all of the tree, or (an edit too) of a part of it; git reset.
Stage ==
  /\ \E v \in SUBSET Violations : v # index /\ index' = v
  /\ \/ index' = work /\ edits' = edits
     \/ index' # work /\ edits < MaxEdits /\ edits' = edits + 1
  /\ commit' = [commit EXCEPT !.whole = FALSE]
  /\ UNCHANGED <<disk, data, work, landed, kills, proc, torn>>

\* A database of a version before 0.2 is put in place while nothing runs, with
\* or without a write-ahead log beside it.
PutOld ==
  /\ \A p \in Procs : Is(p, "idle")
  /\ Len(data) < MaxFiles
  /\ ~Legacy(disk[0].main)
  /\ \E log \in BOOLEAN :
       /\ data' = Append(data, OldFile(log))
       /\ disk' = [disk EXCEPT ![0] = [main |-> Len(data'),
                                       wal |-> IF log THEN Len(data') ELSE NoFile]]
  /\ UNCHANGED <<work, index, landed, edits, kills, proc, commit, torn>>

-----------------------------------------------------------------------------
(* graph index, and graph auto-update when the flag is set. *)

StartIndex ==
  /\ Is("term", "idle")
  /\ proc' = [proc EXCEPT !["term"] = Start("index")]
  /\ UNCHANGED <<disk, data, work, index, landed, edits, kills, commit, torn>>

\* legacyGraphDbVersion: null for a current or an absent file.
Look(p) ==
  /\ Is(p, "look")
  /\ Goto(p, IF Legacy(disk[0].main) THEN "aside" ELSE "open")
  /\ torn' = (torn \/ (Legacy(disk[0].main) /\ \E q \in Procs \ {p} : Renaming(q)))
  /\ UNCHANGED <<disk, data, work, index, landed, edits, kills, commit>>

FreeAside_First == 1

\* freeAsidePath: the first name no database has.
FreeAside == CHOOSE n \in Names \ {0} :
               disk[n].main = NoFile /\ \A k \in 1 .. n - 1 : disk[k].main # NoFile

PickAside(p) ==
  /\ Is(p, "aside")
  /\ proc' = [proc EXCEPT ![p].pc = "main", ![p].aside = FreeAside]
  /\ UNCHANGED <<disk, data, work, index, landed, edits, kills, commit, torn>>

\* One renameSync per suffix; a name that does not exist is skipped.
MoveMain(p) ==
  /\ Is(p, "main")
  /\ disk' = IF disk[0].main = NoFile THEN disk
             ELSE [disk EXCEPT ![0].main = NoFile, ![proc[p].aside].main = disk[0].main]
  /\ Goto(p, "wal")
  /\ UNCHANGED <<data, work, index, landed, edits, kills, commit, torn>>

MoveWal(p) ==
  /\ Is(p, "wal")
  /\ disk' = IF disk[0].wal = NoFile THEN disk
             ELSE [disk EXCEPT ![0].wal = NoFile, ![proc[p].aside].wal = disk[0].wal]
  /\ Goto(p, "open")
  /\ UNCHANGED <<data, work, index, landed, edits, kills, commit, torn>>

\* openCodeGraph creates the file when there is none.
Open(p) ==
  /\ Is(p, "open")
  /\ IF disk[0].main # NoFile
     THEN /\ proc' = [proc EXCEPT ![p].pc = "write", ![p].handle = disk[0].main]
          /\ UNCHANGED <<disk, data>>
     ELSE /\ Len(data) < MaxFiles
          /\ data' = Append(data, NewFile)
          /\ disk' = [disk EXCEPT ![0] = [main |-> Len(data'), wal |-> NoFile]]
          /\ proc' = [proc EXCEPT ![p].pc = "write", ![p].handle = Len(data')]
  /\ torn' = (torn \/ \E q \in Procs \ {p} : Renaming(q))
  /\ UNCHANGED <<work, index, landed, edits, kills, commit>>

\* indexPaths: a snapshot of the working tree as it is now.  The commit goes on
\* to its check; the other two are done.
Write(p) ==
  LET f  == proc[p].handle
      id == MaxId(Rows(f)) + 1
  IN  /\ Is(p, "write")
      /\ id <= MaxRows
      /\ \E ref \in IF proc[p].job = "index" THEN Refs ELSE {"wd"} :
           data' = [data EXCEPT ![f].rows =
                      @ \cup {[id |-> id, taken |-> id, ref |-> ref,
                               commit |-> NoCommit, found |-> work]}]
      /\ IF proc[p].job = "commit" THEN Goto(p, "head") ELSE Exit(p)
      /\ commit' = IF p = "term" /\ Committing
                   THEN [commit EXCEPT !.seen = @ \cup work] ELSE commit
      /\ UNCHANGED <<disk, work, index, landed, edits, kills, torn>>

-----------------------------------------------------------------------------
(* git commit: the pre-commit block, the commit, the post-commit block.  The    *)
(* block indexes the working tree; git commits its index.                       *)

Commit ==
  /\ Is("hook", "idle")
  /\ index # landed
  /\ proc' = [proc EXCEPT !["hook"] = Start("commit")]
  /\ commit' = [seen |-> UNION {r.found : r \in Rows(disk[0].main)}, whole |-> index = work]
  /\ UNCHANGED <<disk, data, work, index, landed, edits, kills, torn>>

\* graph check: the newest snapshot; no file, an old one or no snapshot is an
\* error, which stops the commit.
CheckHead ==
  LET f == disk[0].main
  IN  /\ Is("hook", "head")
      /\ IF Legacy(f) \/ Rows(f) = {}
         THEN Exit("hook") /\ commit' = NoCommitRuns
         ELSE /\ proc' = [proc EXCEPT !["hook"].pc = "base", !["hook"].handle = f,
                                      !["hook"].head = MaxId(Rows(f))]
              /\ UNCHANGED commit
      /\ UNCHANGED <<disk, data, work, index, landed, edits, kills, torn>>

\* runChecks: a violation the baseline has too is carried over; no baseline is
\* an error.
Blocks(snapshot, baseline) ==
  \/ snapshot = NoRow \/ baseline = NoRow
  \/ snapshot.found \ baseline.found # {}

\* The baseline, the rules, the exit code; then git reads its index again,
\* commits it and runs the post-commit block.
CheckBaseline ==
  LET rows == Rows(proc["hook"].handle)
      head == proc["hook"].head
      blocked == Blocks(ById(rows, head), PreviousInCheck(rows, head))
  IN  /\ Is("hook", "base")
      /\ landed' = IF blocked THEN landed ELSE index
      /\ IF ~blocked /\ AutoUpdate
         THEN proc' = [proc EXCEPT !["hook"] = Start("post")]
         ELSE Exit("hook")
      /\ commit' = NoCommitRuns
      /\ UNCHANGED <<disk, data, work, index, edits, kills, torn>>

\* graph prune; openGraphStore refuses a missing or an old file.
Prune ==
  LET f == disk[0].main
  IN  /\ Is("term", "idle")
      /\ f # NoFile /\ ~Legacy(f)
      /\ Pruned(data[f].rows, Keep, KeepRefs) # data[f].rows
      /\ data' = [data EXCEPT ![f].rows = Pruned(@, Keep, KeepRefs)]
      /\ UNCHANGED <<disk, work, index, landed, edits, kills, proc, commit, torn>>

Kill(p) ==
  /\ ~Is(p, "idle") /\ kills < MaxKills
  /\ Exit(p)
  /\ kills' = kills + 1
  /\ torn' = (torn \/ Is(p, "wal"))
  /\ commit' = IF p = "hook" THEN NoCommitRuns ELSE commit
  /\ UNCHANGED <<disk, data, work, index, landed, edits>>

IndexStep(p) ==
  \/ Look(p) \/ PickAside(p) \/ MoveMain(p) \/ MoveWal(p) \/ Open(p) \/ Write(p)

StoreNext ==
  \/ Edit \/ Stage \/ PutOld \/ StartIndex \/ Commit \/ CheckHead \/ CheckBaseline \/ Prune
  \/ \E p \in Procs : IndexStep(p) \/ Kill(p)

-----------------------------------------------------------------------------
(* The pre-commit gate (hook.ts, graph-check.ts): a commit lands only when every
   violation of the snapshot that was judged is in a snapshot the hook did not take
   for this commit, whoever edits, stages, indexes, prunes or renames under it; and a
   commit of all of an untouched tree then holds no other violation. *)
NothingUnseenLands ==
  [][landed' # landed =>
       LET judged == ById(Rows(proc["hook"].handle), proc["hook"].head)
       IN  /\ judged.found \subseteq commit.seen
           /\ commit.whole => landed' \subseteq commit.seen]_storeVars

(* "Never overwrite an earlier aside file" (utils/graph-store.ts:48): unless another
   index ran under a rename or one was killed between two suffixes, every old database
   is still there, under one name with the log it had. *)
Whole(f, n) == disk[n].main = f /\ (data[f].wal => disk[n].wal = f)

MovedHalf(f, p) ==
  /\ Is(p, "wal") /\ disk[proc[p].aside].main = f
  /\ data[f].wal => disk[0].wal = f

OldDatabasesKept ==
  ~torn => \A f \in DOMAIN data : data[f].legacy =>
             (\E n \in Names : Whole(f, n)) \/ (\E p \in Procs : MovedHalf(f, p))
=============================================================================
