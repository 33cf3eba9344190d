-------------------------------- MODULE Triage --------------------------------
(***************************************************************************)
(* The life of a triage verdict: `codewatch triage --verdicts-dir` over    *)
(* graph.db and the committed verdict files (packages/cli/src/commands/    *)
(* triage.ts, triage-plan.ts, triage-persist.ts, triage-source.ts), with   *)
(* the audits and re-indexes that add snapshots, edits of the code, the    *)
(* merging job (VerdictFiles), and a process that dies at any step.        *)
(*                                                                         *)
(* Verdicts are stored twice: in the snapshot the run was planned on, in   *)
(* two saves, and then in the run's fragment.  One triage process runs at  *)
(* a time.  External: graph.db's carry-forward and saves (code-graph), and *)
(* which questions the reader answers with citations that check out.       *)
(***************************************************************************)
EXTENDS VerdictFiles, Sequences, TLC

CONSTANTS
  Texts,        \* contents a finding's file, or its caller's file, can have
  Gone,         \* the finding is not in the code
  Missing,      \* the caller's lines are not shown: its file drifted
  Unpinned,     \* the finding's own file drifted: not asked, not reused
  MaxEdits, MaxSnaps, MaxAttempts, MaxFolds     \* bounds

VARIABLES
  code,       \* each finding's excerpt in the working tree
  snaps,      \* graph.db: its snapshots, oldest first
  audited,    \* the findings of the last audit's outputs
  head, frags,    \* the committed verdict files
  run,        \* the triage process
  owed,       \* history: by run id, the keys whose verdict one of its attempts
              \* saved in graph.db and no write of its fragment completed
  edits, attempts, folds     \* counters for the bounds

db      == <<snaps, audited>>
files   == <<head, frags>>
counts  == <<edits, attempts, folds>>
vars    == <<code, db, files, run, owed, counts>>

Excerpts == [own : Texts, context : Texts]
Shown == [own : Texts, context : Texts \cup {Missing}]
Rows == [excerpt : Shown, attempt : 1 .. MaxAttempts]

\* What is no text, excerpt or row is told from one.
ASSUME TriageAssumption ==
  /\ MaxAttempts \in Nat /\ Texts # {}
  /\ Gone \notin Shown /\ Unpinned \notin Shown /\ NoRow \notin Rows

Idle == [step |-> "idle", id |-> 0, snap |-> 0, seen |-> NoRows, open |-> {},
         records |-> NoRows, reused |-> NoRows, view |-> NoRows]

Init ==
  /\ code \in [Keys -> {CHOOSE e \in Excerpts : TRUE}]
  /\ snaps = <<>> /\ audited = {}
  /\ head = NoFile /\ frags = [r \in RunIds |-> NoFile]
  /\ run = Idle /\ owed = [r \in RunIds |-> {}]
  /\ edits = 0 /\ attempts = 0 /\ folds = 0

-----------------------------------------------------------------------------
(* The code, and the snapshots of it. *)

\* One edit changes one file, the finding's or its caller's.
Edited(text) ==
  IF text = Gone THEN Excerpts
  ELSE {Gone} \cup {[text EXCEPT !.own = t] : t \in Texts}
              \cup {[text EXCEPT !.context = t] : t \in Texts}

Edit(k) ==
  /\ edits < MaxEdits /\ edits' = edits + 1
  /\ \E e \in Edited(code[k]) \ {code[k]} : code' = [code EXCEPT ![k] = e]
  /\ UNCHANGED <<db, files, run, owed, attempts, folds>>

Snapshot(found) == [text |-> code, found |-> found, verdicts |-> NoRows]

\* `codewatch audit` indexes, stores the findings and writes its outputs.
Audit ==
  /\ Len(snaps) < MaxSnaps
  /\ audited' = {k \in Keys : code[k] # Gone}
  /\ snaps' = Append(snaps, Snapshot(audited'))
  /\ UNCHANGED <<code, files, run, owed, counts>>

\* A plain re-index (the post-commit hook) stores no findings.
Index ==
  /\ Len(snaps) < MaxSnaps
  /\ snaps' = Append(snaps, Snapshot({}))
  /\ UNCHANGED <<code, audited, files, run, owed, counts>>

\* graph.db is not committed: a fresh checkout starts without it.
RebuildDb ==
  /\ run = Idle /\ snaps # <<>>
  /\ snaps' = <<>> /\ audited' = {}
  /\ UNCHANGED <<code, files, run, owed, counts>>

-----------------------------------------------------------------------------
(* Planning: carry forward, then skip what is judged. *)

\* The file text a run may read: only what still matches the snapshot.
Seen(s, k) ==
  LET then == snaps[s].text[k]
  IN  IF Gone \in {then, code[k]} \/ then.own # code[k].own THEN Unpinned
      ELSE IF then.context # code[k].context THEN [then EXCEPT !.context = Missing]
      ELSE then

JudgedBefore(s) == {i \in 1 .. s - 1 : Holds(snaps[i].verdicts) # {}}

\* carryForwardVerdicts, from the latest earlier snapshot that holds verdicts.
Carried(s) ==
  IF JudgedBefore(s) = {} THEN snaps[s].verdicts
  ELSE LET from == CHOOSE i \in JudgedBefore(s) : \A j \in JudgedBefore(s) : j <= i
           prior == snaps[from].verdicts
       IN  [k \in Keys |->
              IF /\ snaps[s].verdicts[k] = NoRow /\ prior[k] # NoRow
                 /\ k \in snaps[s].found
                 /\ prior[k].excerpt = snaps[s].text[k]
              THEN prior[k] ELSE snaps[s].verdicts[k]]

\* Mutant: reused for the key alone, whatever text it judged.
FileVerdict_AnyText(k, seen) == Reading(head, frags)[k]

\* A committed verdict is reused only for the excerpt it judged.
FileVerdict(k, seen) ==
  LET row == Reading(head, frags)[k]
  IN  IF row # NoRow /\ row.excerpt = seen THEN row ELSE NoRow

Plan(id) ==
  /\ run = Idle /\ snaps # <<>>
  /\ attempts < MaxAttempts /\ attempts' = attempts + 1
  /\ LET s == Len(snaps)
         held == Carried(s)
     IN \E selected \in SUBSET audited :
          LET seen == [k \in Keys |-> IF k \in selected THEN Seen(s, k) ELSE NoRow]
              reused == [k \in Keys |-> IF k \in selected /\ held[k] = NoRow
                                        THEN FileVerdict(k, seen[k]) ELSE NoRow]
              open == {k \in selected : held[k] = NoRow /\ reused[k] = NoRow /\ seen[k] # Unpinned}
          IN /\ snaps' = [snaps EXCEPT ![s].verdicts = held]
             /\ run' = [step |-> "read", id |-> id, snap |-> s, seen |-> seen, open |-> open,
                        records |-> NoRows, reused |-> reused, view |-> NoRows]
  /\ UNCHANGED <<code, audited, files, owed, edits, folds>>

-----------------------------------------------------------------------------
(* The run: read, two saves, the fragment, the outputs. *)

\* Calls can fail, be stopped by the budget or be dropped by verification.
Read ==
  /\ run.step = "read"
  /\ \E answered \in SUBSET run.open :
       run' = [run EXCEPT !.step = "save",
                 !.records = [k \in Keys |->
                    IF k \in answered THEN [excerpt |-> run.seen[k], attempt |-> attempts] ELSE NoRow]]
  /\ UNCHANGED <<code, db, files, owed, counts>>

Save(rows) == [snaps EXCEPT ![run.snap].verdicts = Over(@, rows)]

\* Mutant: the run's own verdicts go to its fragment only.
SaveJudged_FileOnly ==
  /\ run.step = "save"
  /\ run' = [run EXCEPT !.step = "save-reused"]
  /\ owed' = [owed EXCEPT ![run.id] = @ \cup Holds(run.records)]
  /\ UNCHANGED <<code, db, files, counts>>

SaveJudged ==
  /\ run.step = "save"
  /\ snaps' = Save(run.records)
  /\ run' = [run EXCEPT !.step = "save-reused"]
  /\ owed' = [owed EXCEPT ![run.id] = @ \cup Holds(run.records)]
  /\ UNCHANGED <<code, audited, files, counts>>

\* The run's view of the snapshot: the fresh and reused rows as given, the
\* rest read back from graph.db, for the findings it can name.
View(stored) ==
  LET given == Over(run.records, run.reused)
      known == snaps[run.snap].found \cup {k \in Keys : run.seen[k] # NoRow}
  IN  [k \in Keys |-> IF given[k] # NoRow THEN given[k]
                      ELSE IF k \in known THEN stored[k] ELSE NoRow]

SaveReused ==
  /\ run.step = "save-reused"
  /\ snaps' = Save(run.reused)
  /\ run' = [run EXCEPT !.step = "fragment", !.view = View(snaps'[run.snap].verdicts)]
  /\ UNCHANGED <<code, audited, files, owed, counts>>

\* graph.db rejects a committed row: the run fails, its own verdicts saved.
RejectReused ==
  /\ run.step = "save-reused" /\ Holds(run.reused) # {}
  /\ run' = Idle
  /\ UNCHANGED <<code, db, files, owed, counts>>

\* Mutant: a rerun replaces the fragment of its first attempt.
WriteFragment_Replaces ==
  /\ run.step = "fragment"
  /\ \/ /\ Holds(run.records) = {}
        /\ UNCHANGED <<files, owed>>
     \/ /\ Holds(run.records) # {} /\ ~ frags[run.id].bad
        /\ frags' = [frags EXCEPT ![run.id] = Written(run.records)]
        /\ owed' = [owed EXCEPT ![run.id] = @ \ Holds(run.records)]
        /\ UNCHANGED head
  /\ run' = [run EXCEPT !.step = "outputs"]
  /\ UNCHANGED <<code, db, counts>>

WriteFragment ==
  /\ run.step = "fragment"
  /\ \/ /\ Holds(run.records) = {}
        /\ UNCHANGED <<files, owed>>
     \/ /\ Holds(run.records) # {} /\ ~ frags[run.id].bad
        /\ frags' = [frags EXCEPT ![run.id] = Written(Over(@.rows, run.records))]
        /\ owed' = [owed EXCEPT ![run.id] = @ \ Holds(run.records)]
        /\ UNCHANGED head
  /\ run' = [run EXCEPT !.step = "outputs"]
  /\ UNCHANGED <<code, db, counts>>

\* It refuses to rewrite a fragment that holds a line it cannot read.
RefuseFragment ==
  /\ run.step = "fragment" /\ Holds(run.records) # {} /\ frags[run.id].bad
  /\ run' = Idle
  /\ UNCHANGED <<code, db, files, owed, counts>>

\* The process dies inside the write, which goes over the rows of the id's
\* earlier attempts too.  What is left may be a well-formed, shorter fragment.
CutFragment ==
  /\ run.step = "fragment" /\ Holds(run.records) # {} /\ ~ frags[run.id].bad
  /\ \E left \in CutFiles(Over(frags[run.id].rows, run.records)) :
       /\ frags' = [frags EXCEPT ![run.id] = left]
       /\ owed' = [owed EXCEPT ![run.id] =
                     (@ \cup Holds(frags[run.id].rows)) \ Holds(left.rows)]
  /\ run' = Idle
  /\ UNCHANGED <<code, db, head, counts>>

\* verdicts.jsonl is run.view; no run reads it back.
WriteOutputs ==
  /\ run.step = "outputs"
  /\ run' = Idle
  /\ UNCHANGED <<code, db, files, owed, counts>>

Crash ==
  /\ run # Idle
  /\ run' = Idle
  /\ UNCHANGED <<code, db, files, owed, counts>>

-----------------------------------------------------------------------------
(* The merging job, and whoever takes half a line out of a file by hand. *)

\* Keys whose anchor is in the head snapshot, or all when it cannot be read;
\* an anchor can outlive its finding.
AnchorSets ==
  IF snaps = <<>> THEN {Keys}
  ELSE {p \in SUBSET Keys : {k \in Keys : snaps[Len(snaps)].text[k] # Gone} \subseteq p}

\* A malformed head folds nothing, and with no fragment to take nothing is
\* written.
CanFold ==
  /\ folds < MaxFolds /\ folds' = folds + 1
  /\ ~ head.bad /\ Absorbed(frags) # {}

\* Mutant: the fragments taken are deleted before the head is written.
CutHead_DeletesFirst ==
  /\ CanFold
  /\ \E present \in AnchorSets : head' \in CutFiles(FoldedHead(head, frags, present))
  /\ frags' = Emptied(frags, Absorbed(frags))
  /\ UNCHANGED <<code, db, run, owed, edits, attempts>>

\* The job dies inside the write of the head, before it deletes a fragment.
CutHead ==
  /\ CanFold
  /\ \E present \in AnchorSets : head' \in CutFiles(FoldedHead(head, frags, present))
  /\ UNCHANGED <<code, db, frags, run, owed, edits, attempts>>

\* The head is written, then the fragments taken are deleted one by one, in
\* order; a death in between leaves the rest.
Fold ==
  /\ CanFold
  /\ \E present \in AnchorSets : head' = Written(FoldedHead(head, frags, present))
  /\ \E done \in {{r \in Absorbed(frags) : r <= n} : n \in RunIds \cup {0}} :
       frags' = Emptied(frags, done)
  /\ UNCHANGED <<code, db, run, owed, edits, attempts>>

Mend(r) ==
  /\ frags[r].bad
  /\ frags' = [frags EXCEPT ![r].bad = FALSE]
  /\ UNCHANGED <<code, db, head, run, owed, counts>>

MendHead ==
  /\ head.bad
  /\ head' = [head EXCEPT !.bad = FALSE]
  /\ UNCHANGED <<code, db, frags, run, owed, counts>>

Next ==
  \/ \E k \in Keys : Edit(k)
  \/ Audit \/ Index \/ RebuildDb
  \/ \E r \in RunIds : Plan(r) \/ Mend(r)
  \/ Read \/ SaveJudged \/ SaveReused \/ RejectReused
  \/ WriteFragment \/ RefuseFragment \/ CutFragment \/ WriteOutputs \/ Crash
  \/ Fold \/ CutHead \/ MendHead

Spec == Init /\ [][Next]_vars

\* No step and no property tells one finding from another.
KeySymmetry == Permutations(Keys)
-----------------------------------------------------------------------------
(* Properties *)

RowFunctions == [Keys -> Rows \cup {NoRow}]

\* A verdict stands only in snapshots whose code it judged, however it came
\* there (a save after an edit, carry-forward, a committed file): at most the
\* caller's lines were not shown.
VerdictsFitSnapshot ==
  \A i \in DOMAIN snaps : \A k \in Holds(snaps[i].verdicts) :
    LET judgedText == snaps[i].verdicts[k].excerpt
        text == snaps[i].text[k]
    IN  /\ text # Gone /\ judgedText.own = text.own
        /\ judgedText.context \in {text.context, Missing}

\* Once the run is past its first save, no way it can end (a committed row
\* graph.db rejects, an unreadable fragment, a crash) takes the verdicts it
\* paid for out of graph.db, or replaces them with older ones.
PaidVerdictsSurvive ==
  [][(run # Idle /\ run' = Idle /\ run.step \notin {"read", "save"}) =>
       \A k \in Holds(run.records) : snaps'[run.snap].verdicts[k] = run.records[k]]_vars

\* verdicts.jsonl of a finished run says what graph.db says of its snapshot,
\* for every finding the run knows.
ViewMatchesStore ==
  run.step \in {"fragment", "outputs"} =>
    \A k \in Keys :
      /\ run.view[k] # NoRow => run.view[k] = snaps[run.snap].verdicts[k]
      /\ run.seen[k] # NoRow => run.view[k] = snaps[run.snap].verdicts[k]

\* Both: stored or read back, a verdict is the one given on this code.
VerdictsAreOfThisCode == VerdictsFitSnapshot /\ ViewMatchesStore

Anchored(k) == snaps = <<>> \/ snaps[Len(snaps)].text[k] # Gone

InHead(k) == head.rows[k] # NoRow
InFragment(r, k) == frags[r].rows[k] # NoRow

\* A verdict that the process was writing when it died, and that no file but the
\* one under its pen held.
WasUnderThePen(k) ==
  \/ CutFragment /\ ~ InHead(k) /\ \A r \in RunIds \ {run.id} : ~ InFragment(r, k)
  \/ CutHead /\ \A r \in RunIds : ~ InFragment(r, k)

\* Whatever run, retry, fold or death touches the committed files, a reader
\* loses a finding's verdict in two ways only: a fold drops it for an anchor
\* that is gone, or a process dies inside the write of the one file that held
\* it.  A death anywhere in a fold takes no verdict that a fragment held.
NothingForgotten ==
  [][files' # files => \A k \in Keys :
       Reading(head, frags)[k] # NoRow =>
         \/ Reading(head, frags)'[k] # NoRow
         \/ Fold /\ ~ Anchored(k)
         \/ WasUnderThePen(k)]_vars

WellFormed == ~ head.bad /\ \A r \in RunIds : ~ frags[r].bad

\* With every file well formed, those a death cut short at a line's end
\* included, a fold changes no verdict a reader gets, finished or cut short
\* between two files; one that dies inside the head changes none that a
\* fragment holds.
CleanFoldKeepsReading ==
  [][(folds' # folds /\ WellFormed) =>
       \A k \in Keys :
         (Anchored(k) /\ (Fold \/ (CutHead /\ \E r \in RunIds : InFragment(r, k))))
           => Reading(head, frags)'[k] = Reading(head, frags)[k]]_vars

\* "the latest row per key wins" (fold.py), whatever the fold leaves in place.
FoldKeepsLatest ==
  [][Fold => \A k \in Keys : Anchored(k) => Reading(head, frags)'[k] = Reading(head, frags)[k]]_vars

\* "a retry never drops what the first attempt judged" (triage-persist.ts):
\* when an attempt of a run id has written its fragment, the verdicts of all its
\* attempts have reached it.
RetryKeepsJudged == run.step = "outputs" => owed[run.id] = {}
=============================================================================
