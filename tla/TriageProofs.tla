----------------------------- MODULE TriageProofs -----------------------------
(* For any findings, texts, run ids and bounds.                                *)
EXTENDS Triage, FiniteSetTheorems, WellFoundedInduction, TLAPS

RowsOfKeys == [Keys -> Rows \cup {NoRow}]
\* What is not there holds nothing.
Files == {NoFile} \cup [there : {TRUE}, rows : RowsOfKeys, bad : BOOLEAN]
SnapshotRecords ==
  [text : [Keys -> Excerpts \cup {Gone}], found : SUBSET Keys, verdicts : RowsOfKeys]
RunRecords ==
  [step : {"idle", "read", "save", "save-reused", "fragment", "outputs"},
   id : RunIds \cup {0}, snap : Nat, seen : [Keys -> Shown \cup {NoRow, Unpinned}],
   open : SUBSET Keys, records : RowsOfKeys, reused : RowsOfKeys, view : RowsOfKeys]

TypeOK ==
  /\ code \in [Keys -> Excerpts \cup {Gone}]
  /\ snaps \in Seq(SnapshotRecords)
  /\ audited \subseteq Keys
  /\ head \in Files
  /\ frags \in [RunIds -> Files]
  /\ run \in RunRecords
  /\ attempts \in 0 .. MaxAttempts /\ folds \in Nat

\* An excerpt was taken of a text: at most the caller's lines are not in it.
Fits(excerpt, text) ==
  /\ text # Gone /\ excerpt.own = text.own
  /\ excerpt.context \in {text.context, Missing}
FitAll(rows, text) == \A k \in Keys : rows[k] # NoRow => Fits(rows[k].excerpt, text[k])

\* What a run under way knows is of the snapshot it was planned on; it asks
\* only about what it was shown and nobody judged.
RunFits ==
  IF run.step = "idle" THEN run = Idle ELSE
    /\ run.snap \in 1 .. Len(snaps) /\ run.id \in RunIds
    /\ FitAll(run.records, snaps[run.snap].text)
    /\ FitAll(run.reused, snaps[run.snap].text)
    /\ \A k \in run.open : /\ run.seen[k] \in Shown /\ Fits(run.seen[k], snaps[run.snap].text[k])
                           /\ run.reused[k] = NoRow
    /\ \A k \in Keys : run.records[k] # NoRow => k \in run.open

\* Past its first save, what a run paid for is stored.
PaidIsStored ==
  run.step \in {"save-reused", "fragment", "outputs"} =>
    \A k \in Keys : run.records[k] # NoRow => snaps[run.snap].verdicts[k] = run.records[k]

TriageInv ==
  /\ TypeOK
  /\ \A i \in 1 .. Len(snaps) : FitAll(snaps[i].verdicts, snaps[i].text)
  /\ RunFits
  /\ PaidIsStored
  /\ ViewMatchesStore
  /\ run.step = "read" => attempts > 0

-----------------------------------------------------------------------------
(* What the helpers give. *)

LEMMA NoFileType == NoFile \in Files /\ NoFile.rows = NoRows
BY DEF NoFile, Files

LEMMA FileRows ==
  ASSUME NEW file \in Files
  PROVE  /\ file.rows \in RowsOfKeys /\ file.bad \in BOOLEAN
         /\ file.bad => [file EXCEPT !.bad = FALSE] \in Files
<1>1. CASE file = NoFile
  BY <1>1 DEF NoFile, NoRows, RowsOfKeys
<1>2. CASE file # NoFile
  BY <1>2 DEF Files
<1> QED
  BY <1>1, <1>2

\* Rows written over rows are rows, and say what either said.
LEMMA OverIsRows ==
  ASSUME NEW rows \in RowsOfKeys, NEW newer \in RowsOfKeys
  PROVE  /\ Over(rows, newer) \in RowsOfKeys
         /\ \A k \in Keys : Over(rows, newer)[k] = IF newer[k] # NoRow THEN newer[k] ELSE rows[k]
BY DEF Over, RowsOfKeys

LEMMA WrittenType ==
  ASSUME NEW rows \in RowsOfKeys
  PROVE  /\ Written(rows) \in Files
         /\ Written(rows).rows = rows /\ ~ Written(rows).bad
BY DEF Written, Files

\* What a cut write leaves is a file with some of the rows.
LEMMA CutType ==
  ASSUME NEW rows \in RowsOfKeys, NEW left \in CutFiles(rows)
  PROVE  left \in Files
<1>1. PICK kept \in SUBSET Holds(rows), bad \in BOOLEAN :
         left = [there |-> TRUE, rows |-> [k \in Keys |-> IF k \in kept THEN rows[k] ELSE NoRow], bad |-> bad]
  BY DEF CutFiles
<1>2. [k \in Keys |-> IF k \in kept THEN rows[k] ELSE NoRow] \in RowsOfKeys
  BY DEF RowsOfKeys
<1> QED
  BY <1>1, <1>2 DEF Files

LEMMA OverFits ==
  ASSUME NEW rows \in RowsOfKeys, NEW newer \in RowsOfKeys, NEW text,
         FitAll(rows, text), FitAll(newer, text)
  PROVE  FitAll(Over(rows, newer), text)
BY OverIsRows DEF FitAll

LEMMA NoRowsFit ==
  ASSUME NEW text
  PROVE  NoRows \in RowsOfKeys /\ FitAll(NoRows, text)
BY DEF NoRows, RowsOfKeys, FitAll

\* A row's excerpt is an excerpt.
LEMMA RowShown ==
  ASSUME NEW rows \in RowsOfKeys, NEW k \in Keys, rows[k] # NoRow
  PROVE  rows[k] \in Rows /\ rows[k].excerpt \in Shown
BY DEF RowsOfKeys, Rows

LEMMA StoredSnapshot ==
  ASSUME TypeOK
  PROVE  \A i \in 1 .. Len(snaps) :
           /\ snaps[i] \in SnapshotRecords
           /\ snaps[i].text \in [Keys -> Excerpts \cup {Gone}]
           /\ snaps[i].verdicts \in RowsOfKeys
<1> TAKE i \in 1 .. Len(snaps)
<1>1. snaps[i] \in SnapshotRecords
  BY DEF TypeOK
<1> QED
  BY <1>1 DEF SnapshotRecords

\* What a run is shown of a finding was taken of the snapshot's text.
LEMMA SeenFits ==
  ASSUME TypeOK, NEW s \in 1 .. Len(snaps), NEW k \in Keys
  PROVE  /\ Seen(s, k) \in Shown \cup {Unpinned}
         /\ Seen(s, k) \in Shown => Fits(Seen(s, k), snaps[s].text[k])
<1>1. snaps[s] \in SnapshotRecords
  BY DEF TypeOK
<1>2. snaps[s].text[k] \in Excerpts \cup {Gone} /\ code[k] \in Excerpts \cup {Gone}
  BY <1>1 DEF SnapshotRecords, TypeOK
<1>3. CASE Gone \in {snaps[s].text[k], code[k]} \/ snaps[s].text[k].own # code[k].own
  BY <1>3, TriageAssumption DEF Seen
<1>4. CASE ~ (Gone \in {snaps[s].text[k], code[k]} \/ snaps[s].text[k].own # code[k].own)
  <2>1. snaps[s].text[k] \in Excerpts /\ snaps[s].text[k] # Gone
    BY <1>2, <1>4
  <2>2. snaps[s].text[k] \in Shown /\ [snaps[s].text[k] EXCEPT !.context = Missing] \in Shown
    BY <2>1 DEF Excerpts, Shown
  <2> QED
    BY <1>4, <2>1, <2>2, TriageAssumption DEF Seen, Fits, Excerpts
<1> QED
  BY <1>3, <1>4

\* Of some run ids one is the last.
LEMMA LastRunId ==
  ASSUME NEW S \in SUBSET RunIds, S # {}
  PROVE  \E r \in S : \A q \in S : q <= r
<1> DEFINE From(r) == {q \in S : r <= q}
           T == {From(r) : r \in S}
<1>1. IsFiniteSet(S)
  BY RunIdsAreOrdered, FS_Subset
<1>2. T \subseteq FiniteSubsetsOf(S) /\ T # {}
  <2>1. T \subseteq SUBSET S /\ T # {}
    OBVIOUS
  <2> QED
    BY <1>1, <2>1, FS_FiniteSubsetsOfFinite
<1>3. PICK U \in T : \A V \in T : ~ (<<V, U>> \in StrictSubsetOrdering(S))
  BY <1>1, <1>2, FS_StrictSubsetOrderingWellFounded, WFMin
<1>4. PICK r \in S : U = From(r)
  OBVIOUS
<1>5. ASSUME NEW q \in S, ~ (q <= r) PROVE FALSE
  <2>1. S \subseteq Nat /\ q \in S /\ r \in S
    BY <1>5, RunIdsAreOrdered
  <2>2. r < q
    BY <1>5, <2>1
  <2>3. From(q) \subseteq From(r)
    <3>1. ASSUME NEW x \in From(q) PROVE x \in S /\ r <= x
      BY <2>1, <2>2
    <3> QED
      BY <3>1
  <2>4. r \in From(r) /\ r \notin From(q)
    BY <2>1, <2>2
  <2>5. <<From(q), From(r)>> \in StrictSubsetOrdering(S)
    BY <2>3, <2>4 DEF StrictSubsetOrdering
  <2> QED
    BY <1>3, <1>4, <2>1, <2>5
<1> QED
  BY <1>5

\* Of some snapshots one is the latest.
LEMMA LatestSnapshot ==
  ASSUME NEW n \in Nat, NEW S \in SUBSET (1 .. n), S # {}
  PROVE  \E i \in S : \A j \in S : j <= i
<1> DEFINE T == {n - i : i \in S}
<1>1. T \subseteq Nat /\ T # {}
  <2>1. ASSUME NEW i \in S
        PROVE  n - i \in Nat
    OBVIOUS
  <2>2. PICK i \in S : TRUE
    OBVIOUS
  <2>3. n - i \in T
    BY <2>2
  <2> QED
    BY <2>1, <2>3
<1>2. PICK m \in T : \A y \in T : ~ (<<y, m>> \in OpToRel(<, Nat))
  BY <1>1, NatLessThanWellFounded, WFMin
<1>3. \A y \in T : ~ (y < m)
  BY <1>1, <1>2 DEF OpToRel
<1>4. PICK i \in S : m = n - i
  OBVIOUS
<1>5. ASSUME NEW j \in S PROVE j <= i
  <2>1. n - j \in T
    OBVIOUS
  <2>2. ~ (n - j < n - i)
    BY <1>3, <1>4, <2>1
  <2> QED
    BY <2>2
<1> QED
  BY <1>5

\* What is read of the files are rows, of the head or of a fragment.
LEMMA MergedRow ==
  ASSUME NEW h \in Files, NEW f \in [RunIds -> Files],
         NEW ids \in SUBSET RunIds, NEW k \in Keys
  PROVE  LET holders == {r \in ids : f[r].rows[k] # NoRow}
         IN  \/ holders = {} /\ Merged(h, f, ids)[k] = h.rows[k]
             \/ \E r \in holders : /\ \A q \in holders : q <= r
                                   /\ Merged(h, f, ids)[k] = f[r].rows[k]
<1> DEFINE holders == {r \in ids : f[r].rows[k] # NoRow}
           last == CHOOSE r \in holders : \A q \in holders : q <= r
<1>1. CASE holders = {}
  BY <1>1 DEF Merged
<1>2. CASE holders # {}
  <2>1. holders \in SUBSET RunIds
    OBVIOUS
  <2>2. last \in holders /\ \A q \in holders : q <= last
    BY <1>2, <2>1, LastRunId
  <2>3. Merged(h, f, ids)[k] = f[last].rows[k]
    BY <1>2 DEF Merged
  <2> QED
    BY <2>2, <2>3
<1> QED
  BY <1>1, <1>2

LEMMA LastRowWins ==
  ASSUME NEW h \in Files, NEW f \in [RunIds -> Files],
         NEW ids \in SUBSET RunIds, NEW k \in Keys, {r \in ids : f[r].rows[k] # NoRow} # {}
  PROVE  \E r \in {r \in ids : f[r].rows[k] # NoRow} :
            /\ \A q \in {q \in ids : f[q].rows[k] # NoRow} : q <= r
            /\ Merged(h, f, ids)[k] = f[r].rows[k]
BY MergedRow

LEMMA MergedIsRows ==
  ASSUME NEW h \in Files, NEW f \in [RunIds -> Files],
         NEW ids \in SUBSET RunIds
  PROVE  Merged(h, f, ids) \in RowsOfKeys
<1>1. ASSUME NEW k \in Keys PROVE Merged(h, f, ids)[k] \in Rows \cup {NoRow}
  <2>1. h.rows[k] \in Rows \cup {NoRow} /\ \A r \in RunIds : f[r].rows[k] \in Rows \cup {NoRow}
    BY FileRows DEF RowsOfKeys
  <2> QED
    BY <2>1, MergedRow
<1>2. Merged(h, f, ids) = [k \in Keys |-> Merged(h, f, ids)[k]]
  BY DEF Merged
<1> QED
  BY <1>1, <1>2 DEF RowsOfKeys

LEMMA ReadingIsRows ==
  ASSUME TypeOK
  PROVE  Reading(head, frags) \in RowsOfKeys
BY MergedIsRows DEF TypeOK, Reading

\* What is carried forward judged this very text.
LEMMA CarriedFits ==
  ASSUME TypeOK, \A i \in 1 .. Len(snaps) : FitAll(snaps[i].verdicts, snaps[i].text), snaps # <<>>
  PROVE  LET s == Len(snaps)
         IN  s \in 1 .. Len(snaps) /\ Carried(s) \in RowsOfKeys /\ FitAll(Carried(s), snaps[s].text)
<1> DEFINE s == Len(snaps)
           from == CHOOSE i \in JudgedBefore(s) : \A j \in JudgedBefore(s) : j <= i
<1>1. s \in 1 .. Len(snaps) /\ snaps[s] \in SnapshotRecords
  BY DEF TypeOK
<1>2. snaps[s].verdicts \in RowsOfKeys /\ FitAll(snaps[s].verdicts, snaps[s].text)
  BY <1>1 DEF SnapshotRecords
<1>3. CASE JudgedBefore(s) = {}
  BY <1>1, <1>2, <1>3 DEF Carried
<1>4. CASE JudgedBefore(s) # {}
  <2>1. from \in JudgedBefore(s)
    <3>1. JudgedBefore(s) \in SUBSET (1 .. s) /\ s \in Nat
      BY <1>1 DEF JudgedBefore
    <3>2. \E i \in JudgedBefore(s) : \A j \in JudgedBefore(s) : j <= i
      BY <1>4, <3>1, LatestSnapshot
    <3> QED
      BY <3>2
  <2>2. snaps[from] \in SnapshotRecords /\ snaps[from].verdicts \in RowsOfKeys
    <3>1. from \in 1 .. Len(snaps)
      BY <1>1, <2>1 DEF JudgedBefore
    <3> QED
      BY <3>1, StoredSnapshot
  <2>3. ASSUME NEW k \in Keys
        PROVE  \/ Carried(s)[k] = snaps[s].verdicts[k]
               \/ /\ Carried(s)[k] = snaps[from].verdicts[k] /\ snaps[from].verdicts[k] # NoRow
                  /\ snaps[from].verdicts[k].excerpt = snaps[s].text[k]
    BY <1>4 DEF Carried
  <2>4. Carried(s) \in RowsOfKeys
    BY <1>2, <1>4, <2>2 DEF Carried, RowsOfKeys
  <2>5. ASSUME NEW k \in Keys, Carried(s)[k] # NoRow
        PROVE  Fits(Carried(s)[k].excerpt, snaps[s].text[k])
    <3>1. CASE Carried(s)[k] = snaps[s].verdicts[k]
      BY <1>2, <2>5, <3>1 DEF FitAll
    <3>2. CASE /\ Carried(s)[k] = snaps[from].verdicts[k] /\ snaps[from].verdicts[k] # NoRow
               /\ snaps[from].verdicts[k].excerpt = snaps[s].text[k]
      <4>1. snaps[s].text[k] \in Shown
        BY <2>2, <3>2, RowShown
      <4> QED
        BY <3>2, <4>1, TriageAssumption DEF Fits
    <3> QED
      BY <2>3, <3>1, <3>2
  <2> QED
    BY <1>1, <2>4, <2>5 DEF FitAll
<1> QED
  BY <1>3, <1>4

-----------------------------------------------------------------------------
(* The invariant is kept. *)

LEMMA IdleType ==
  /\ Idle \in RunRecords /\ Idle.step = "idle"
BY NoRowsFit DEF Idle, RunRecords, NoRows

\* A run that is over leaves only what is stored.
LEMMA RunIsOver ==
  ASSUME TriageInv, run' = Idle, UNCHANGED <<code, snaps, audited, head, attempts, folds>>,
         frags' \in [RunIds -> Files]
  PROVE  TriageInv'
<1>1. TypeOK'
  BY IdleType DEF TriageInv, TypeOK
<1> QED
  BY <1>1, IdleType DEF TriageInv, RunFits, PaidIsStored, ViewMatchesStore

\* What moves neither a snapshot nor the run breaks nothing.
LEMMA FilesMove ==
  ASSUME TriageInv, UNCHANGED <<snaps, run, attempts>>, folds' \in Nat,
         code' \in [Keys -> Excerpts \cup {Gone}], audited' \subseteq Keys, head' \in Files,
         frags' \in [RunIds -> Files]
  PROVE  TriageInv'
<1>1. TypeOK'
  BY DEF TriageInv, TypeOK
<1> QED
  BY <1>1 DEF TriageInv, RunFits, PaidIsStored, ViewMatchesStore

LEMMA SnapshotAdded ==
  ASSUME TriageInv, NEW found \in SUBSET Keys, snaps' = Append(snaps, Snapshot(found)),
         audited' \subseteq Keys, UNCHANGED <<code, head, frags, run, attempts, folds>>
  PROVE  TriageInv'
<1>1. Snapshot(found) \in SnapshotRecords /\ FitAll(Snapshot(found).verdicts, Snapshot(found).text)
  BY NoRowsFit DEF Snapshot, SnapshotRecords, TriageInv, TypeOK
<1>2. snaps \in Seq(SnapshotRecords)
  BY DEF TriageInv, TypeOK
<1>3. /\ snaps' \in Seq(SnapshotRecords) /\ Len(snaps') = Len(snaps) + 1
      /\ \A i \in 1 .. Len(snaps) : snaps'[i] = snaps[i]
      /\ snaps'[Len(snaps) + 1] = Snapshot(found)
  BY <1>1, <1>2
<1>4. TypeOK'
  BY <1>3 DEF TriageInv, TypeOK
<1>5. \A i \in 1 .. Len(snaps') : FitAll(snaps'[i].verdicts, snaps'[i].text)
  <2> TAKE i \in 1 .. Len(snaps')
  <2>1. CASE i = Len(snaps) + 1
    BY <1>1, <1>3, <2>1
  <2>2. CASE i \in 1 .. Len(snaps)
    BY <1>3, <2>2 DEF TriageInv
  <2> QED
    BY <1>2, <1>3, <2>1, <2>2
<1>6. run.step # "idle" => snaps'[run.snap] = snaps[run.snap] /\ run.snap \in 1 .. Len(snaps')
  BY <1>2, <1>3 DEF TriageInv, RunFits
<1>7. RunFits'
  BY <1>6 DEF TriageInv, RunFits
<1>8. PaidIsStored' /\ ViewMatchesStore'
  BY <1>6 DEF TriageInv, PaidIsStored, ViewMatchesStore
<1> QED
  BY <1>4, <1>5, <1>7, <1>8 DEF TriageInv

LEMMA InitHolds ==
  ASSUME Init
  PROVE  TriageInv
<1>1. (CHOOSE e \in Excerpts : TRUE) \in Excerpts
  <2>1. PICK t \in Texts : TRUE
    BY TriageAssumption
  <2>2. [own |-> t, context |-> t] \in Excerpts
    BY DEF Excerpts
  <2> QED
    BY <2>2
<1>2. TypeOK
  BY <1>1, IdleType, NoRowsFit, NoFileType, TriageAssumption DEF Init, TypeOK
<1> QED
  BY <1>2, IdleType DEF Init, TriageInv, RunFits, PaidIsStored, ViewMatchesStore

LEMMA EditHolds ==
  ASSUME TriageInv, NEW k \in Keys, Edit(k)
  PROVE  TriageInv'
<1>1. code[k] \in Excerpts \cup {Gone}
  BY DEF TriageInv, TypeOK
<1>2. Edited(code[k]) \subseteq Excerpts \cup {Gone}
  BY <1>1 DEF Edited, Excerpts
<1>3. code' \in [Keys -> Excerpts \cup {Gone}]
  BY <1>2 DEF Edit, TriageInv, TypeOK
<1> QED
  BY <1>3, FilesMove DEF Edit, files, db, TriageInv, TypeOK

LEMMA AuditHolds ==
  ASSUME TriageInv, Audit
  PROVE  TriageInv'
BY SnapshotAdded DEF Audit, files, counts

LEMMA IndexHolds ==
  ASSUME TriageInv, Index
  PROVE  TriageInv'
<1>1. audited' \subseteq Keys
  BY DEF Index, TriageInv, TypeOK
<1> QED
  BY <1>1, SnapshotAdded DEF Index, files, counts

LEMMA RebuildDbHolds ==
  ASSUME TriageInv, RebuildDb
  PROVE  TriageInv'
<1>1. TypeOK'
  BY DEF RebuildDb, files, counts, TriageInv, TypeOK
<1> QED
  BY <1>1, IdleType DEF RebuildDb, counts, files, TriageInv, RunFits, PaidIsStored, ViewMatchesStore

\* One snapshot gets other verdicts, of its own text.
LEMMA VerdictsStored ==
  ASSUME TypeOK, \A i \in 1 .. Len(snaps) : FitAll(snaps[i].verdicts, snaps[i].text),
         NEW s \in 1 .. Len(snaps), NEW rows \in RowsOfKeys, FitAll(rows, snaps[s].text),
         snaps' = [snaps EXCEPT ![s].verdicts = rows]
  PROVE  /\ snaps' \in Seq(SnapshotRecords) /\ Len(snaps') = Len(snaps)
         /\ snaps'[s].verdicts = rows
         /\ \A i \in 1 .. Len(snaps) : snaps'[i].text = snaps[i].text /\ snaps'[i].found = snaps[i].found
         /\ \A i \in 1 .. Len(snaps) : FitAll(snaps'[i].verdicts, snaps'[i].text)
<1>1. snaps \in Seq(SnapshotRecords) /\ snaps[s] \in SnapshotRecords
  BY DEF TypeOK
<1>2. [snaps[s] EXCEPT !.verdicts = rows] \in SnapshotRecords
  BY <1>1 DEF SnapshotRecords
<1>3. snaps' = [snaps EXCEPT ![s] = [snaps[s] EXCEPT !.verdicts = rows]]
  OBVIOUS
<1>4. /\ snaps' \in Seq(SnapshotRecords) /\ Len(snaps') = Len(snaps)
      /\ snaps'[s] = [snaps[s] EXCEPT !.verdicts = rows]
      /\ \A i \in 1 .. Len(snaps) : i # s => snaps'[i] = snaps[i]
  BY <1>1, <1>2, <1>3
<1>5. /\ snaps'[s].verdicts = rows /\ snaps'[s].text = snaps[s].text
      /\ snaps'[s].found = snaps[s].found
  BY <1>1, <1>4 DEF SnapshotRecords
<1>6. \A i \in 1 .. Len(snaps) : snaps'[i].text = snaps[i].text /\ snaps'[i].found = snaps[i].found
  BY <1>4, <1>5
<1>7. \A i \in 1 .. Len(snaps) : FitAll(snaps'[i].verdicts, snaps'[i].text)
  <2> TAKE i \in 1 .. Len(snaps)
  <2>1. CASE i = s
    BY <1>5, <2>1
  <2>2. CASE i # s
    BY <1>4, <2>2
  <2> QED
    BY <2>1, <2>2
<1> QED
  BY <1>4, <1>5, <1>6, <1>7

LEMMA PlanHolds ==
  ASSUME TriageInv, NEW id \in RunIds, Plan(id)
  PROVE  TriageInv'
<1> DEFINE s == Len(snaps)
           held == Carried(s)
<1>1. PICK selected \in SUBSET audited :
        LET seen == [k \in Keys |-> IF k \in selected THEN Seen(s, k) ELSE NoRow]
            reused == [k \in Keys |-> IF k \in selected /\ held[k] = NoRow
                                      THEN FileVerdict(k, seen[k]) ELSE NoRow]
            open == {k \in selected : held[k] = NoRow /\ reused[k] = NoRow /\ seen[k] # Unpinned}
        IN /\ snaps' = [snaps EXCEPT ![s].verdicts = held]
           /\ run' = [step |-> "read", id |-> id, snap |-> s, seen |-> seen, open |-> open,
                      records |-> NoRows, reused |-> reused, view |-> NoRows]
  BY DEF Plan
<1> DEFINE seen == [k \in Keys |-> IF k \in selected THEN Seen(s, k) ELSE NoRow]
           reused == [k \in Keys |-> IF k \in selected /\ held[k] = NoRow
                                     THEN FileVerdict(k, seen[k]) ELSE NoRow]
           open == {k \in selected : held[k] = NoRow /\ reused[k] = NoRow /\ seen[k] # Unpinned}
<1>2. /\ s \in 1 .. Len(snaps) /\ s \in Nat /\ held \in RowsOfKeys /\ FitAll(held, snaps[s].text)
      /\ TypeOK /\ selected \subseteq Keys
  BY CarriedFits DEF Plan, TriageInv, TypeOK
<1> HIDE DEF s, held
<1>3. ASSUME NEW k \in Keys
      PROVE  /\ seen[k] \in Shown \cup {NoRow, Unpinned}
             /\ seen[k] \in Shown /\ k \in selected => Fits(seen[k], snaps[s].text[k])
  BY <1>2, SeenFits
<1>4. Reading(head, frags) \in RowsOfKeys
  BY <1>2, ReadingIsRows
<1>5. ASSUME NEW k \in Keys, reused[k] # NoRow
      PROVE  /\ reused[k] \in Rows /\ k \in selected
             /\ seen[k] = reused[k].excerpt /\ seen[k] \in Shown
  BY <1>4, <1>5, RowShown DEF FileVerdict
<1>6. reused \in RowsOfKeys /\ FitAll(reused, snaps[s].text)
  BY <1>3, <1>5 DEF RowsOfKeys, FitAll
<1> HIDE DEF seen, reused
<1>7. /\ snaps' \in Seq(SnapshotRecords) /\ Len(snaps') = Len(snaps)
      /\ \A i \in 1 .. Len(snaps) : snaps'[i].text = snaps[i].text
      /\ \A i \in 1 .. Len(snaps) : FitAll(snaps'[i].verdicts, snaps'[i].text)
  BY <1>1, <1>2, VerdictsStored DEF TriageInv, s, held
<1>8. /\ run'.step = "read" /\ run'.id = id /\ run'.snap = s /\ run'.seen = seen /\ run'.open = open
      /\ run'.records = NoRows /\ run'.reused = reused /\ run'.view = NoRows
  BY <1>1 DEF seen, reused
<1>9. run' \in RunRecords
  <2>1. seen \in [Keys -> Shown \cup {NoRow, Unpinned}]
    BY <1>3 DEF seen
  <2> QED
    BY <1>1, <1>2, <1>6, <2>1, NoRowsFit DEF seen, reused, RunRecords
<1>10. TypeOK' /\ attempts' > 0
  BY <1>2, <1>7, <1>9, TriageAssumption DEF Plan, files, TypeOK
<1>11. \A k \in open : seen[k] \in Shown /\ Fits(seen[k], snaps[s].text[k]) /\ reused[k] = NoRow
  <2> TAKE k \in open
  <2>1. k \in Keys /\ k \in selected /\ seen[k] # Unpinned /\ reused[k] = NoRow
    BY <1>2
  <2>2. seen[k] \in Shown
    BY <1>2, <2>1, SeenFits DEF seen
  <2> QED
    BY <1>3, <2>1, <2>2
<1>12. RunFits'
  BY <1>2, <1>6, <1>7, <1>8, <1>11, NoRowsFit DEF RunFits, NoRows
<1> QED
  BY <1>7, <1>8, <1>10, <1>12 DEF TriageInv, PaidIsStored, ViewMatchesStore

LEMMA ReadHolds ==
  ASSUME TriageInv, Read
  PROVE  TriageInv'
<1> DEFINE answers(answered) ==
             [k \in Keys |-> IF k \in answered THEN [excerpt |-> run.seen[k], attempt |-> attempts] ELSE NoRow]
<1>1. PICK answered \in SUBSET run.open :
        run' = [run EXCEPT !.step = "save", !.records = answers(answered)]
  BY DEF Read
<1>2. /\ run \in RunRecords /\ run.step = "read" /\ attempts \in 1 .. MaxAttempts
      /\ UNCHANGED <<code, snaps, audited, head, frags, attempts, folds>>
  BY TriageAssumption DEF Read, TriageInv, TypeOK, db, files, counts
<1>3. \A k \in answered : k \in Keys /\ run.seen[k] \in Shown /\ Fits(run.seen[k], snaps[run.snap].text[k])
  BY <1>2 DEF TriageInv, RunFits, RunRecords
<1>4. answers(answered) \in RowsOfKeys /\ FitAll(answers(answered), snaps[run.snap].text)
  <2>1. \A k \in answered : [excerpt |-> run.seen[k], attempt |-> attempts] \in Rows
    BY <1>2, <1>3 DEF Rows
  <2> QED
    BY <1>3, <2>1 DEF RowsOfKeys, FitAll
<1>5. \A k \in Keys : answers(answered)[k] # NoRow => k \in run.open
  OBVIOUS
<1> HIDE DEF answers
<1>6. /\ run' \in RunRecords /\ run'.step = "save" /\ run'.records = answers(answered)
      /\ run'.id = run.id /\ run'.snap = run.snap /\ run'.seen = run.seen /\ run'.open = run.open
      /\ run'.reused = run.reused
  BY <1>1, <1>2, <1>4 DEF RunRecords
<1>7. TypeOK'
  BY <1>2, <1>6 DEF TriageInv, TypeOK
<1>8. RunFits'
  BY <1>2, <1>4, <1>5, <1>6 DEF TriageInv, RunFits
<1> QED
  BY <1>2, <1>6, <1>7, <1>8 DEF TriageInv, PaidIsStored, ViewMatchesStore

\* The rows of a run saved in its snapshot.
LEMMA RowsSaved ==
  ASSUME TriageInv, run.step # "idle", NEW rows \in RowsOfKeys,
         FitAll(rows, snaps[run.snap].text), snaps' = Save(rows)
  PROVE  /\ snaps' \in Seq(SnapshotRecords) /\ Len(snaps') = Len(snaps)
         /\ run.snap \in 1 .. Len(snaps)
         /\ \A k \in Keys : snaps'[run.snap].verdicts[k] =
                              IF rows[k] # NoRow THEN rows[k] ELSE snaps[run.snap].verdicts[k]
         /\ \A i \in 1 .. Len(snaps) : snaps'[i].text = snaps[i].text /\ snaps'[i].found = snaps[i].found
         /\ \A i \in 1 .. Len(snaps) : FitAll(snaps'[i].verdicts, snaps'[i].text)
<1> DEFINE over == Over(snaps[run.snap].verdicts, rows)
<1>1. run.snap \in 1 .. Len(snaps) /\ TypeOK
  BY DEF TriageInv, RunFits
<1>2. over \in RowsOfKeys /\ FitAll(over, snaps[run.snap].text)
      /\ \A k \in Keys : over[k] = IF rows[k] # NoRow THEN rows[k] ELSE snaps[run.snap].verdicts[k]
  BY <1>1, StoredSnapshot, OverIsRows, OverFits DEF TriageInv
<1>3. snaps' = [snaps EXCEPT ![run.snap].verdicts = over]
  BY DEF Save
<1> HIDE DEF over
<1> QED
  BY <1>1, <1>2, <1>3, VerdictsStored DEF TriageInv

LEMMA SaveJudgedHolds ==
  ASSUME TriageInv, SaveJudged
  PROVE  TriageInv'
<1>1. /\ run \in RunRecords /\ run.step = "save" /\ snaps' = Save(run.records)
      /\ UNCHANGED <<code, audited, head, frags, attempts, folds>>
      /\ run' = [run EXCEPT !.step = "save-reused"]
  BY DEF SaveJudged, TriageInv, TypeOK, files, counts
<1>2. run.records \in RowsOfKeys /\ FitAll(run.records, snaps[run.snap].text)
  BY <1>1 DEF RunRecords, TriageInv, RunFits
<1>3. /\ snaps' \in Seq(SnapshotRecords) /\ Len(snaps') = Len(snaps)
      /\ run.snap \in 1 .. Len(snaps)
      /\ \A k \in Keys : snaps'[run.snap].verdicts[k] =
                           IF run.records[k] # NoRow THEN run.records[k] ELSE snaps[run.snap].verdicts[k]
      /\ \A i \in 1 .. Len(snaps) : snaps'[i].text = snaps[i].text
      /\ \A i \in 1 .. Len(snaps) : FitAll(snaps'[i].verdicts, snaps'[i].text)
  BY <1>1, <1>2, RowsSaved
<1>4. /\ run' \in RunRecords /\ run'.step = "save-reused" /\ run'.records = run.records
      /\ run'.id = run.id /\ run'.snap = run.snap /\ run'.seen = run.seen /\ run'.open = run.open
      /\ run'.reused = run.reused
  BY <1>1 DEF RunRecords
<1>5. TypeOK'
  BY <1>1, <1>3, <1>4 DEF TriageInv, TypeOK
<1>6. RunFits'
  BY <1>1, <1>3, <1>4 DEF TriageInv, RunFits
<1>7. PaidIsStored'
  BY <1>3, <1>4 DEF PaidIsStored
<1> QED
  BY <1>3, <1>4, <1>5, <1>6, <1>7 DEF TriageInv, ViewMatchesStore

\* Read back from the snapshot, the run's view is what the snapshot holds.
LEMMA ViewIsStored ==
  ASSUME TriageInv, NEW stored, run.step = "save-reused",
         \A k \in Keys : stored[k] = IF run.reused[k] # NoRow THEN run.reused[k]
                                     ELSE snaps[run.snap].verdicts[k]
  PROVE  \A k \in Keys : /\ View(stored)[k] # NoRow => View(stored)[k] = stored[k]
                         /\ run.seen[k] # NoRow => View(stored)[k] = stored[k]
<1> TAKE k \in Keys
<1> DEFINE given == Over(run.records, run.reused)
<1>1. run.records \in RowsOfKeys /\ run.reused \in RowsOfKeys
  BY DEF TriageInv, TypeOK, RunRecords
<1>2. given[k] = IF run.reused[k] # NoRow THEN run.reused[k] ELSE run.records[k]
  BY <1>1, OverIsRows
<1>3. run.records[k] # NoRow => snaps[run.snap].verdicts[k] = run.records[k]
  BY DEF TriageInv, PaidIsStored
<1>4. given[k] # NoRow => given[k] = stored[k]
  BY <1>2, <1>3
<1> HIDE DEF given
<1> QED
  BY <1>4 DEF View, given

LEMMA SaveReusedHolds ==
  ASSUME TriageInv, SaveReused
  PROVE  TriageInv'
<1> DEFINE stored == snaps'[run.snap].verdicts
<1>1. /\ run \in RunRecords /\ run.step = "save-reused" /\ snaps' = Save(run.reused)
      /\ UNCHANGED <<code, audited, head, frags, attempts, folds>>
      /\ run' = [run EXCEPT !.step = "fragment", !.view = View(stored)]
  BY DEF SaveReused, TriageInv, TypeOK, files, counts
<1>2. run.reused \in RowsOfKeys /\ FitAll(run.reused, snaps[run.snap].text)
  BY <1>1 DEF RunRecords, TriageInv, RunFits
<1>3. /\ snaps' \in Seq(SnapshotRecords) /\ Len(snaps') = Len(snaps)
      /\ run.snap \in 1 .. Len(snaps)
      /\ \A k \in Keys : snaps'[run.snap].verdicts[k] =
                           IF run.reused[k] # NoRow THEN run.reused[k] ELSE snaps[run.snap].verdicts[k]
      /\ \A i \in 1 .. Len(snaps) : snaps'[i].text = snaps[i].text
      /\ \A i \in 1 .. Len(snaps) : FitAll(snaps'[i].verdicts, snaps'[i].text)
  BY <1>1, <1>2, RowsSaved
<1>4. \A k \in Keys : /\ View(stored)[k] # NoRow => View(stored)[k] = stored[k]
                      /\ run.seen[k] # NoRow => View(stored)[k] = stored[k]
  BY <1>1, <1>3, ViewIsStored
<1>5. View(stored) \in RowsOfKeys
  <2>1. stored \in RowsOfKeys
    <3>1. snaps'[run.snap] \in SnapshotRecords
      BY <1>3
    <3> QED
      BY <3>1 DEF SnapshotRecords
  <2>2. \A k \in Keys : View(stored)[k] \in Rows \cup {NoRow}
    BY <1>4, <2>1 DEF RowsOfKeys
  <2>3. View(stored) = [k \in Keys |-> View(stored)[k]]
    BY DEF View
  <2> QED
    BY <2>2, <2>3 DEF RowsOfKeys
<1> HIDE DEF stored
<1>6. /\ run' \in RunRecords /\ run'.step = "fragment" /\ run'.records = run.records
      /\ run'.id = run.id /\ run'.snap = run.snap /\ run'.seen = run.seen /\ run'.open = run.open
      /\ run'.reused = run.reused /\ run'.view = View(stored)
  BY <1>1, <1>5 DEF RunRecords
<1>7. TypeOK'
  BY <1>1, <1>3, <1>6 DEF TriageInv, TypeOK
<1>8. RunFits'
  BY <1>1, <1>3, <1>6 DEF TriageInv, RunFits
<1>9. PaidIsStored'
  <2>1. \A k \in Keys : run.records[k] # NoRow => run.reused[k] = NoRow
    BY <1>1 DEF TriageInv, RunFits
  <2> QED
    BY <1>1, <1>3, <1>6, <2>1 DEF TriageInv, PaidIsStored
<1>10. ViewMatchesStore'
  BY <1>4, <1>6 DEF ViewMatchesStore, stored
<1> QED
  BY <1>3, <1>6, <1>7, <1>8, <1>9, <1>10 DEF TriageInv

\* Fragments that some of the rows were written to.
LEMMA FragmentType ==
  ASSUME TypeOK, NEW r \in RunIds, NEW file \in Files
  PROVE  /\ [frags EXCEPT ![r] = file] \in [RunIds -> Files]
         /\ frags[r] \in Files /\ frags[r].rows \in RowsOfKeys
BY FileRows DEF TypeOK

LEMMA WriteFragmentHolds ==
  ASSUME TriageInv, WriteFragment
  PROVE  TriageInv'
<1>1. /\ run \in RunRecords /\ run.step = "fragment"
      /\ UNCHANGED <<code, snaps, audited, head, attempts, folds>>
      /\ run' = [run EXCEPT !.step = "outputs"]
  BY DEF WriteFragment, TriageInv, TypeOK, files, db, counts
<1>2. /\ run' \in RunRecords /\ run'.step = "outputs" /\ run'.records = run.records
      /\ run'.id = run.id /\ run'.snap = run.snap /\ run'.seen = run.seen /\ run'.open = run.open
      /\ run'.reused = run.reused /\ run'.view = run.view
  BY <1>1 DEF RunRecords
<1>3. frags' \in [RunIds -> Files]
  <2>1. run.id \in RunIds /\ run.records \in RowsOfKeys /\ TypeOK
    BY <1>1 DEF TriageInv, RunFits, RunRecords
  <2>2. Over(frags[run.id].rows, run.records) \in RowsOfKeys
    BY <2>1, NoFileType, FragmentType, OverIsRows
  <2>3. \/ frags' = frags
        \/ frags' = [frags EXCEPT ![run.id] = Written(Over(frags[run.id].rows, run.records))]
    BY DEF WriteFragment, files
  <2> QED
    BY <2>1, <2>2, <2>3, WrittenType, FragmentType DEF TypeOK
<1>4. TypeOK'
  BY <1>1, <1>2, <1>3 DEF TriageInv, TypeOK
<1>5. RunFits'
  BY <1>1, <1>2 DEF TriageInv, RunFits
<1>6. PaidIsStored' /\ ViewMatchesStore'
  BY <1>1, <1>2 DEF TriageInv, PaidIsStored, ViewMatchesStore
<1> QED
  BY <1>1, <1>2, <1>4, <1>5, <1>6 DEF TriageInv

LEMMA CutFragmentHolds ==
  ASSUME TriageInv, CutFragment
  PROVE  TriageInv'
<1>1. PICK left \in CutFiles(Over(frags[run.id].rows, run.records)) : frags' = [frags EXCEPT ![run.id] = left]
  BY DEF CutFragment
<1>2. run.id \in RunIds /\ run.records \in RowsOfKeys /\ TypeOK
  BY DEF CutFragment, TriageInv, RunFits, TypeOK, RunRecords
<1>3. Over(frags[run.id].rows, run.records) \in RowsOfKeys
  BY <1>2, NoFileType, FragmentType, OverIsRows
<1>4. left \in Files
  BY <1>3, CutType
<1>5. frags' \in [RunIds -> Files]
  BY <1>1, <1>2, <1>4, FragmentType
<1> QED
  BY <1>5, RunIsOver DEF CutFragment, db, counts

\* However else a run ends, the fragments stay.
LEMMA EndHolds ==
  ASSUME TriageInv, RejectReused \/ RefuseFragment \/ WriteOutputs \/ Crash
  PROVE  TriageInv'
<1>1. run' = Idle /\ UNCHANGED <<code, snaps, audited, head, frags, attempts, folds>>
  BY DEF RejectReused, RefuseFragment, WriteOutputs, Crash, db, files, counts
<1>2. frags' \in [RunIds -> Files]
  BY <1>1 DEF TriageInv, TypeOK
<1> QED
  BY <1>1, <1>2, RunIsOver

\* What the fold would write are rows.
LEMMA FoldedRows ==
  ASSUME TypeOK, NEW present
  PROVE  FoldedHead(head, frags, present) \in RowsOfKeys
<1>1. Merged(head, frags, Absorbed(frags)) \in RowsOfKeys
  BY MergedIsRows DEF TypeOK, Absorbed
<1> QED
  BY <1>1 DEF FoldedHead, RowsOfKeys

LEMMA FoldHolds ==
  ASSUME TriageInv, Fold
  PROVE  TriageInv'
<1>1. TypeOK
  BY DEF TriageInv
<1>2. head' \in Files
  <2>1. PICK present \in AnchorSets : head' = Written(FoldedHead(head, frags, present))
    BY DEF Fold
  <2> QED
    BY <1>1, <2>1, FoldedRows, WrittenType
<1>3. frags' \in [RunIds -> Files]
  <2>1. \A ids : Emptied(frags, ids) \in [RunIds -> Files]
    BY <1>1, NoFileType DEF Emptied, TypeOK
  <2> QED
    BY <2>1 DEF Fold
<1> QED
  BY <1>1, <1>2, <1>3, FilesMove DEF Fold, CanFold, db, TypeOK

LEMMA CutHeadHolds ==
  ASSUME TriageInv, CutHead
  PROVE  TriageInv'
<1>1. TypeOK
  BY DEF TriageInv
<1>2. head' \in Files
  <2>1. PICK present \in AnchorSets : head' \in CutFiles(FoldedHead(head, frags, present))
    BY DEF CutHead
  <2> QED
    BY <1>1, <2>1, FoldedRows, CutType
<1> QED
  BY <1>1, <1>2, FilesMove DEF CutHead, CanFold, db, TypeOK

LEMMA MendHolds ==
  ASSUME TriageInv, NEW r \in RunIds, Mend(r)
  PROVE  TriageInv'
<1>1. frags' \in [RunIds -> Files]
  BY FileRows DEF Mend, TriageInv, TypeOK
<1> QED
  BY <1>1, FilesMove DEF Mend, db, counts, TriageInv, TypeOK

LEMMA MendHeadHolds ==
  ASSUME TriageInv, MendHead
  PROVE  TriageInv'
<1>1. head' \in Files
  BY FileRows DEF MendHead, TriageInv, TypeOK
<1> QED
  BY <1>1, FilesMove DEF MendHead, db, counts, TriageInv, TypeOK

LEMMA StutterHolds ==
  ASSUME TriageInv, UNCHANGED vars
  PROVE  TriageInv'
<1>1. UNCHANGED <<code, snaps, audited, head, frags, run, attempts, folds>>
  BY DEF vars, db, files, counts
<1> QED
  BY <1>1, FilesMove DEF TriageInv, TypeOK

\* However audits, re-indexes, edits, runs, crashes and merges come between one
\* another: verdicts in graph.db fit the code of their snapshot, what a run under
\* way knows fits the snapshot it was planned on, and past its first save what it
\* paid for is stored (triage.ts, triage-plan.ts, triage-persist.ts).
THEOREM TriageInvariant == Spec => []TriageInv
<1>1. Init => TriageInv
  BY InitHolds
<1>2. TriageInv /\ [Next]_vars => TriageInv'
  <2> SUFFICES ASSUME TriageInv, [Next]_vars PROVE TriageInv'
    OBVIOUS
  <2> QED
    BY EditHolds, AuditHolds, IndexHolds, RebuildDbHolds, PlanHolds, MendHolds, ReadHolds, SaveJudgedHolds,
       SaveReusedHolds, EndHolds, WriteFragmentHolds, CutFragmentHolds, FoldHolds, CutHeadHolds, MendHeadHolds,
       StutterHolds DEF Next
<1> QED
  BY <1>1, <1>2, PTL DEF Spec

-----------------------------------------------------------------------------
(* What the runs check, for every instance. *)

\* A verdict stands in snapshots, and in what a run reads back, only for the
\* code it judged.
THEOREM VerdictsFit == Spec => []VerdictsAreOfThisCode
<1>1. TriageInv => VerdictsAreOfThisCode
  <2> SUFFICES ASSUME TriageInv PROVE VerdictsFitSnapshot
    BY DEF TriageInv, VerdictsAreOfThisCode
  <2>1. DOMAIN snaps = 1 .. Len(snaps)
    BY DEF TriageInv, TypeOK
  <2> QED
    BY <2>1 DEF VerdictsFitSnapshot, Holds, TriageInv, FitAll, Fits
<1> QED
  BY <1>1, TriageInvariant, PTL

\* However a run ends past its first save, what it paid for is in graph.db.
THEOREM PaidSurvives == Spec => PaidVerdictsSurvive
<1> DEFINE P == (run # Idle /\ run' = Idle /\ run.step \notin {"read", "save"}) =>
                  \A k \in Holds(run.records) : snaps'[run.snap].verdicts[k] = run.records[k]
<1>1. TriageInv /\ [Next]_vars => [P]_vars
  <2> SUFFICES ASSUME TriageInv, Next, run # Idle, run' = Idle, run.step \notin {"read", "save"},
                      NEW k \in Holds(run.records)
               PROVE  snaps'[run.snap].verdicts[k] = run.records[k]
    OBVIOUS
  <2>1. run.step # "idle" /\ run'.step = "idle"
    BY IdleType DEF TriageInv, RunFits
  <2>2. UNCHANGED snaps
    <3>1. CASE (\E j \in Keys : Edit(j)) \/ Audit \/ Index \/ RebuildDb \/ Fold \/ CutHead \/ MendHead
      BY <3>1 DEF Edit, Audit, Index, RebuildDb, Fold, CutHead, MendHead
    <3>2. CASE \E r \in RunIds : Plan(r) \/ Mend(r)
      BY <3>2 DEF Plan, Mend
    <3>3. CASE Read \/ SaveJudged \/ SaveReused
      BY <2>1, <3>3 DEF Read, SaveJudged, SaveReused, TriageInv, TypeOK, RunRecords
    <3>4. CASE RejectReused \/ WriteFragment \/ RefuseFragment \/ CutFragment \/ WriteOutputs \/ Crash
      BY <3>4 DEF RejectReused, WriteFragment, RefuseFragment, CutFragment, WriteOutputs, Crash, db
    <3> QED
      BY <3>1, <3>2, <3>3, <3>4 DEF Next
  <2>3. run.step \in {"save-reused", "fragment", "outputs"}
    BY <2>1 DEF TriageInv, TypeOK, RunRecords
  <2> QED
    BY <2>2, <2>3 DEF TriageInv, PaidIsStored, Holds
<1> QED
  BY <1>1, TriageInvariant, PTL DEF Spec, PaidVerdictsSurvive

\* A finding is read as judged exactly when the head or a fragment has a row.
LEMMA ReadIffHeld ==
  ASSUME NEW h \in Files, NEW f \in [RunIds -> Files],
         NEW ids \in SUBSET RunIds, NEW k \in Keys
  PROVE  /\ Merged(h, f, ids)[k] # NoRow <=>
              (h.rows[k] # NoRow \/ \E r \in ids : f[r].rows[k] # NoRow)
BY MergedRow

\* Whatever is done to the files, short of a death inside a write and a fold
\* that drops the key, a key in the head stays there and one in a fragment stays
\* or goes to the head.
LEMMA KeysKept ==
  ASSUME TriageInv, [Next]_vars, ~ CutFragment, ~ CutHead, ~ Fold, NEW k \in Keys
  PROVE  /\ InHead(k) => InHead(k)'
         /\ \A r \in RunIds : InFragment(r, k) => InFragment(r, k)'
<1> USE DEF InHead, InFragment
<1>1. CASE WriteFragment
  <2>1. /\ run.id \in RunIds /\ run.records \in RowsOfKeys /\ TypeOK
        /\ frags[run.id].rows \in RowsOfKeys
    BY <1>1, NoFileType, FragmentType DEF WriteFragment, TriageInv, RunFits, TypeOK, RunRecords
  <2> DEFINE rows == Over(frags[run.id].rows, run.records)
  <2>2. /\ rows \in RowsOfKeys
        /\ \A j \in Keys : rows[j] = IF run.records[j] # NoRow THEN run.records[j] ELSE frags[run.id].rows[j]
    BY <2>1, OverIsRows
  <2>3. Written(rows).rows = rows
    BY <2>2, WrittenType
  <2>4. head' = head /\ (frags' = frags \/ frags' = [frags EXCEPT ![run.id] = Written(rows)])
    BY <1>1 DEF WriteFragment, files
  <2> HIDE DEF rows
  <2> QED
    BY <2>1, <2>2, <2>3, <2>4 DEF TypeOK
<1>2. CASE \E r \in RunIds : Mend(r)
  BY <1>2 DEF Mend, TriageInv, TypeOK, Files
<1>3. CASE MendHead
  BY <1>3 DEF MendHead, TriageInv, TypeOK, Files
<1>4. CASE UNCHANGED vars
  BY <1>4 DEF vars, files
<1>5. CASE \/ \E j \in Keys : Edit(j)
           \/ Audit \/ Index \/ RebuildDb \/ \E r \in RunIds : Plan(r)
           \/ Read \/ SaveJudged \/ SaveReused \/ RejectReused \/ RefuseFragment \/ WriteOutputs \/ Crash
  BY <1>5 DEF Edit, Audit, Index, RebuildDb, Plan, Read, SaveJudged, SaveReused, RejectReused,
              RefuseFragment, WriteOutputs, Crash, files
<1> QED
  BY <1>1, <1>2, <1>3, <1>4, <1>5 DEF Next

\* A reader gets a key's verdict exactly when some file holds one.
LEMMA ReadIffInFiles ==
  ASSUME TypeOK, NEW k \in Keys
  PROVE  Reading(head, frags)[k] # NoRow <=> (InHead(k) \/ \E r \in RunIds : InFragment(r, k))
BY ReadIffHeld DEF Reading, InHead, InFragment, TypeOK

\* A fold takes up a row before it drops it, and leaves what it does not take.
LEMMA FoldKeeps ==
  ASSUME TriageInv, Fold, NEW k \in Keys, Anchored(k),
         InHead(k) \/ \E r \in RunIds : InFragment(r, k)
  PROVE  (InHead(k) \/ \E r \in RunIds : InFragment(r, k))'
<1>1. PICK present \in AnchorSets : head' = Written(FoldedHead(head, frags, present))
  BY DEF Fold
<1>2. PICK n \in RunIds \cup {0} : frags' = Emptied(frags, {r \in Absorbed(frags) : r <= n})
  BY DEF Fold
<1>3. k \in present
  BY <1>1 DEF Anchored, AnchorSets
<1>4. TypeOK /\ Absorbed(frags) \in SUBSET RunIds
  BY DEF TriageInv, Absorbed
<1>5. CASE InHead(k) \/ \E r \in Absorbed(frags) : InFragment(r, k)
  <2>1. FoldedHead(head, frags, present)[k] # NoRow
    BY <1>3, <1>4, <1>5, ReadIffHeld DEF FoldedHead, TypeOK, InHead, InFragment
  <2>2. head'.rows = FoldedHead(head, frags, present)
    BY <1>1, <1>4, FoldedRows, WrittenType
  <2> QED
    BY <2>1, <2>2 DEF InHead
<1>6. CASE \E r \in RunIds \ Absorbed(frags) : InFragment(r, k)
  <2>1. PICK r \in RunIds \ Absorbed(frags) : InFragment(r, k)
    BY <1>6
  <2>2. frags'[r] = frags[r]
    BY <1>2, <2>1 DEF Emptied
  <2> QED
    BY <2>1, <2>2 DEF InFragment
<1> QED
  BY <1>4, <1>5, <1>6

\* No run, retry, fold or death takes a finding's verdict from a reader, but a
\* fold over an anchor that is gone and a death inside the write of the one file
\* that held it: a fold that dies anywhere takes none that a fragment held.
THEOREM VerdictsStayRead == Spec => NothingForgotten
<1> DEFINE P == files' # files => \A k \in Keys :
                  Reading(head, frags)[k] # NoRow =>
                    \/ Reading(head, frags)'[k] # NoRow
                    \/ Fold /\ ~ Anchored(k)
                    \/ WasUnderThePen(k)
<1>1. TriageInv /\ TriageInv' /\ [Next]_vars => [P]_vars
  <2> SUFFICES ASSUME TriageInv, TriageInv', Next, NEW k \in Keys,
                      Reading(head, frags)[k] # NoRow, ~ (Fold /\ ~ Anchored(k)), ~ WasUnderThePen(k)
               PROVE  Reading(head, frags)'[k] # NoRow
    OBVIOUS
  <2>1. InHead(k) \/ \E r \in RunIds : InFragment(r, k)
    BY ReadIffInFiles DEF TriageInv
  <2>2. (InHead(k) \/ \E r \in RunIds : InFragment(r, k))'
    <3>1. CASE Fold
      BY <2>1, <3>1, FoldKeeps
    <3>2. CASE CutHead
      BY <2>1, <3>2 DEF WasUnderThePen, CutHead, InFragment
    <3>3. CASE CutFragment
      <4>1. PICK left : frags' = [frags EXCEPT ![run.id] = left]
        BY <3>3 DEF CutFragment
      <4>2. head' = head /\ \A r \in RunIds \ {run.id} : frags'[r] = frags[r]
        BY <3>3, <4>1 DEF CutFragment, TriageInv, TypeOK
      <4>3. InHead(k) \/ \E r \in RunIds \ {run.id} : InFragment(r, k)
        BY <3>3 DEF WasUnderThePen
      <4> QED
        BY <4>2, <4>3 DEF InHead, InFragment
    <3>4. CASE ~ CutFragment /\ ~ CutHead /\ ~ Fold
      BY <2>1, <3>4, KeysKept
    <3> QED
      BY <3>1, <3>2, <3>3, <3>4
  <2>3. TypeOK'
    BY DEF TriageInv
  <2> QED
    BY <2>2, <2>3, ReadIffHeld DEF Reading, InHead, InFragment, TypeOK
<1> QED
  BY <1>1, TriageInvariant, PTL DEF Spec, NothingForgotten

\* Of the same rows, the same one is read.
LEMMA SameRowRead ==
  ASSUME NEW h \in Files, NEW f \in [RunIds -> Files], NEW ids \in SUBSET RunIds,
         NEW h2 \in Files, NEW f2 \in [RunIds -> Files], NEW ids2 \in SUBSET RunIds,
         NEW k \in Keys, {r \in ids : f[r].rows[k] # NoRow} # {},
         {r \in ids : f[r].rows[k] # NoRow} = {r \in ids2 : f2[r].rows[k] # NoRow},
         \A r \in RunIds : f[r].rows[k] = f2[r].rows[k]
  PROVE  Merged(h, f, ids)[k] = Merged(h2, f2, ids2)[k]
<1> DEFINE holders == {r \in ids : f[r].rows[k] # NoRow}
           holders2 == {r \in ids2 : f2[r].rows[k] # NoRow}
<1>1. PICK m \in holders : (\A q \in holders : q <= m) /\ Merged(h, f, ids)[k] = f[m].rows[k]
  BY LastRowWins
<1>2. PICK n \in holders2 : (\A q \in holders2 : q <= n) /\ Merged(h2, f2, ids2)[k] = f2[n].rows[k]
  BY LastRowWins
<1>3. m \in Nat /\ n \in Nat /\ m <= n /\ n <= m
  BY <1>1, <1>2, RunIdsAreOrdered
<1>4. m = n
  BY <1>3
<1> QED
  BY <1>1, <1>2, <1>4

\* A fold with every file well formed.
LEMMA FoldKeepsRow ==
  ASSUME TriageInv, TriageInv', Fold, WellFormed, NEW k \in Keys, Anchored(k)
  PROVE  Reading(head, frags)'[k] = Reading(head, frags)[k]
<1> DEFINE taken == Absorbed(frags)
           holders == {r \in RunIds : frags[r].rows[k] # NoRow}
           left == {r \in RunIds : frags'[r].rows[k] # NoRow}
<1>1. PICK present \in AnchorSets : head' = Written(FoldedHead(head, frags, present))
  BY DEF Fold
<1>2. PICK n \in RunIds \cup {0} : frags' = Emptied(frags, {r \in taken : r <= n})
  BY DEF Fold
<1>3. n \in Nat /\ RunIds \subseteq Nat /\ taken \in SUBSET RunIds
  BY RunIdsAreOrdered DEF Absorbed
<1>4. TypeOK /\ TypeOK'
  BY DEF TriageInv
<1> head \in Files /\ frags \in [RunIds -> Files] /\ RunIds \in SUBSET RunIds
  BY <1>4 DEF TypeOK
<1>5. holders = {r \in taken : frags[r].rows[k] # NoRow}
  <2>1. ASSUME NEW r \in holders PROVE frags[r].there
    BY NoFileType DEF Files, NoRows
  <2> QED
    BY <2>1 DEF Absorbed, WellFormed
<1>6. head'.rows[k] = Reading(head, frags)[k]
  <2>1. head'.rows[k] = Merged(head, frags, taken)[k]
    <3>1. head'.rows = FoldedHead(head, frags, present)
      BY <1>1, <1>4, FoldedRows, WrittenType
    <3> QED
      BY <1>1, <3>1 DEF Anchored, AnchorSets, FoldedHead
  <2>2. Merged(head, frags, taken)[k] = Merged(head, frags, RunIds)[k]
    <3>1. CASE holders = {}
      BY <1>3, <1>5, <3>1, MergedRow
    <3>2. CASE holders # {}
      BY <1>3, <1>5, <3>2, SameRowRead
    <3> QED
      BY <3>1, <3>2
  <2> QED
    BY <2>1, <2>2 DEF Reading
<1>7. left = {r \in holders : ~ (r <= n)} /\ \A r \in left : frags'[r] = frags[r]
  BY <1>2, <1>5, NoFileType DEF Emptied, NoRows
<1>8. CASE left = {}
  BY <1>4, <1>6, <1>8, MergedRow DEF Reading, TypeOK
<1>9. CASE left # {}
  <2>1. PICK r \in left : (\A q \in left : q <= r) /\ Reading(head, frags)'[k] = frags'[r].rows[k]
    BY <1>4, <1>9, MergedRow DEF Reading, TypeOK
  <2>2. PICK m \in holders : (\A q \in holders : q <= m) /\ Reading(head, frags)[k] = frags[m].rows[k]
    <3>1. holders # {}
      BY <1>7, <1>9
    <3> QED
      BY <3>1, LastRowWins DEF Reading
  <2>3. r \in Nat /\ m \in Nat /\ r \in holders /\ ~ (r <= n)
    BY <1>3, <1>7, <2>1
  <2>4. r <= m /\ ~ (m <= n)
    BY <1>3, <2>2, <2>3
  <2>5. m <= r
    BY <1>7, <2>1, <2>2, <2>4
  <2>6. r = m
    BY <2>3, <2>4, <2>5
  <2> QED
    BY <1>7, <2>1, <2>2, <2>6
<1> QED
  BY <1>8, <1>9

\* With every file well formed, a fold changes no verdict a reader gets, finished
\* or cut short between two files; one that dies inside the write of the head
\* changes none that a fragment holds.
THEOREM CleanFoldIsSilent == Spec => CleanFoldKeepsReading
<1> DEFINE P == (folds' # folds /\ WellFormed) =>
                  \A k \in Keys :
                    (Anchored(k) /\ (Fold \/ (CutHead /\ \E r \in RunIds : InFragment(r, k))))
                      => Reading(head, frags)'[k] = Reading(head, frags)[k]
<1>1. TriageInv /\ TriageInv' /\ [Next]_vars => [P]_vars
  <2> SUFFICES ASSUME TriageInv, TriageInv', WellFormed, NEW k \in Keys, Anchored(k),
                      Fold \/ (CutHead /\ \E r \in RunIds : InFragment(r, k))
               PROVE  Reading(head, frags)'[k] = Reading(head, frags)[k]
    OBVIOUS
  <2>1. CASE Fold
    BY <2>1, FoldKeepsRow
  <2>2. CASE CutHead /\ \E r \in RunIds : InFragment(r, k)
    <3>1. TypeOK /\ TypeOK' /\ frags' = frags
      BY <2>2 DEF TriageInv, CutHead
    <3>2. {r \in RunIds : frags[r].rows[k] # NoRow} # {}
      BY <2>2 DEF InFragment
    <3>3. Merged(head, frags, RunIds)[k] = Merged(head', frags', RunIds)[k]
      BY <3>1, <3>2, SameRowRead DEF TypeOK
    <3> QED
      BY <3>3 DEF Reading
  <2> QED
    BY <2>1, <2>2
<1> QED
  BY <1>1, TriageInvariant, PTL DEF Spec, CleanFoldKeepsReading
=============================================================================
