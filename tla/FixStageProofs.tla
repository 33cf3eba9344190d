---------------------------- MODULE FixStageProofs ----------------------------
(* For any number of items, causes and length of a run of reverts.             *)
EXTENDS FixStage, SequenceTheorems, TLAPS

Checks == {"tests", "graph-check", "gate", "review"}
Statuses == {"kept", "reverted", "unchanged", "not-started", "time limit"}
Working == {"ask", "asked", "validate", "gate", "review", "revert", "keep"}
Steps == Working \cup Over \cup {"next", "land", "landed", "drop", "recover", "restore", "restored"}

Records == [item : Items, status : Statuses, cause : Causes \cup {NoCause}, passed : SUBSET Checks]

TypeOK ==
  /\ kind \in [Items -> {"test gap", "quality"}]
  /\ branchOf \in [Items -> 0 .. N] /\ gateRuns \in BOOLEAN
  /\ step \in Steps /\ asked \in {"item", "retry", "conflict"} /\ late \in BOOLEAN
  /\ stopped \in {NoCause, "time limit", "same cause"}
  /\ records \in Seq(Records)
  /\ \A i \in 1 .. Len(records) : records[i].item = i
  /\ on \in 0 .. N /\ base \in Trees /\ head \in Trees /\ dirty \subseteq {"edit", "litter"}
  /\ kept \in Trees /\ current \in Trees \cup {NoSnapshot} /\ stale \in BOOLEAN
  /\ after \in Trees \cup {NoSnapshot}
  /\ cause \in Causes \cup {NoCause} /\ passed \subseteq Checks
  /\ backup \in {"whole", "partial", "gone"}

\* The branch checked out is the PR branch or one item's own.
OnBranch(i) == on = branchOf[i] /\ base = IF on = BASE THEN head ELSE kept
Steady == on = BASE /\ head = base
SnapshotIsFresh == ~ stale => current \in {head, NoSnapshot}

\* Between two items, unless the clock cut one off.
BetweenItems ==
  step = "next" =>
    /\ kept = Kept
    /\ stopped # "time limit" => Steady /\ base = kept /\ SnapshotIsFresh

PassedSoFar ==
  LET quality == kind[item] = "quality"
  IN  /\ step = "gate" => ~ quality /\ "tests" \in passed
      /\ step \in {"review", "keep"} => {"tests", IF quality THEN "graph-check" ELSE "gate"} \subseteq passed
      /\ step = "keep" => "review" \in passed

\* An item under way.
AtWork ==
  step \in Working =>
    /\ item \in Items /\ stopped = NoCause
    /\ kept = Kept /\ OnBranch(item)
    /\ head = IF step \in {"ask", "asked"} /\ asked = "item" THEN kept ELSE kept \cup {item}
    /\ ~ stale => current \in {kept, NoSnapshot}
    /\ kind[item] = "quality" => /\ current = kept /\ ~ stale
                                 /\ step \in {"review", "keep"} => after = head
    /\ PassedSoFar

\* An item done, its branch not left; then left, but kept_head not moved.
Landing ==
  /\ step \in {"land", "landed"} => records # <<>> /\ SnapshotIsFresh
  /\ step = "land" =>
       /\ OnBranch(Len(records))
       /\ head = kept \cup (IF LastRecord.status = "kept" THEN {Len(records)} ELSE {})
       /\ Kept = head /\ Len(records) \notin kept
  /\ step = "landed" =>
       /\ Steady /\ base = Kept /\ Len(records) \notin kept
       /\ Kept = kept \cup (IF LastRecord.status = "kept" THEN {Len(records)} ELSE {})

AtEnd ==
  /\ step \in {"drop", "ended"} => Steady /\ base = kept /\ kept = Kept
  /\ step \in {"restored", "raised"} => Steady /\ base \in {kept, {}}
  /\ step \notin Over => backup = "whole"
  /\ backup # "whole" => Steady /\ base \in {kept, {}}

\* SAME_CAUSE_STOP reverts for one cause that end with record i.
SameCause(i) ==
  \A d \in 0 .. SAME_CAUSE_STOP - 1 :
    i > d /\ records[i - d].status = "reverted" /\ records[i - d].cause = records[i].cause
StopsEarly ==
  \A i \in 1 .. Len(records) :
    SameCause(i) => stopped # NoCause /\ \A j \in i + 1 .. Len(records) : records[j].status = "not-started"

KeptEarlier == \A i \in kept : i <= Len(records)

FixInv ==
  /\ TypeOK /\ BetweenItems /\ AtWork /\ Landing /\ AtEnd /\ StopsEarly
  /\ KeptEarlier /\ KeptItemsChecked

-----------------------------------------------------------------------------
(* What a new record changes. *)

\* Kept items are the places of the records that say so.
LEMMA KeptByPlace ==
  ASSUME records \in Seq(Records), \A i \in 1 .. Len(records) : records[i].item = i
  PROVE  Kept = {i \in 1 .. Len(records) : records[i].status = "kept"}
BY DEF Kept

LEMMA ItemType ==
  ASSUME TypeOK
  PROVE  /\ Len(records) \in Nat /\ item = Len(records) + 1 /\ N \in Nat
         /\ item <= N => item \in Items
<1>1. records \in Seq(Records)
  BY DEF TypeOK
<1>2. Len(records) \in Nat /\ N \in Nat
  BY <1>1, FixAssumption
<1> QED
  BY <1>2 DEF item, Items

LEMMA RecordAdded ==
  ASSUME TypeOK, item \in Items, NEW r \in Records, r.item = item, records' = Append(records, r)
  PROVE  /\ records' \in Seq(Records) /\ Len(records') = Len(records) + 1
         /\ \A i \in 1 .. Len(records) : records'[i] = records[i]
         /\ records'[Len(records')] = r
         /\ \A i \in 1 .. Len(records') : records'[i].item = i
         /\ Kept' = Kept \cup (IF r.status = "kept" THEN {item} ELSE {})
         /\ Kept \subseteq 1 .. Len(records)
<1>1. records \in Seq(Records) /\ \A i \in 1 .. Len(records) : records[i].item = i
  BY DEF TypeOK
<1>2. /\ records' \in Seq(Records) /\ Len(records') = Len(records) + 1
      /\ \A i \in 1 .. Len(records) : records'[i] = records[i]
      /\ records'[Len(records')] = r
  BY <1>1
<1>3. \A i \in 1 .. Len(records') : records'[i].item = i
  BY <1>1, <1>2 DEF item
<1>4. Kept = {i \in 1 .. Len(records) : records[i].status = "kept"}
  BY <1>1, KeptByPlace
<1>5. Kept' = {i \in 1 .. Len(records') : records'[i].status = "kept"}
  BY <1>2, <1>3 DEF Kept
<1>6. Kept' = Kept \cup (IF r.status = "kept" THEN {item} ELSE {})
  BY <1>1, <1>2, <1>4, <1>5 DEF item
<1> QED
  BY <1>2, <1>3, <1>4, <1>6

\* A stop reason stays, and a run of reverts for one cause gives one.
LEMMA StillStops ==
  ASSUME FixInv, item \in Items, NEW r \in Records, r.item = item, records' = Append(records, r),
         stopped # NoCause => stopped' # NoCause /\ r.status = "not-started",
         r.status = "reverted" /\ RepeatedCause(records') => stopped' # NoCause
  PROVE  StopsEarly'
<1>1. /\ records \in Seq(Records) /\ records' \in Seq(Records) /\ Len(records') = Len(records) + 1
      /\ \A i \in 1 .. Len(records) : records'[i] = records[i]
      /\ records'[Len(records')] = r
  BY RecordAdded DEF FixInv
<1>2. SAME_CAUSE_STOP \in Nat \ {0}
  BY FixAssumption
<1>3. ASSUME NEW i \in 1 .. Len(records'), SameCause(i)'
      PROVE  stopped' # NoCause /\ \A j \in i + 1 .. Len(records') : records'[j].status = "not-started"
  <2>1. \A d \in 0 .. SAME_CAUSE_STOP - 1 :
          i > d /\ records'[i - d].status = "reverted" /\ records'[i - d].cause = records'[i].cause
    BY <1>3 DEF SameCause
  <2>2. CASE i = Len(records')
    <3>1. i - (SAME_CAUSE_STOP - 1) > 0 /\ r.status = "reverted"
      BY <1>1, <1>2, <2>1, <2>2
    <3>2. \A k \in Len(records') - SAME_CAUSE_STOP + 1 .. Len(records') :
            records'[k].status = "reverted" /\ records'[k].cause = records'[Len(records')].cause
      <4> TAKE k \in Len(records') - SAME_CAUSE_STOP + 1 .. Len(records')
      <4>1. i - k \in 0 .. SAME_CAUSE_STOP - 1 /\ i - (i - k) = k
        BY <1>1, <1>2, <2>2
      <4> QED
        BY <2>1, <2>2, <4>1
    <3>3. RepeatedCause(records')
      BY <1>1, <1>2, <2>2, <3>1, <3>2 DEF RepeatedCause
    <3> QED
      BY <1>1, <2>2, <3>1, <3>3
  <2>3. CASE i \in 1 .. Len(records)
    <3>1. SameCause(i)
      <4> SUFFICES ASSUME NEW d \in 0 .. SAME_CAUSE_STOP - 1
                   PROVE  i > d /\ records[i - d].status = "reverted" /\ records[i - d].cause = records[i].cause
        BY DEF SameCause
      <4>1. i > d /\ records'[i - d].status = "reverted" /\ records'[i - d].cause = records'[i].cause
        BY <2>1
      <4>2. i - d \in 1 .. Len(records)
        BY <1>1, <1>2, <2>3, <4>1
      <4> QED
        BY <1>1, <2>3, <4>1, <4>2
    <3>2. stopped # NoCause /\ \A j \in i + 1 .. Len(records) : records[j].status = "not-started"
      BY <2>3, <3>1 DEF FixInv, StopsEarly
    <3> QED
      BY <1>1, <2>3, <3>2
  <2> QED
    BY <1>1, <2>2, <2>3
<1> QED
  BY <1>3 DEF StopsEarly

\* Kept items stay checked, if the new one is.
LEMMA StillChecked ==
  ASSUME FixInv, item \in Items, NEW r \in Records, r.item = item, records' = Append(records, r),
         UNCHANGED kind,
         r.status = "kept" =>
           {"tests", "review", IF kind[item] = "quality" THEN "graph-check" ELSE "gate"} \subseteq r.passed
  PROVE  KeptItemsChecked'
<1>1. /\ records' \in Seq(Records) /\ Len(records') = Len(records) + 1
      /\ \A i \in 1 .. Len(records) : records'[i] = records[i]
      /\ records'[Len(records')] = r /\ records \in Seq(Records)
      /\ Kept' = Kept \cup (IF r.status = "kept" THEN {item} ELSE {})
      /\ Kept \subseteq 1 .. Len(records)
  BY RecordAdded DEF FixInv, TypeOK
<1>2. ASSUME NEW i \in Kept'
      PROVE  {"tests", "review", IF kind[i] = "quality" THEN "graph-check" ELSE "gate"} \subseteq records'[i].passed
  <2>1. CASE i \in Kept
    BY <1>1, <2>1 DEF FixInv, KeptItemsChecked
  <2>2. CASE i = item /\ r.status = "kept"
    BY <1>1, <2>2 DEF item
  <2> QED
    BY <1>1, <1>2, <2>1, <2>2
<1> QED
  BY <1>2 DEF KeptItemsChecked

LEMMA EarlierStill ==
  ASSUME TypeOK, KeptEarlier, kept' = kept, Len(records') = Len(records) + 1
  PROVE  KeptEarlier'
<1>1. kept \in SUBSET (1 .. N) /\ N \in Nat
  BY FixAssumption DEF TypeOK, Trees, Items
<1> QED
  BY <1>1, ItemType DEF KeptEarlier

\* With no new record, the records say what they said.
LEMMA RecordsStay ==
  ASSUME FixInv, UNCHANGED <<kind, stopped, records>>
  PROVE  StopsEarly' /\ KeptItemsChecked' /\ Kept' = Kept /\ item' = item /\ LastRecord' = LastRecord
BY DEF FixInv, StopsEarly, SameCause, KeptItemsChecked, Kept, item, LastRecord

-----------------------------------------------------------------------------
(* The invariant is kept. *)

LEMMA InitHolds ==
  ASSUME FixInit
  PROVE  FixInv
<1>1. N \in Nat
  BY FixAssumption
<1>2. TypeOK
  <2>1. branchOf \in [Items -> 0 .. N]
    <3>1. PICK from \in 1 .. N + 1 : branchOf = [i \in Items |-> IF i >= from THEN i ELSE BASE]
      BY DEF FixInit
    <3> QED
      BY <1>1, <3>1 DEF Items, BASE
  <2>2. records = <<>>
    BY DEF FixInit
  <2>3. records \in Seq(Records) /\ Len(records) = 0
    BY <2>2
  <2>4. {} \in Trees
    BY DEF Trees
  <2> QED
    <3>1. \A i \in 1 .. Len(records) : records[i].item = i
      BY <2>3
    <3>2. on \in 0 .. N /\ kept \in Trees /\ base \in Trees /\ head \in Trees /\ current \in Trees \cup {NoSnapshot}
      <4>1. on = 0 /\ kept = {} /\ base = {} /\ head = {} /\ current \in {{}, NoSnapshot}
        BY DEF FixInit, BASE
      <4> QED
        BY <1>1, <2>4, <4>1
    <3> QED
      BY <2>1, <2>3, <3>1, <3>2 DEF FixInit, TypeOK, Steps, NoCause
<1>3. Kept = {} /\ Len(records) = 0
  <2>1. records = <<>>
    BY DEF FixInit
  <2>2. Len(records) = 0 /\ DOMAIN records = {}
    BY <2>1
  <2> QED
    BY <2>2 DEF Kept
<1> QED
  <2>1. StopsEarly /\ KeptEarlier /\ KeptItemsChecked
    <3>1. kept = {}
      BY DEF FixInit
    <3>2. 1 .. Len(records) = {}
      BY <1>3
    <3> QED
      BY <1>3, <3>1, <3>2 DEF StopsEarly, KeptEarlier, KeptItemsChecked
  <2>2. BetweenItems /\ AtWork /\ Landing /\ AtEnd
    BY <1>3 DEF FixInit, BetweenItems, Steady, SnapshotIsFresh, AtWork, Working, Landing, AtEnd, Over, BASE
  <2> QED
    BY <1>2, <2>1, <2>2 DEF FixInv

LEMMA ClockHolds ==
  ASSUME FixInv, Clock
  PROVE  FixInv'
<1>1. StopsEarly' /\ KeptItemsChecked' /\ Kept' = Kept /\ item' = item /\ LastRecord' = LastRecord
  BY RecordsStay DEF Clock, items
<1>2. TypeOK'
  BY DEF Clock, items, repo, snapshots, FixInv, TypeOK
<1> QED
  BY <1>1, <1>2 DEF Clock, items, repo, snapshots, FixInv, BetweenItems, Steady, SnapshotIsFresh, AtWork, PassedSoFar,
                    OnBranch, Working, Landing, AtEnd, Over, KeptEarlier

LEMMA SkipItemHolds ==
  ASSUME FixInv, SkipItem
  PROVE  FixInv'
<1> DEFINE r == [item |-> item, status |-> "not-started", cause |-> NoCause, passed |-> {}]
<1>1. item \in Items /\ records' = Append(records, r) /\ step = "next" /\ step' = "next"
      /\ UNCHANGED <<kind, branchOf, gateRuns, asked, late, on, base, head, dirty, kept, current, stale, after,
                     cause, passed, backup>>
      /\ stopped' = IF stopped = NoCause THEN "time limit" ELSE stopped
  BY ItemType DEF SkipItem, items, repo, snapshots, FixInv
<1>2. r \in Records /\ r.item = item /\ r.status = "not-started"
  BY <1>1 DEF Records, Statuses
<1> HIDE DEF r
<1>3. /\ records' \in Seq(Records) /\ Len(records') = Len(records) + 1
      /\ \A i \in 1 .. Len(records') : records'[i].item = i
      /\ Kept' = Kept
  BY <1>1, <1>2, RecordAdded DEF FixInv
<1>4. StopsEarly' /\ KeptItemsChecked'
  BY <1>1, <1>2, StillStops, StillChecked DEF NoCause
<1>5. TypeOK'
  BY <1>1, <1>3 DEF FixInv, TypeOK
<1>6. KeptEarlier'
  BY <1>1, <1>3, EarlierStill DEF FixInv
<1>7. BetweenItems'
  BY <1>1, <1>3 DEF FixInv, BetweenItems, Steady, SnapshotIsFresh
<1>8. AtEnd' /\ AtWork' /\ Landing'
  BY <1>1 DEF FixInv, AtEnd, AtWork, Landing, Working, Over, Steady
<1> QED
  BY <1>4, <1>5, <1>6, <1>7, <1>8 DEF FixInv

\* An item done or not started, as run_items records it.
LEMMA Recorded ==
  ASSUME FixInv, item \in Items, NEW status \in Statuses, NEW why \in Causes \cup {NoCause},
         stopped = NoCause, Record(status, why), UNCHANGED kind,
         status = "kept" => {"tests", "review", IF kind[item] = "quality" THEN "graph-check" ELSE "gate"} \subseteq passed
  PROVE  /\ records' \in Seq(Records) /\ Len(records') = Len(records) + 1
         /\ \A i \in 1 .. Len(records') : records'[i].item = i
         /\ LastRecord'.status = status /\ Len(records') = item
         /\ Kept' = Kept \cup (IF status = "kept" THEN {item} ELSE {})
         /\ item \notin Kept
         /\ stopped' \in {NoCause, "time limit", "same cause"}
         /\ stopped' = "time limit" <=> status = "time limit"
         /\ StopsEarly' /\ KeptItemsChecked'
<1> DEFINE r == [item |-> item, status |-> status, cause |-> why,
                 passed |-> IF status = "kept" THEN passed ELSE {}]
<1>1. records' = Append(records, r)
  BY DEF Record
<1>2. r \in Records /\ r.item = item /\ r.status = status /\ (status = "kept" => r.passed = passed)
  BY DEF Records, FixInv, TypeOK
<1> HIDE DEF r
<1>3. /\ records' \in Seq(Records) /\ Len(records') = Len(records) + 1
      /\ \A i \in 1 .. Len(records') : records'[i].item = i
      /\ records'[Len(records')] = r
      /\ Kept' = Kept \cup (IF status = "kept" THEN {item} ELSE {})
      /\ Kept \subseteq 1 .. Len(records) /\ Len(records) \in Nat /\ item = Len(records) + 1
  BY <1>1, <1>2, RecordAdded, ItemType DEF FixInv
<1>4. stopped' = IF status = "time limit" THEN "time limit"
                 ELSE IF RepeatedCause(records') THEN "same cause" ELSE NoCause
  BY DEF Record
<1>5. StopsEarly'
  BY <1>1, <1>2, <1>4, StillStops DEF NoCause
<1>6. KeptItemsChecked'
  BY <1>1, <1>2, StillChecked
<1> QED
  <2>1. LastRecord'.status = status /\ Len(records') = item /\ item \notin Kept
    BY <1>2, <1>3 DEF LastRecord
  <2> QED
    BY <1>3, <1>4, <1>5, <1>6, <2>1 DEF NoCause

LEMMA StartItemHolds ==
  ASSUME FixInv, StartItem
  PROVE  FixInv'
<1>1. /\ item \in Items /\ step = "next" /\ stopped = NoCause /\ kept = Kept /\ Steady /\ base = kept
      /\ SnapshotIsFresh /\ TypeOK
      /\ UNCHANGED <<kind, branchOf, gateRuns, late, base, head, dirty, kept, after, cause, passed, backup>>
      /\ Len(records) \in Nat
  BY ItemType DEF StartItem, FixInv, BetweenItems, items, NoCause
<1>2. LET refresh == kind[item] = "quality" /\ stale
      IN  /\ current' \in IF refresh THEN {head, NoSnapshot} ELSE {current}
          /\ stale' = (stale /\ ~ refresh)
  BY DEF StartItem
<1>3. /\ current' \in Trees \cup {NoSnapshot} /\ stale' \in BOOLEAN
      /\ ~ stale' => current' \in {head, NoSnapshot}
      /\ kind[item] = "quality" => ~ stale'
  BY <1>1, <1>2 DEF TypeOK, SnapshotIsFresh
<1>4. CASE Record("not-started", NoCause) /\ UNCHANGED <<step, asked, on>>
  <2>1. /\ records' \in Seq(Records) /\ Len(records') = Len(records) + 1
        /\ \A i \in 1 .. Len(records') : records'[i].item = i
        /\ Kept' = Kept
        /\ stopped' \in {NoCause, "time limit", "same cause"}
        /\ StopsEarly' /\ KeptItemsChecked'
    BY <1>1, <1>4, Recorded DEF Statuses
  <2>2. TypeOK'
    BY <1>1, <1>3, <1>4, <2>1 DEF TypeOK
  <2>3. KeptEarlier'
    BY <1>1, <2>1, EarlierStill DEF FixInv
  <2>4. BetweenItems'
    BY <1>1, <1>3, <1>4, <2>1 DEF BetweenItems, Steady, SnapshotIsFresh
  <2>5. AtEnd' /\ AtWork' /\ Landing'
    BY <1>1, <1>4 DEF FixInv, AtEnd, AtWork, Landing, Working, Over, Steady
  <2> QED
    BY <2>1, <2>2, <2>3, <2>4, <2>5 DEF FixInv
<1>5. CASE /\ kind[item] = "quality" => current' # NoSnapshot
           /\ kind[item] = "test gap" => gateRuns
           /\ on' = branchOf[item]
           /\ step' = "ask" /\ asked' = "item"
           /\ UNCHANGED <<records, stopped>>
  <2>1. StopsEarly' /\ KeptItemsChecked' /\ Kept' = Kept /\ item' = item /\ LastRecord' = LastRecord
    BY <1>1, <1>5, RecordsStay
  <2>2. TypeOK'
    BY <1>1, <1>3, <1>5 DEF TypeOK, Steps, Working, Items
  <2>3. KeptEarlier'
    BY <1>1, <1>5 DEF FixInv, KeptEarlier
  <2>4. AtWork'
    BY <1>1, <1>3, <1>5, <2>1 DEF AtWork, Working, OnBranch, PassedSoFar, Steady
  <2>5. AtEnd' /\ BetweenItems' /\ Landing'
    BY <1>1, <1>5 DEF FixInv, AtEnd, BetweenItems, Landing, Over, Steady
  <2> QED
    BY <2>1, <2>2, <2>3, <2>4, <2>5 DEF FixInv
<1> QED
  BY <1>4, <1>5 DEF StartItem

\* What an item under way can rely on.
LEMMA WorkFacts ==
  ASSUME FixInv, step \in Working
  PROVE  /\ TypeOK /\ Len(records) \in Nat /\ item = Len(records) + 1 /\ item \in Items
         /\ kind[item] \in {"test gap", "quality"} /\ stopped = NoCause /\ kept = Kept
         /\ head \in Trees /\ base \in Trees /\ kept \in Trees /\ item \notin kept
         /\ OnBranch(item) /\ (~ stale => current \in {kept, NoSnapshot})
         /\ kind[item] = "quality" => current = kept /\ ~ stale
         /\ PassedSoFar
<1>1. TypeOK /\ item \in Items
  BY DEF FixInv, AtWork
<1>2. \A i \in kept : i <= Len(records)
  BY DEF FixInv, KeptEarlier
<1>3. Len(records) \in Nat /\ item = Len(records) + 1 /\ item \notin kept
  BY <1>1, <1>2, ItemType
<1>4. /\ kind[item] \in {"test gap", "quality"}
      /\ head \in Trees /\ base \in Trees /\ kept \in Trees
  BY <1>1 DEF TypeOK
<1> QED
  BY <1>1, <1>3, <1>4 DEF FixInv, AtWork

\* A step of an item that is not its last.
LEMMA WorkStep ==
  ASSUME FixInv, step' \in Working, UNCHANGED <<kind, stopped, records, kept, backup>>, step \in Working,
         TypeOK', AtWork'
  PROVE  FixInv'
<1>1. StopsEarly' /\ KeptItemsChecked'
  BY RecordsStay
<1>2. KeptEarlier'
  BY DEF FixInv, KeptEarlier
<1>3. BetweenItems' /\ Landing' /\ AtEnd'
  BY DEF FixInv, BetweenItems, Landing, AtEnd, Working, Over
<1> QED
  BY <1>1, <1>2, <1>3 DEF FixInv

LEMMA AskHolds ==
  ASSUME FixInv, Ask
  PROVE  FixInv'
<1>1. /\ step = "ask" /\ step \in Working
      /\ dirty' \in {dirty, dirty \cup {"edit"}}
      /\ UNCHANGED <<kind, branchOf, gateRuns, asked, on, base, head, kept, current, stale, after, cause, passed, backup>>
  BY DEF Ask, Working, items, snapshots
<1>2. /\ TypeOK /\ item \in Items /\ stopped = NoCause /\ kept = Kept /\ Len(records) \in Nat
  BY <1>1, WorkFacts
<1>3. CASE step' = "asked" /\ UNCHANGED <<late, stopped, records>>
  <2>1. TypeOK' /\ step' \in Working
    BY <1>1, <1>2, <1>3 DEF TypeOK, Steps, Working
  <2>2. item' = item /\ Kept' = Kept
    BY <1>3 DEF item, Kept
  <2>3. AtWork'
    BY <1>1, <1>3, <2>2 DEF FixInv, AtWork, OnBranch, PassedSoFar
  <2> QED
    BY <1>1, <1>3, <2>1, <2>3, WorkStep
<1>4. CASE late' = TRUE /\ step' = "next" /\ Record("time limit", NoCause)
  <2>1. /\ records' \in Seq(Records) /\ Len(records') = Len(records) + 1
        /\ \A i \in 1 .. Len(records') : records'[i].item = i
        /\ Kept' = Kept /\ stopped' = "time limit"
        /\ StopsEarly' /\ KeptItemsChecked'
    BY <1>1, <1>2, <1>4, Recorded DEF Statuses
  <2>2. TypeOK'
    BY <1>1, <1>2, <1>4, <2>1 DEF TypeOK, Steps
  <2>3. KeptEarlier'
    BY <1>1, <1>2, <2>1, EarlierStill DEF FixInv
  <2>4. BetweenItems' /\ AtEnd' /\ AtWork' /\ Landing'
    BY <1>1, <1>2, <1>4, <2>1 DEF FixInv, BetweenItems, AtEnd, AtWork, Landing, Working, Over, Steady
  <2> QED
    BY <2>1, <2>2, <2>3, <2>4 DEF FixInv
<1> QED
  BY <1>1, <1>3, <1>4 DEF Ask

\* An item that ends with its branch checked out and a record other than kept.
LEMMA NotKept ==
  ASSUME FixInv, step \in Working, step' = "land", NEW status \in {"unchanged", "reverted"},
         NEW why \in Causes \cup {NoCause}, Record(status, why),
         UNCHANGED <<kind, branchOf, gateRuns, asked, late, on, kept, current, stale, after, passed, backup>>,
         head' = kept, base' = kept, dirty' = dirty, cause' \in Causes \cup {NoCause}
  PROVE  FixInv'
<1>1. /\ TypeOK /\ item \in Items /\ stopped = NoCause /\ kept = Kept /\ Len(records) \in Nat
      /\ item = Len(records) + 1 /\ item \notin kept /\ OnBranch(item) /\ kept \in Trees
      /\ ~ stale => current \in {kept, NoSnapshot}
  BY WorkFacts
<1>2. /\ records' \in Seq(Records) /\ Len(records') = Len(records) + 1 /\ Len(records') = item
      /\ \A i \in 1 .. Len(records') : records'[i].item = i
      /\ Kept' = Kept /\ LastRecord'.status = status
      /\ stopped' \in {NoCause, "time limit", "same cause"}
      /\ StopsEarly' /\ KeptItemsChecked'
  BY <1>1, Recorded DEF Statuses
<1>3. TypeOK'
  BY <1>1, <1>2 DEF TypeOK, Steps
<1>4. KeptEarlier'
  BY <1>1, <1>2, EarlierStill DEF FixInv
<1>5. Landing'
  <2>1. records' # <<>>
    <3>1. Len(records) \in Nat /\ Len(records') = Len(records) + 1
      BY <1>1, <1>2
    <3> QED
      BY <3>1
  <2> QED
    BY <1>1, <1>2, <2>1 DEF Landing, SnapshotIsFresh, OnBranch
<1>6. AtEnd' /\ AtWork' /\ BetweenItems'
  BY DEF FixInv, BetweenItems, AtEnd, AtWork, Working, Over
<1> QED
  BY <1>2, <1>3, <1>4, <1>5, <1>6 DEF FixInv

LEMMA NoEditHolds ==
  ASSUME FixInv, NoEdit
  PROVE  FixInv'
<1>1. /\ step = "asked" /\ step \in Working
      /\ UNCHANGED <<kind, branchOf, gateRuns, asked, late, on, base, head, dirty, kept, current, stale, after, passed, backup>>
  BY DEF NoEdit, Working, items, repo, snapshots
<1>2. TypeOK /\ OnBranch(item) /\ base' = IF on = BASE THEN head ELSE kept
  BY <1>1, WorkFacts DEF OnBranch
<1>3. CASE asked = "item"
  <2>1. head = kept
    BY <1>1, <1>3 DEF FixInv, AtWork
  <2> QED
    BY <1>1, <1>2, <1>3, <2>1, NotKept DEF NoEdit, TypeOK
<1>4. CASE asked # "item"
  <2>1. cause' \in Causes /\ step' = "revert" /\ UNCHANGED <<records, stopped>>
    BY <1>4 DEF NoEdit
  <2>2. TypeOK' /\ step' \in Working
    BY <1>1, <1>2, <2>1 DEF TypeOK, Steps, Working
  <2>3. item' = item /\ Kept' = Kept
    BY <2>1 DEF item, Kept
  <2>4. AtWork'
    BY <1>1, <1>4, <2>1, <2>3 DEF FixInv, AtWork, OnBranch, PassedSoFar
  <2> QED
    BY <1>1, <2>1, <2>2, <2>4, WorkStep
<1> QED
  BY <1>3, <1>4

LEMMA CommitHolds ==
  ASSUME FixInv, Commit
  PROVE  FixInv'
<1>1. /\ step = "asked" /\ step \in Working /\ step' = "validate" /\ dirty' = {} /\ passed' = {}
      /\ head' = head \cup {item} /\ base' = IF on = BASE THEN head' ELSE base
      /\ UNCHANGED <<kind, branchOf, gateRuns, asked, late, stopped, records, on, kept, current, stale, after, cause, backup>>
  BY DEF Commit, SetHead, Working, items, snapshots
<1>2. /\ TypeOK /\ item \in Items /\ stopped = NoCause /\ kept = Kept /\ OnBranch(item)
      /\ head \in Trees /\ base \in Trees
  BY <1>1, WorkFacts
<1>3. head' \in Trees /\ base' \in Trees /\ head' = kept \cup {item}
  <2>1. head' \in Trees
    BY <1>1, <1>2 DEF Trees
  <2>2. head = kept \/ head = kept \cup {item}
    BY <1>1 DEF FixInv, AtWork
  <2> QED
    BY <1>1, <1>2, <2>1, <2>2
<1>4. TypeOK' /\ step' \in Working
  BY <1>1, <1>2, <1>3 DEF TypeOK, Steps, Working
<1>5. item' = item /\ Kept' = Kept
  BY <1>1 DEF item, Kept
<1>6. AtWork'
  BY <1>1, <1>2, <1>3, <1>5 DEF FixInv, AtWork, OnBranch, PassedSoFar
<1> QED
  BY <1>1, <1>4, <1>6, WorkStep

\* An item whose check fails goes back; nothing else moves.
LEMMA FailHolds ==
  ASSUME FixInv, step \in Working, ~ (step \in {"ask", "asked"} /\ asked = "item"), step' = "revert",
         cause' \in Causes, dirty' \subseteq {"edit", "litter"}, after' \in Trees \cup {NoSnapshot}, passed' = passed,
         UNCHANGED <<kind, branchOf, gateRuns, asked, late, stopped, records, on, base, head, kept, current, stale, backup>>
  PROVE  FixInv'
<1>1. TypeOK /\ item \in Items /\ stopped = NoCause /\ kept = Kept /\ OnBranch(item)
  BY WorkFacts
<1>2. TypeOK' /\ step' \in Working
  BY <1>1 DEF TypeOK, Steps, Working
<1>3. item' = item /\ Kept' = Kept
  BY DEF item, Kept
<1>4. AtWork'
  BY <1>1, <1>3 DEF FixInv, AtWork, OnBranch, PassedSoFar
<1> QED
  BY <1>2, <1>4, WorkStep

LEMMA DiscardRevisionHolds ==
  ASSUME FixInv, DiscardRevision
  PROVE  FixInv'
<1>1. step \in Working /\ after' = after /\ after \in Trees \cup {NoSnapshot}
  BY DEF DiscardRevision, Working, snapshots, FixInv, TypeOK
<1> QED
  BY <1>1, FailHolds DEF DiscardRevision, items, snapshots

LEMMA ValidateHolds ==
  ASSUME FixInv, Validate
  PROVE  FixInv'
<1>1. /\ step = "validate" /\ step \in Working
      /\ dirty' \in {dirty, dirty \cup {"litter"}}
      /\ UNCHANGED <<kind, branchOf, gateRuns, asked, late, stopped, records, on, base, head, kept, current, stale, backup>>
  BY DEF Validate, Working, items
<1>2. /\ TypeOK /\ item \in Items /\ stopped = NoCause /\ kept = Kept /\ OnBranch(item)
      /\ head \in Trees /\ head = kept \cup {item} /\ dirty' \subseteq {"edit", "litter"}
      /\ after \in Trees \cup {NoSnapshot}
  BY <1>1, WorkFacts DEF FixInv, AtWork, TypeOK
<1>3. item' = item /\ Kept' = Kept
  BY <1>1 DEF item, Kept
<1>4. CASE Fails /\ passed' = passed /\ after' \in {after, head, NoSnapshot}
  BY <1>1, <1>2, <1>4, FailHolds DEF Fails
<1>5. CASE kind[item] = "test gap" /\ passed' = {"tests"} /\ step' = "gate" /\ UNCHANGED <<after, cause>>
  <2>1. TypeOK' /\ step' \in Working
    BY <1>1, <1>2, <1>5 DEF TypeOK, Steps, Working, Checks
  <2>2. AtWork'
    BY <1>1, <1>2, <1>3, <1>5 DEF FixInv, AtWork, OnBranch, PassedSoFar
  <2> QED
    BY <1>1, <2>1, <2>2, WorkStep
<1>6. CASE /\ kind[item] = "quality" /\ after' \in {head, NoSnapshot} /\ after' # NoSnapshot
           /\ passed' = {"tests", "graph-check"} /\ step' = "review" /\ UNCHANGED cause
  <2>1. TypeOK' /\ step' \in Working
    BY <1>1, <1>2, <1>6 DEF TypeOK, Steps, Working, Checks
  <2>2. AtWork'
    BY <1>1, <1>2, <1>3, <1>6 DEF FixInv, AtWork, OnBranch, PassedSoFar
  <2> QED
    BY <1>1, <2>1, <2>2, WorkStep
<1> QED
  BY <1>4, <1>5, <1>6 DEF Validate

LEMMA GateHolds ==
  ASSUME FixInv, Gate
  PROVE  FixInv'
<1>1. /\ step = "gate" /\ step \in Working
      /\ UNCHANGED <<kind, branchOf, gateRuns, late, stopped, records, on, base, head, dirty, kept, current, stale, after, backup>>
  BY DEF Gate, Working, items, repo, snapshots
<1>2. /\ TypeOK /\ item \in Items /\ stopped = NoCause /\ kept = Kept /\ OnBranch(item)
      /\ head = kept \cup {item} /\ PassedSoFar
  BY <1>1, WorkFacts DEF FixInv, AtWork
<1>3. item' = item /\ Kept' = Kept
  BY <1>1 DEF item, Kept
<1>4. CASE passed' = passed \cup {"gate"} /\ step' = "review" /\ UNCHANGED <<asked, cause>>
  <2>1. TypeOK' /\ step' \in Working
    BY <1>1, <1>2, <1>4 DEF TypeOK, Steps, Working, Checks
  <2>2. kind[item] # "quality" /\ "tests" \in passed
    BY <1>1, <1>2 DEF PassedSoFar
  <2>3. AtWork'
    BY <1>1, <1>2, <1>3, <1>4, <2>2 DEF FixInv, AtWork, OnBranch, PassedSoFar
  <2> QED
    BY <1>1, <2>1, <2>3, WorkStep
<1>5. CASE asked' = "retry" /\ step' = "ask" /\ UNCHANGED <<passed, cause>>
  <2>1. TypeOK' /\ step' \in Working
    BY <1>1, <1>2, <1>5 DEF TypeOK, Steps, Working
  <2>2. AtWork'
    BY <1>1, <1>2, <1>3, <1>5 DEF FixInv, AtWork, OnBranch, PassedSoFar
  <2> QED
    BY <1>1, <2>1, <2>2, WorkStep
<1>6. CASE Fails /\ UNCHANGED <<passed, asked>>
  BY <1>1, <1>2, <1>6, FailHolds DEF Fails, TypeOK
<1> QED
  BY <1>4, <1>5, <1>6 DEF Gate

LEMMA ReviewHolds ==
  ASSUME FixInv, Review
  PROVE  FixInv'
<1>1. /\ step = "review" /\ step \in Working
      /\ UNCHANGED <<kind, branchOf, gateRuns, late, stopped, records, on, base, head, dirty, kept, current, stale, after, backup>>
  BY DEF Review, Working, items, repo, snapshots
<1>2. /\ TypeOK /\ item \in Items /\ stopped = NoCause /\ kept = Kept /\ OnBranch(item)
      /\ head = kept \cup {item} /\ PassedSoFar
  BY <1>1, WorkFacts DEF FixInv, AtWork
<1>3. item' = item /\ Kept' = Kept
  BY <1>1 DEF item, Kept
<1>4. CASE passed' = passed \cup {"review"} /\ step' = "keep" /\ UNCHANGED <<asked, cause>>
  <2>1. TypeOK' /\ step' \in Working
    BY <1>1, <1>2, <1>4 DEF TypeOK, Steps, Working, Checks
  <2>2. AtWork'
    BY <1>1, <1>2, <1>3, <1>4 DEF FixInv, AtWork, OnBranch, PassedSoFar
  <2> QED
    BY <1>1, <2>1, <2>2, WorkStep
<1>5. CASE asked' = "conflict" /\ step' = "ask" /\ UNCHANGED <<passed, cause>>
  <2>1. TypeOK' /\ step' \in Working
    BY <1>1, <1>2, <1>5 DEF TypeOK, Steps, Working
  <2>2. AtWork'
    BY <1>1, <1>2, <1>3, <1>5 DEF FixInv, AtWork, OnBranch, PassedSoFar
  <2> QED
    BY <1>1, <2>1, <2>2, WorkStep
<1>6. CASE Fails /\ UNCHANGED <<passed, asked>>
  BY <1>1, <1>2, <1>6, FailHolds DEF Fails, TypeOK
<1> QED
  BY <1>4, <1>5, <1>6 DEF Review

LEMMA RevertHolds ==
  ASSUME FixInv, Revert
  PROVE  FixInv'
<1>1. /\ step = "revert" /\ step \in Working /\ step' = "land" /\ Record("reverted", cause)
      /\ head' = head \ {item} /\ base' = IF on = BASE THEN head' ELSE base
      /\ UNCHANGED <<kind, branchOf, gateRuns, asked, late, on, dirty, kept, current, stale, after, cause, passed, backup>>
  BY DEF Revert, SetHead, Working, items, snapshots
<1>2. TypeOK /\ OnBranch(item) /\ item \notin kept /\ head = kept \cup {item}
  BY <1>1, WorkFacts DEF FixInv, AtWork
<1>3. head' = kept /\ base' = kept
  BY <1>1, <1>2 DEF OnBranch
<1> QED
  BY <1>1, <1>2, <1>3, NotKept DEF TypeOK

LEMMA KeepHolds ==
  ASSUME FixInv, Keep
  PROVE  FixInv'
<1>1. /\ step = "keep" /\ step \in Working /\ step' = "land" /\ Record("kept", NoCause)
      /\ UNCHANGED <<kind, branchOf, gateRuns, asked, late, on, base, head, dirty, kept, after, cause, passed, backup>>
  BY DEF Keep, Working, items, repo
<1>2. /\ TypeOK /\ item \in Items /\ stopped = NoCause /\ kept = Kept /\ Len(records) \in Nat
      /\ item = Len(records) + 1 /\ item \notin kept /\ OnBranch(item)
      /\ head = kept \cup {item} /\ PassedSoFar /\ kind[item] \in {"test gap", "quality"}
      /\ kind[item] = "quality" => after = head
  BY <1>1, WorkFacts DEF FixInv, AtWork
<1>3. /\ current' \in Trees \cup {NoSnapshot} /\ stale' \in BOOLEAN
      /\ ~ stale' => current' = head
  BY <1>2 DEF Keep, TypeOK
<1>4. {"tests", "review", IF kind[item] = "quality" THEN "graph-check" ELSE "gate"} \subseteq passed
  BY <1>1, <1>2 DEF PassedSoFar
<1>5. /\ records' \in Seq(Records) /\ Len(records') = Len(records) + 1 /\ Len(records') = item
      /\ \A i \in 1 .. Len(records') : records'[i].item = i
      /\ Kept' = Kept \cup {item} /\ LastRecord'.status = "kept"
      /\ stopped' \in {NoCause, "time limit", "same cause"}
      /\ StopsEarly' /\ KeptItemsChecked'
  BY <1>1, <1>2, <1>4, Recorded DEF Statuses
<1>6. TypeOK'
  BY <1>1, <1>2, <1>3, <1>5 DEF TypeOK, Steps
<1>7. KeptEarlier'
  BY <1>1, <1>2, <1>5, EarlierStill DEF FixInv
<1>8. Landing'
  <2>1. records' # <<>>
    <3>1. Len(records) \in Nat /\ Len(records') = Len(records) + 1
      BY <1>2, <1>5
    <3> QED
      BY <3>1
  <2> QED
    BY <1>1, <1>2, <1>3, <1>5, <2>1 DEF Landing, SnapshotIsFresh, OnBranch
<1>9. AtEnd' /\ AtWork' /\ BetweenItems'
  BY <1>1 DEF FixInv, BetweenItems, AtEnd, AtWork, Working, Over
<1> QED
  BY <1>5, <1>6, <1>7, <1>8, <1>9 DEF FixInv

LEMMA BranchZero == BASE \in 0 .. N
BY FixAssumption DEF BASE

LEMMA LandHolds ==
  ASSUME FixInv, Land
  PROVE  FixInv'
<1>1. /\ step = "land" /\ step' = "landed" /\ on' = BASE
      /\ base' = IF LastRecord.status = "kept" THEN head ELSE base
      /\ head' = base' /\ asked' = "item" /\ after' = NoSnapshot /\ cause' = NoCause /\ passed' = {}
      /\ UNCHANGED <<kind, branchOf, gateRuns, late, stopped, records, dirty, kept, current, stale, backup>>
  BY DEF Land, items
<1>2. /\ TypeOK /\ head \in Trees /\ base \in Trees /\ OnBranch(Len(records)) /\ Kept = head
      /\ head = kept \cup (IF LastRecord.status = "kept" THEN {Len(records)} ELSE {})
      /\ records # <<>> /\ SnapshotIsFresh /\ Len(records) \notin kept /\ backup = "whole"
  BY <1>1 DEF FixInv, Landing, TypeOK, AtEnd, Over
<1>3. base' = head
  BY <1>1, <1>2 DEF OnBranch
<1>4. StopsEarly' /\ KeptItemsChecked' /\ Kept' = Kept /\ LastRecord' = LastRecord
  BY <1>1, RecordsStay
<1>5. TypeOK'
  BY <1>1, <1>2, <1>3, BranchZero DEF TypeOK, Steps
<1>6. Landing'
  BY <1>1, <1>2, <1>3, <1>4 DEF Landing, SnapshotIsFresh, Steady
<1>7. AtEnd' /\ AtWork' /\ BetweenItems' /\ KeptEarlier'
  BY <1>1, <1>2 DEF FixInv, BetweenItems, AtEnd, AtWork, Working, Over, KeptEarlier
<1> QED
  BY <1>4, <1>5, <1>6, <1>7 DEF FixInv

LEMMA MarkKeptHolds ==
  ASSUME FixInv, MarkKept
  PROVE  FixInv'
<1>1. /\ step = "landed" /\ step' = "next"
      /\ kept' = IF LastRecord.status = "kept" THEN head ELSE kept
      /\ UNCHANGED <<kind, branchOf, gateRuns, asked, late, stopped, records, on, base, head, dirty, current, stale,
                     after, cause, passed, backup>>
  BY DEF MarkKept, items, repo, snapshots
<1>2. /\ TypeOK /\ head \in Trees /\ kept \in Trees /\ Steady /\ base = Kept /\ SnapshotIsFresh /\ backup = "whole"
      /\ Kept = kept \cup (IF LastRecord.status = "kept" THEN {Len(records)} ELSE {})
  BY <1>1 DEF FixInv, Landing, TypeOK, AtEnd, Over
<1>3. kept' = Kept /\ kept' \in Trees
  BY <1>1, <1>2 DEF Steady
<1>4. StopsEarly' /\ KeptItemsChecked' /\ Kept' = Kept
  BY <1>1, RecordsStay
<1>5. TypeOK'
  BY <1>1, <1>2, <1>3 DEF TypeOK, Steps
<1>6. KeptEarlier'
  <2>1. Len(records) \in Nat
    BY <1>2, ItemType
  <2> QED
    BY <1>1, <1>2, <1>3, <2>1 DEF FixInv, KeptEarlier
<1>7. BetweenItems'
  BY <1>1, <1>2, <1>3, <1>4 DEF BetweenItems, Steady, SnapshotIsFresh
<1>8. AtEnd' /\ AtWork' /\ Landing'
  BY <1>1, <1>2 DEF AtEnd, AtWork, Landing, Working, Over
<1> QED
  BY <1>4, <1>5, <1>6, <1>7, <1>8 DEF FixInv

\* A step that neither works on an item nor moves kept_head.
LEMMA EndStepHolds ==
  ASSUME FixInv, UNCHANGED <<kind, branchOf, gateRuns, late, stopped, records, kept>>,
         step' \in Over \cup {"drop", "recover", "restore", "restored"},
         asked' \in {"item", "retry", "conflict"}, on' \in 0 .. N, base' \in Trees, head' \in Trees,
         dirty' \subseteq {"edit", "litter"}, current' \in Trees \cup {NoSnapshot}, stale' \in BOOLEAN,
         after' \in Trees \cup {NoSnapshot}, cause' \in Causes \cup {NoCause}, passed' \subseteq Checks,
         backup' \in {"whole", "partial", "gone"}, AtEnd'
  PROVE  FixInv'
<1>1. StopsEarly' /\ KeptItemsChecked' /\ Kept' = Kept
  BY RecordsStay
<1>2. TypeOK'
  BY DEF FixInv, TypeOK, Steps
<1>3. BetweenItems' /\ AtWork' /\ Landing' /\ KeptEarlier'
  BY DEF FixInv, BetweenItems, AtWork, Landing, Working, Over, KeptEarlier
<1> QED
  BY <1>1, <1>2, <1>3 DEF FixInv

\* The branch reset is one.
LEMMA ResetFacts ==
  ASSUME TypeOK, Reset
  PROVE  /\ on' \in 0 .. N /\ base' \in Trees /\ head' \in Trees /\ dirty' \subseteq {"edit", "litter"}
         /\ on' = BASE /\ head' = base' /\ base' = kept
BY BranchZero DEF Reset, TypeOK

LEMMA FinishHolds ==
  ASSUME FixInv, Finish
  PROVE  FixInv'
<1>1. /\ step = "next" /\ step' = "drop"
      /\ IF stopped = "time limit" THEN Reset ELSE UNCHANGED <<on, base, head, dirty>>
      /\ UNCHANGED <<kind, branchOf, gateRuns, asked, late, stopped, records, kept, current, stale, after,
                     cause, passed, backup>>
  BY DEF Finish, items, snapshots, repo
<1>2. /\ TypeOK /\ kept = Kept /\ backup = "whole" /\ (stopped # "time limit" => Steady /\ base = kept)
  BY <1>1 DEF FixInv, BetweenItems, AtEnd, Over
<1>3. /\ on' \in 0 .. N /\ base' \in Trees /\ head' \in Trees /\ dirty' \subseteq {"edit", "litter"}
      /\ on' = BASE /\ head' = base' /\ base' = kept
  BY <1>1, <1>2, ResetFacts DEF TypeOK, Steady
<1>4. AtEnd'
  <2>1. Kept' = Kept
    BY <1>1, RecordsStay
  <2> QED
    BY <1>1, <1>2, <1>3, <2>1 DEF AtEnd, Steady, Over
<1> QED
  BY <1>1, <1>2, <1>3, <1>4, EndStepHolds DEF TypeOK

LEMMA DropBackupHolds ==
  ASSUME FixInv, DropBackup
  PROVE  FixInv'
<1>1. /\ step = "drop" /\ step' = "ended" /\ backup' = "gone"
      /\ UNCHANGED <<kind, branchOf, gateRuns, asked, late, stopped, records, on, base, head, dirty, kept, current, stale,
                     after, cause, passed>>
  BY DEF DropBackup, items, snapshots, repo
<1>2. TypeOK /\ AtEnd'
  <2>1. Kept' = Kept
    BY <1>1, RecordsStay
  <2> QED
    BY <1>1, <2>1 DEF FixInv, AtEnd, Steady, Over
<1> QED
  BY <1>1, <1>2, EndStepHolds DEF TypeOK, Over

\* What is left of an item once it is given up.
LEMMA Unwound ==
  ASSUME Unwind
  PROVE  /\ asked' \in {"item", "retry", "conflict"} /\ cause' \in Causes \cup {NoCause} /\ passed' \subseteq Checks
         /\ current' \in Trees \cup {NoSnapshot} /\ stale' \in BOOLEAN /\ after' \in Trees \cup {NoSnapshot}
BY DEF Unwind

LEMMA RaiseHolds ==
  ASSUME FixInv, Raise
  PROVE  FixInv'
<1>1. /\ step' = "recover" /\ step \notin Over
      /\ UNCHANGED <<kind, branchOf, gateRuns, late, stopped, records, on, base, head, dirty, kept, backup>>
  BY DEF Raise, items, repo
<1>2. TypeOK /\ AtEnd'
  BY <1>1 DEF FixInv, AtEnd, Steady, Over
<1> QED
  BY <1>1, <1>2, Unwound, EndStepHolds DEF TypeOK, Raise

LEMMA RecoverHolds ==
  ASSUME FixInv, Recover
  PROVE  FixInv'
<1>1. /\ step = "recover"
      /\ \/ Reset /\ step' = "restored"
         \/ UNCHANGED <<on, base, head, dirty>> /\ step' = "restore"
      /\ UNCHANGED <<kind, branchOf, gateRuns, asked, late, stopped, records, kept, current, stale, after,
                     cause, passed, backup>>
  BY DEF Recover, items, snapshots, repo
<1>2. TypeOK
  BY DEF FixInv
<1>3. /\ on' \in 0 .. N /\ base' \in Trees /\ head' \in Trees /\ dirty' \subseteq {"edit", "litter"}
      /\ step' = "restored" => on' = BASE /\ head' = base' /\ base' = kept
  BY <1>1, <1>2, ResetFacts DEF TypeOK
<1>4. AtEnd'
  BY <1>1, <1>3 DEF FixInv, AtEnd, Steady, Over
<1> QED
  BY <1>1, <1>2, <1>3, <1>4, EndStepHolds DEF TypeOK

LEMMA RestoreHolds ==
  ASSUME FixInv, Restore
  PROVE  FixInv'
<1>1. /\ step = "restore"
      /\ \/ /\ on' = BASE /\ base' = {} /\ head' = {} /\ dirty' \in {{}, {"litter"}} /\ step' = "restored"
         \/ UNCHANGED <<on, base, head, dirty>> /\ step' = "dead"
      /\ UNCHANGED <<kind, branchOf, gateRuns, asked, late, stopped, records, kept, current, stale, after,
                     cause, passed, backup>>
  BY DEF Restore, items, snapshots, repo
<1>2. TypeOK /\ {} \in Trees /\ BASE \in 0 .. N
  BY FixAssumption DEF FixInv, Trees, BASE
<1>3. /\ on' \in 0 .. N /\ base' \in Trees /\ head' \in Trees /\ dirty' \subseteq {"edit", "litter"}
      /\ step' = "restored" => on' = BASE /\ head' = base' /\ base' = {}
  BY <1>1, <1>2 DEF TypeOK
<1>4. AtEnd'
  BY <1>1, <1>3 DEF FixInv, AtEnd, Steady, Over
<1> QED
  BY <1>1, <1>2, <1>3, <1>4, EndStepHolds DEF TypeOK, Over

LEMMA DropRestoredHolds ==
  ASSUME FixInv, DropRestored
  PROVE  FixInv'
<1>1. /\ step = "restored" /\ step' = "raised" /\ backup' = "gone"
      /\ UNCHANGED <<kind, branchOf, gateRuns, asked, late, stopped, records, on, base, head, dirty, kept, current, stale,
                     after, cause, passed>>
  BY DEF DropRestored, items, snapshots, repo
<1>2. TypeOK /\ AtEnd'
  BY <1>1 DEF FixInv, AtEnd, Steady, Over
<1> QED
  BY <1>1, <1>2, EndStepHolds DEF TypeOK, Over

LEMMA KillHolds ==
  ASSUME FixInv, Kill
  PROVE  FixInv'
<1>1. /\ step' = "killed" /\ step \notin Over
      /\ backup' \in IF step \in {"drop", "restored"} THEN {"whole", "partial"} ELSE {backup}
      /\ UNCHANGED <<kind, branchOf, gateRuns, late, stopped, records, on, base, head, dirty, kept>>
  BY DEF Kill, items, repo
<1>2. TypeOK /\ backup' \in {"whole", "partial", "gone"}
  BY <1>1 DEF FixInv, TypeOK
<1>3. AtEnd'
  BY <1>1, <1>2 DEF FixInv, AtEnd, Steady, Over
<1> QED
  BY <1>1, <1>2, <1>3, Unwound, EndStepHolds DEF TypeOK, Kill, Over

LEMMA StutterHolds ==
  ASSUME FixInv, UNCHANGED fixVars
  PROVE  FixInv'
<1>1. UNCHANGED <<kind, branchOf, gateRuns, step, asked, late, stopped, records, on, base, head, dirty, kept, current, stale,
                  after, cause, passed, backup>>
  BY DEF fixVars, items, repo, snapshots
<1>2. StopsEarly' /\ KeptItemsChecked' /\ Kept' = Kept /\ item' = item /\ LastRecord' = LastRecord
  BY <1>1, RecordsStay
<1>3. TypeOK'
  BY <1>1 DEF FixInv, TypeOK
<1>4. BetweenItems' /\ KeptEarlier'
  BY <1>1, <1>2 DEF FixInv, BetweenItems, Steady, SnapshotIsFresh, KeptEarlier
<1>5. AtWork'
  BY <1>1, <1>2 DEF FixInv, AtWork, OnBranch, PassedSoFar
<1>6. Landing' /\ AtEnd'
  BY <1>1, <1>2 DEF FixInv, Landing, OnBranch, SnapshotIsFresh, AtEnd, Steady
<1> QED
  BY <1>2, <1>3, <1>4, <1>5, <1>6 DEF FixInv

\* What holds at every step of the stage: kept_head is the items recorded as
\* kept, whatever was edited, amended, reverted or cut off since; an item under
\* way is one commit on top of them; and the backup is there until the branch
\* holds what it should.
THEOREM FixInvariant == FixSpec => []FixInv
<1>1. FixInit => FixInv
  BY InitHolds
<1>2. FixInv /\ [FixNext]_fixVars => FixInv'
  <2> SUFFICES ASSUME FixInv, [FixNext]_fixVars PROVE FixInv'
    OBVIOUS
  <2>1. CASE ItemStep
    BY <2>1, SkipItemHolds, StartItemHolds, AskHolds, NoEditHolds, CommitHolds, DiscardRevisionHolds, ValidateHolds,
       GateHolds, ReviewHolds, RevertHolds, KeepHolds, LandHolds, MarkKeptHolds DEF ItemStep
  <2>2. CASE EndStep
    BY <2>2, FinishHolds, DropBackupHolds, RecoverHolds, RestoreHolds, DropRestoredHolds DEF EndStep
  <2>3. CASE Clock \/ Raise \/ Kill
    BY <2>3, ClockHolds, RaiseHolds, KillHolds
  <2>4. CASE UNCHANGED fixVars
    BY <2>4, StutterHolds
  <2> QED
    BY <2>1, <2>2, <2>3, <2>4 DEF FixNext
<1> QED
  BY <1>1, <1>2, PTL DEF FixSpec

-----------------------------------------------------------------------------
(* What the stage promises. *)

\* An item kept passed every check of its kind in its last revision, and the
\* ratchet compared a quality commit with the tree of its parent.
THEOREM KeptWasChecked == FixSpec => []KeptIsChecked
<1>1. FixInv => KeptIsChecked
  <2> SUFFICES ASSUME FixInv PROVE KeptIsChecked
    OBVIOUS
  <2>1. KeptItemsChecked
    BY DEF FixInv
  <2>2. ASSUME step = "validate", kind[item] = "quality"
        PROVE  current = head \ {item}
    <3>1. current = kept /\ head = kept \cup {item}
      BY <2>2 DEF FixInv, AtWork, Working
    <3>2. item = Len(records) + 1 /\ Len(records) \in Nat /\ kept \in SUBSET (1 .. N) /\ N \in Nat
      BY ItemType, FixAssumption DEF FixInv, TypeOK, Trees, Items
    <3>3. item \notin kept
      BY <3>2 DEF FixInv, KeptEarlier
    <3> QED
      BY <3>1, <3>3
  <2> QED
    BY <2>1, <2>2 DEF KeptIsChecked, ComparedToParent
<1> QED
  BY <1>1, FixInvariant, PTL

\* After SAME_CAUSE_STOP reverts in a row for one cause no item is started.
THEOREM StopsAtRepeatedCause == FixSpec => []EarlyStop
<1>1. FixInv => EarlyStop
  <2> SUFFICES ASSUME FixInv, NEW i \in DOMAIN records,
                      \A d \in 0 .. SAME_CAUSE_STOP - 1 :
                        i > d /\ records[i - d].status = "reverted" /\ records[i - d].cause = records[i].cause
               PROVE  /\ \A j \in i + 1 .. Len(records) : records[j].status = "not-started"
                      /\ i = Len(records) => step \notin {"ask", "asked", "validate"}
    BY DEF EarlyStop
  <2>1. records \in Seq(Records)
    BY DEF FixInv, TypeOK
  <2>2. i \in 1 .. Len(records)
    BY <2>1
  <2>3. SameCause(i)
    BY DEF SameCause
  <2>4. stopped # NoCause /\ \A j \in i + 1 .. Len(records) : records[j].status = "not-started"
    BY <2>2, <2>3 DEF FixInv, StopsEarly
  <2> QED
    BY <2>4 DEF FixInv, AtWork, Working
<1> QED
  BY <1>1, FixInvariant, PTL

\* The items reported as kept are the ones the PR branch holds, and the backup
\* is not given up while the branch holds anything else.
THEOREM ReportIsTrue == FixSpec => []TreeIsReported
<1>1. FixInv => TreeIsReported
  BY DEF FixInv, AtEnd, Steady, TreeIsReported, BackupOutlivesDamage, ReportIsTheTree
<1> QED
  BY <1>1, FixInvariant, PTL

-----------------------------------------------------------------------------
(* The stage implements FixPromise. *)

Told ==
  CASE step = "ended" -> "returned"
    [] step = "raised" -> "raised"
    [] step \in {"dead", "killed"} -> "lost"
    [] OTHER -> "no"
Left == IF step \in Over /\ backup # "whole" THEN base ELSE {}

\* A stage that is not over has its backup and has told nothing.
LEMMA NothingTold ==
  ASSUME FixInv, step \notin Over
  PROVE  Told = "no" /\ Left = {} /\ (backup = "whole") = TRUE
BY DEF FixInv, AtEnd, Over, Told, Left

\* A step that goes on, and moves no kept_head, is not seen.
LEMMA GoesOn ==
  ASSUME FixInv, FixInv', step \notin Over, step' \notin Over, UNCHANGED kept
  PROVE  UNCHANGED <<kept, Told, Left, backup = "whole">>
<1>1. Told = "no" /\ Left = {} /\ (backup = "whole") = TRUE
  BY NothingTold
<1>2. Told' = "no" /\ Left' = {} /\ (backup = "whole")' = TRUE
  BY DEF FixInv, AtEnd, Over, Told, Left
<1> QED
  BY <1>1, <1>2

LEMMA MarkKeptKeeps ==
  ASSUME FixInv, FixInv', MarkKept
  PROVE  Promise!Keep \/ UNCHANGED <<kept, Told, Left, backup = "whole">>
<1>1. /\ step = "landed" /\ step' = "next" /\ UNCHANGED records
      /\ kept' = IF LastRecord.status = "kept" THEN head ELSE kept
  BY DEF MarkKept
<1>2. Told = "no" /\ Left = {} /\ (backup = "whole") = TRUE
  BY <1>1, NothingTold DEF Over
<1>3. Told' = "no" /\ Left' = {} /\ (backup = "whole")' = TRUE
  BY <1>1 DEF FixInv, AtEnd, Over, Told, Left
<1>4. CASE LastRecord.status = "kept"
  <2> DEFINE n == Len(records)
  <2>1. records \in Seq(Records) /\ records # <<>> /\ records[Len(records)].item = Len(records)
    <3>1. records \in Seq(Records) /\ records # <<>> /\ \A i \in 1 .. Len(records) : records[i].item = i
      BY <1>1 DEF FixInv, TypeOK, Landing
    <3>2. Len(records) \in 1 .. Len(records)
      BY <3>1
    <3> QED
      BY <3>1, <3>2
  <2>2. n \in Items
    <3>1. records[n] \in Records
      BY <2>1
    <3> QED
      BY <2>1, <3>1 DEF Records
  <2>3. kept' = kept \cup {n}
    BY <1>1, <1>4 DEF FixInv, Landing, Steady
  <2>4. n \notin kept /\ \A k \in kept : k <= n
    BY <1>1 DEF FixInv, Landing, KeptEarlier
  <2>5. kept \in SUBSET (1 .. N) /\ N \in Nat /\ n \in Nat
    <3>1. kept \in SUBSET (1 .. N)
      BY DEF FixInv, TypeOK, Trees, Items
    <3> QED
      BY <2>1, <3>1, FixAssumption
  <2> HIDE DEF n
  <2>6. \A k \in kept : k < n
    BY <2>4, <2>5
  <2> QED
    BY <1>2, <1>3, <2>2, <2>3, <2>6 DEF Promise!Keep, Told, Left
<1> QED
  BY <1>1, <1>2, <1>3, <1>4

LEMMA DropBackupReturns ==
  ASSUME FixInv, FixInv', DropBackup
  PROVE  Promise!Return
<1>1. step = "drop" /\ step' = "ended" /\ backup' = "gone" /\ UNCHANGED <<kept, base>>
  BY DEF DropBackup, repo
<1>2. Told = "no" /\ base = kept
  BY <1>1 DEF FixInv, AtEnd, Told
<1>3. Told' = "returned" /\ Left' = base /\ (backup = "whole")' = FALSE
  BY <1>1 DEF Told, Left, Over
<1> QED
  BY <1>1, <1>2, <1>3 DEF Promise!Return, Promise!Ends, Told, Left

LEMMA DropRestoredRaises ==
  ASSUME FixInv, FixInv', DropRestored
  PROVE  Promise!Raise
<1>1. step = "restored" /\ step' = "raised" /\ backup' = "gone" /\ UNCHANGED <<kept, base>>
  BY DEF DropRestored, repo
<1>2. Told = "no" /\ base \in {kept, {}}
  BY <1>1 DEF FixInv, AtEnd, Told
<1>3. Told' = "raised" /\ Left' = base /\ (backup = "whole")' = FALSE
  BY <1>1 DEF Told, Left, Over
<1> QED
  BY <1>1, <1>2, <1>3 DEF Promise!Raise, Promise!Ends, Told, Left

LEMMA RestoreLoses ==
  ASSUME FixInv, FixInv', Restore
  PROVE  Promise!Lose \/ UNCHANGED <<kept, Told, Left, backup = "whole">>
<1>1. step = "restore" /\ UNCHANGED <<kept, backup>> /\ step' \in {"restored", "dead"}
  BY DEF Restore
<1>2. CASE step' = "dead"
  <2>1. Told = "no" /\ Left = {} /\ backup = "whole"
    BY <1>1, NothingTold DEF Over
  <2>2. Told' = "lost" /\ Left' = {} /\ backup' = "whole"
    BY <1>1, <1>2, <2>1 DEF Told, Left
  <2> QED
    BY <1>1, <2>1, <2>2 DEF Promise!Lose, Told, Left
<1> QED
  BY <1>1, <1>2, GoesOn DEF Over

LEMMA KillLoses ==
  ASSUME FixInv, FixInv', Kill
  PROVE  Promise!Lose \/ Promise!Raise
<1>1. /\ step \notin Over /\ step' = "killed" /\ UNCHANGED <<kept, base>>
      /\ backup' \in IF step \in {"drop", "restored"} THEN {"whole", "partial"} ELSE {backup}
  BY DEF Kill, repo
<1>2. Told = "no" /\ Left = {} /\ backup = "whole"
  BY <1>1, NothingTold
<1>3. Told' = "lost"
  BY <1>1 DEF Told
<1>4. CASE backup' = "whole"
  BY <1>1, <1>2, <1>3, <1>4 DEF Promise!Lose, Told, Left
<1>5. CASE backup' # "whole"
  <2>1. base \in {kept, {}}
    BY <1>1, <1>2, <1>5 DEF FixInv, AtEnd
  <2>2. Left' = base /\ (backup = "whole")' = FALSE
    BY <1>1, <1>5 DEF Left, Over
  <2> QED
    BY <1>1, <1>2, <1>3, <2>1, <2>2 DEF Promise!Raise, Promise!Ends, Told, Left
<1> QED
  BY <1>4, <1>5

\* Every step adds the item just kept, ends the stage as promised, or is not
\* seen: what the workspace holds after a return, an error or a kill is what the
\* promise says, for any number of items.
THEOREM StageKeepsPromise == FixSpec => KeepsPromise
<1>1. FixInit => Promise!Init
  <2> SUFFICES ASSUME FixInit PROVE Promise!Init
    OBVIOUS
  <2>1. kept = {} /\ step = "next" /\ backup = "whole"
    BY DEF FixInit
  <2>2. Told = "no" /\ Left = {}
    BY <2>1 DEF Told, Left, Over
  <2> QED
    BY <2>1, <2>2 DEF Promise!Init, Told, Left
<1>2. FixInv /\ FixInv' /\ [FixNext]_fixVars => [Promise!Next]_(Promise!vars)
  <2> SUFFICES ASSUME FixInv, FixInv', [FixNext]_fixVars
               PROVE  Promise!Next \/ UNCHANGED <<kept, Told, Left, backup = "whole">>
    BY DEF Promise!vars, Told, Left
  <2>1. CASE SkipItem \/ StartItem \/ Ask \/ NoEdit \/ Commit \/ DiscardRevision \/ Validate
    <3>1. step \notin Over /\ step' \notin Over /\ UNCHANGED kept
      BY <2>1 DEF SkipItem, StartItem, Record, Ask, NoEdit, Commit, DiscardRevision, Validate, Fails, Over
    <3> QED
      BY <3>1, GoesOn
  <2>2. CASE Gate \/ Review \/ Revert \/ Keep \/ Land \/ Finish \/ Recover
    <3>1. step \notin Over /\ step' \notin Over /\ UNCHANGED kept
      BY <2>2 DEF Gate, Review, Revert, Keep, Land, Finish, Recover, Fails, Over
    <3> QED
      BY <3>1, GoesOn
  <2>3. CASE Clock \/ Raise
    <3>1. step \notin Over /\ step' \notin Over /\ UNCHANGED kept
      BY <2>3 DEF Clock, Raise, Over
    <3> QED
      BY <3>1, GoesOn
  <2>4. CASE MarkKept
    BY <2>4, MarkKeptKeeps DEF Promise!Next
  <2>5. CASE DropBackup \/ DropRestored
    BY <2>5, DropBackupReturns, DropRestoredRaises DEF Promise!Next
  <2>6. CASE Restore
    BY <2>6, RestoreLoses DEF Promise!Next
  <2>7. CASE Kill
    BY <2>7, KillLoses DEF Promise!Next
  <2>8. CASE UNCHANGED fixVars
    BY <2>8 DEF fixVars, items, repo, snapshots, Told, Left
  <2> QED
    BY <2>1, <2>2, <2>3, <2>4, <2>5, <2>6, <2>7, <2>8 DEF FixNext, ItemStep, EndStep
<1> QED
  BY <1>1, <1>2, FixInvariant, PTL DEF FixSpec, KeepsPromise, Promise!Spec
=============================================================================
