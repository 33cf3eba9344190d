---------------------------- MODULE DashboardViews ----------------------------
(* What the views of the dashboard list of one payload, and what is left of    *)
(* that under the filter (App.tsx, views/, driftBadge.tsx, the tiles of        *)
(* Treemap.tsx).  Colours, sizes and places of what is drawn are left out; of  *)
(* numbers only those that are compared or counted are kept.                   *)
EXTENDS Integers, Sequences, FiniteSets, FiniteSetsExt, SequencesExt, Functions

CONSTANTS NoDrift, NoLead, NotBefore, NoMark, Rest,
          ScaryScore,                 \* SCARY_SCORE
          ShownConsumers,             \* 5
          LookRows,                   \* 8
          LabelMinSep                 \* 0.12, in the unit of the packages' places

(* The rows in descending order of their keys, equal ones in their own.        *)
Descending(rows, key) ==
  [n \in DOMAIN rows |->
     rows[CHOOSE i \in DOMAIN rows :
            Cardinality({j \in DOMAIN rows : key[j] > key[i] \/ (key[j] = key[i] /\ j < i)}) = n - 1]]
Key(rows, field) == [i \in DOMAIN rows |-> rows[i][field]]
Negated(key) == [i \in DOMAIN key |-> -key[i]]

(* -------------------------------------------------------------------------- *)
(* applyQuery: hits are the files and names that the filter's text is part of. *)
OfFiles(rows, hits) == SelectSeq(rows, LAMBDA r : r.node \in hits)
OfPairs(rows, hits) == SelectSeq(rows, LAMBDA r : {r.a, r.b} \cap hits # {})

(* A mutant: the improved files of the drift are not narrowed.                 *)
ApplyQuery_AllImproved(data, hits) ==
  [data EXCEPT
     !.hotspots = OfFiles(@, hits), !.busFactorRisks = OfFiles(@, hits), !.centralFiles = OfFiles(@, hits),
     !.couplingClusters = OfPairs(@, hits), !.violations = OfFiles(@, hits),
     !.blastRadius = SelectSeq(@, LAMBDA e : {e.node, e.name} \cap hits # {}),
     !.drift = IF @ = NoDrift THEN @ ELSE
       [@ EXCEPT !.newHotspots = OfFiles(@, hits), !.worsened = OfFiles(@, hits),
                 !.resolved = OfFiles(@, hits), !.newCoupling = OfPairs(@, hits)]]

ApplyQuery(data, hits) ==
  [data EXCEPT
     !.hotspots = OfFiles(@, hits), !.busFactorRisks = OfFiles(@, hits), !.centralFiles = OfFiles(@, hits),
     !.couplingClusters = OfPairs(@, hits), !.violations = OfFiles(@, hits),
     !.blastRadius = SelectSeq(@, LAMBDA e : {e.node, e.name} \cap hits # {}),
     !.drift = IF @ = NoDrift THEN @ ELSE
       [@ EXCEPT !.newHotspots = OfFiles(@, hits), !.worsened = OfFiles(@, hits), !.improved = OfFiles(@, hits),
                 !.resolved = OfFiles(@, hits), !.newCoupling = OfPairs(@, hits)]]

(* -------------------------------------------------------------------------- *)
(* CouplingView and the dossier's list of a file.                              *)
Pairs(data) == Descending(data.couplingClusters, Key(data.couplingClusters, "coEdits"))
HiddenPairs(data) == SelectSeq(Pairs(data), LAMBDA p : p.hidden)
Unverifiable(data) == SelectSeq(Pairs(data), LAMBDA p : p.unindexed)
ExpectedPairs(data) == SelectSeq(Pairs(data), LAMBDA p : ~p.hidden /\ ~p.unindexed)
CoupledWith(data, id) == SelectSeq(data.couplingClusters, LAMBDA c : id \in {c.a, c.b})

(* Of an export the consumers named, of those the payload holds, and how many  *)
(* more are told of.                                                           *)
ConsumerRow(symbol) ==
  LET named == Min({ShownConsumers, Len(symbol.consumers)})
  IN [named |-> SubSeq(symbol.consumers, 1, named),
      more |-> IF symbol.consumerCount > named THEN symbol.consumerCount - named ELSE 0]

(* -------------------------------------------------------------------------- *)
(* DriftView, and the marks of the hotspots that are of the drift.             *)
Worsened(drift) == Descending(drift.worsened, Key(drift.worsened, "delta"))
Improved(drift) == Descending(drift.improved, Negated(Key(drift.improved, "delta")))
Newborn(drift)  == SelectSeq(drift.newHotspots, LAMBDA h : h.before = NotBefore)
Risen(drift) ==
  LET old == SelectSeq(drift.newHotspots, LAMBDA h : h.before # NotBefore)
  IN Descending(old, Key(old, "score"))
RegressionLead(data) ==
  LET violating == SelectSeq(Worsened(data.drift), LAMBDA d : \E v \in Range(data.violations) : v.node = d.node)
      last(file) == Max({i \in DOMAIN data.violations : data.violations[i].node = file})
  IN IF violating = <<>> THEN NoLead
     ELSE [node |-> violating[1].node, delta |-> violating[1].delta,
           violation |-> data.violations[last(violating[1].node)]]

DriftMark(drift, file) ==
  LET last(rows) == rows[Max({i \in DOMAIN rows : rows[i].node = file})]
  IN IF drift = NoDrift THEN NoMark
     ELSE IF \E d \in Range(drift.worsened) : d.node = file THEN "worsened"
     ELSE IF \E h \in Range(drift.newHotspots) : h.node = file
          THEN IF last(drift.newHotspots).before = NotBefore THEN "new-file" ELSE "risen"
     ELSE NoMark

(* -------------------------------------------------------------------------- *)
(* FitnessView: the tallies and the groups of the violations listed.           *)
Tally(data) == [s \in {"new", "carry", "fixed"} |-> Cardinality({i \in DOMAIN data.violations : data.violations[i].status = s})]
GuardrailHolding(data) == Tally(data).new = 0
ByRule(data) ==
  [r \in Range(Key(data.violations, "rule")) |-> SelectSeq(data.violations, LAMBDA v : v.rule = r)]

(* HotspotsView and BlastRadiusView: the rows of the package picked, by the    *)
(* column picked.                                                              *)
PackagePills(rows) == {"all"} \cup Range(Key(rows, "pkg"))
TableRows(rows, pkg, sort) ==
  LET ofPkg == IF pkg = "all" THEN rows ELSE SelectSeq(rows, LAMBDA r : r.pkg = pkg)
  IN Descending(ofPkg, Key(ofPkg, sort))

(* OverviewView.                                                               *)
Reasons(data, h) ==
  LET found == (IF h.score >= ScaryScore THEN {"scary hotspot"} ELSE {})
                 \cup (IF \E v \in Range(data.violations) : v.node = h.node THEN {"violation"} ELSE {})
  IN IF found = {} THEN {"high churn"} ELSE found
WhereToLook(data) ==
  [i \in 1..Min({LookRows, Len(data.hotspots)}) |->
     [node |-> data.hotspots[i].node, reasons |-> Reasons(data, data.hotspots[i])]]

(* OwnershipView: what is told, and of whom.                                   *)
Ownership(data) ==
  LET risks == data.testCoverageRisks
      tests == Range(Key(risks, "linkedTests"))
  IN IF data.churnUnavailable THEN [tells |-> "unavailable", rows |-> <<>>]
     ELSE IF data.authorCount # 1 THEN [tells |-> "silos", rows |-> data.busFactorRisks]
     ELSE IF risks # <<>> /\ Min(tests) = Max(tests \cup {1}) THEN [tells |-> "nothing to rank", rows |-> <<>>]
     ELSE [tells |-> "breadth", rows |-> Descending(risks, Negated(Key(risks, "linkedTests")))]

(* ArchitectureView: the packages plotted, and those whose points are named.   *)
Plotted(packages) == SelectSeq(packages, LAMBDA p : p.fileCount > 0 /\ p.crossEdges > 0)
RankedPackages(packages) == Descending(packages, Negated(Key(packages, "cohesion")))
Apart(p, q) ==
  (p.instability - q.instability) * (p.instability - q.instability)
    + (p.cohesion - q.cohesion) * (p.cohesion - q.cohesion) >= LabelMinSep * LabelMinSep
LegibleLabels(packages) ==
  LET ranked == RankedPackages(packages)
      placed[n \in 0..Len(packages)] ==
        IF n = 0 THEN {}
        ELSE placed[n - 1] \cup (IF \A i \in placed[n - 1] : Apart(ranked[i], ranked[n]) THEN {n} ELSE {})
  IN {ranked[i] : i \in placed[Len(packages)]}

(* The tiles of a treemap: the largest, and one for all the others.            *)
Tiles(data, maxTiles) ==
  LET clean == Descending(SelectSeq(data, LAMBDA d : d.score > 0),
                          Key(SelectSeq(data, LAMBDA d : d.score > 0), "score"))
      folded == maxTiles..Len(clean)
  IN IF Len(clean) <= maxTiles THEN clean
     ELSE Append(SubSeq(clean, 1, maxTiles - 1),
                 [node |-> Rest, score |-> MapThenSumSet(LAMBDA i : clean[i].score, folded), files |-> Cardinality(folded)])

(* -------------------------------------------------------------------------- *)
(* Under the filter a view lists of what it lists without exactly the rows of  *)
(* the files the filter is part of, in the order they have without it, and     *)
(* says of each what it says without.                                          *)
FilterOnlyNarrows(data, hits) ==
  LET narrow == ApplyQuery(data, hits)
      Same(rows, some) == some = OfFiles(rows, hits)
  IN /\ HiddenPairs(narrow) = OfPairs(HiddenPairs(data), hits)
     /\ ExpectedPairs(narrow) = OfPairs(ExpectedPairs(data), hits)
     /\ Unverifiable(narrow) = OfPairs(Unverifiable(data), hits)
     /\ \A r \in DOMAIN ByRule(data) :
          IF r \in DOMAIN ByRule(narrow) THEN Same(ByRule(data)[r], ByRule(narrow)[r]) ELSE OfFiles(ByRule(data)[r], hits) = <<>>
     /\ \A sort \in {"score", "churn"}, pkg \in PackagePills(narrow.hotspots) :
          Same(TableRows(data.hotspots, pkg, sort), TableRows(narrow.hotspots, pkg, sort))
     /\ \A i \in DOMAIN narrow.hotspots :
          DriftMark(narrow.drift, narrow.hotspots[i].node) = DriftMark(data.drift, narrow.hotspots[i].node)
     /\ WhereToLook(narrow) =
          [i \in 1..Min({LookRows, Len(narrow.hotspots)}) |->
             [node |-> OfFiles(data.hotspots, hits)[i].node, reasons |-> Reasons(data, OfFiles(data.hotspots, hits)[i])]]
     /\ GuardrailHolding(data) => GuardrailHolding(narrow)
     /\ \A f \in hits : CoupledWith(narrow, f) = CoupledWith(data, f)
     /\ data.drift # NoDrift =>
          /\ Same(Worsened(data.drift), Worsened(narrow.drift)) /\ Same(Improved(data.drift), Improved(narrow.drift))
          /\ Same(Newborn(data.drift), Newborn(narrow.drift)) /\ Same(Risen(data.drift), Risen(narrow.drift))
          /\ RegressionLead(data) # NoLead /\ RegressionLead(data).node \in hits => RegressionLead(narrow) = RegressionLead(data)
     /\ narrow.testCoverageRisks = data.testCoverageRisks /\ narrow.packages = data.packages

(* Each pair is in one list of the view; a file's mark says in which list of   *)
(* the drift it is; what leads the drift is a file that worsened and breaks a  *)
(* rule, and no other such file worsened more; the tallies count every         *)
(* violation once.                                                             *)
ViewsTellTheSame(data) ==
  /\ \A p \in Range(data.couplingClusters) :
       Cardinality({l \in {"h", "u", "e"} : p \in Range(CASE l = "h" -> HiddenPairs(data)
                                                         [] l = "u" -> Unverifiable(data)
                                                         [] OTHER -> ExpectedPairs(data))}) = 1
  /\ data.drift # NoDrift =>
       LET drift == data.drift
           Lists(rows) == Range(Key(rows, "node"))
           both == {d \in Range(drift.worsened) : \E v \in Range(data.violations) : v.node = d.node}
       IN /\ \A h \in Range(data.hotspots) :
               /\ DriftMark(drift, h.node) = "worsened" <=> h.node \in Lists(Worsened(drift))
               /\ DriftMark(drift, h.node) = "new-file" <=> h.node \in Lists(Newborn(drift))
               /\ DriftMark(drift, h.node) = "risen" <=> h.node \in Lists(Risen(drift))
          /\ RegressionLead(data) = NoLead <=> both = {}
          /\ RegressionLead(data) # NoLead =>
               /\ RegressionLead(data).violation.node = RegressionLead(data).node
               /\ \A d \in both : d.delta <= RegressionLead(data).delta
  /\ MapThenSumSet(LAMBDA s : Tally(data)[s], DOMAIN Tally(data)) = Len(data.violations)
  /\ MapThenSumSet(LAMBDA r : Len(ByRule(data)[r]), DOMAIN ByRule(data)) = Len(data.violations)

(* Of two names on the plot neither covers the other, and a package that is    *)
(* not named lies near a named one that is no more cohesive; the tiles of a    *)
(* map have the weight of all files, and none outweighs a file shown by name;  *)
(* consumers not named are told of; a breadth that ranks nothing is not ranked.*)
PlotsAreLegible(packages, rows, maxTiles, symbol, data) ==
  LET shown == Plotted(packages)
      named == LegibleLabels(shown)
      tiles == Tiles(rows, maxTiles)
      real  == {d \in Range(rows) : d.score > 0}
      told  == Ownership(data)
  IN /\ \A p, q \in named : p # q => Apart(p, q)
     /\ \A p \in Range(shown) \ named : \E q \in named : ~Apart(p, q) /\ q.cohesion <= p.cohesion
     /\ Len(tiles) = Min({maxTiles, Cardinality(real)})
     /\ MapThenSumSet(LAMBDA i : tiles[i].score, DOMAIN tiles) = MapThenSumSet(LAMBDA d : d.score, real)
     /\ \A t \in Range(tiles) : t.node = Rest => t.files = Cardinality(real) - Len(tiles) + 1
     /\ \A t \in Range(tiles), d \in real :
          t.node # Rest /\ d.node \notin Range(Key(tiles, "node")) => d.score <= t.score
     /\ Len(ConsumerRow(symbol).named) + ConsumerRow(symbol).more = symbol.consumerCount
     /\ told.tells = "breadth" =>
          \A i, j \in DOMAIN told.rows : i < j => told.rows[i].linkedTests <= told.rows[j].linkedTests
     /\ told.tells = "nothing to rank" =>
          \A r, s \in Range(data.testCoverageRisks) : r.linkedTests = s.linkedTests
=============================================================================
