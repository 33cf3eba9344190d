----------------------------- MODULE GraphQueries -----------------------------
(* The commands that read one snapshot, or two, and answer: `graph relevant`   *)
(* (graph-relevant.ts, graph-relevant-explain.ts), `graph top`, `context`,     *)
(* `wiki`, `report`, `coupled`, `diff --footprint` and `check-diff`.  What the *)
(* package code-graph computes (PageRank, hotspots, co-edits, rule results) is *)
(* an input here.  Texts, wording and tables are left out.                     *)
EXTENDS Integers, Sequences, FiniteSets, FiniteSetsExt, SequencesExt, Functions

CONSTANTS NoRole, NoVia, NoAuthor, NoFile, NoDrift,
          Lifetime,        \* a window above every number of days
          CharsPerToken, RowChars, Oversample   \* 4, 12 and 200 in the code

Prefix(seq, n) == SubSeq(seq, 1, Min({n, Len(seq)}))

(* -------------------------------------------------------------------------- *)
(* relevant: ranked is the sequence of node ids by PageRank; nodes maps an id  *)
(* to [kind, role, chars].                                                     *)
KeepRow(id, nodes, f) ==
  /\ id \notin f.seeds /\ id \in DOMAIN nodes
  /\ f.kinds # {} => nodes[id].kind \in f.kinds
  /\ id \notin f.excluded /\ (nodes[id].role = NoRole \/ nodes[id].role \notin f.excludedRoles)

SliceByLimit(ranked, limit) == Prefix(ranked, limit)

LineChars(ranked, nodes, n) == MapThenSumSet(LAMBDA i : nodes[ranked[i]].chars + RowChars, 1..n)

(* A mutant: the line that crosses the budget is still shown.                  *)
SliceByTokenBudget_Crossing(ranked, nodes, maxTokens) ==
  Prefix(ranked, 1 + Max({n \in 0..Len(ranked) : LineChars(ranked, nodes, n) <= maxTokens * CharsPerToken}))

(* The first row is shown whatever it costs.                                   *)
SliceByTokenBudget(ranked, nodes, maxTokens) ==
  Prefix(ranked, Max({1} \cup {n \in 0..Len(ranked) : LineChars(ranked, nodes, n) <= maxTokens * CharsPerToken}))

Relevant(ranked, nodes, f, o) ==
  LET kept == SelectSeq(ranked, LAMBDA id : KeepRow(id, nodes, f))
  IN IF o.maxTokens > 0 THEN SliceByTokenBudget(kept, nodes, o.maxTokens) ELSE SliceByLimit(kept, o.limit)

(* The first of the edges into a node that carry the most rank.                *)
TopInbound(id, edges, score, weight) ==
  LET into == {i \in DOMAIN edges : edges[i].dst = id}
      Carries(i) == score[edges[i].src] * weight[edges[i].kind]
      most == {i \in into : \A j \in into : Carries(j) <= Carries(i)}
  IN IF into = {} THEN NoVia ELSE edges[Min(most)].src

(* Of the authors of a file's lines the one of the most, the first of those.   *)
TopAuthor(file, entries) ==
  LET ours == {i \in DOMAIN entries : entries[i].file = file /\ entries[i].lines > 0}
      Lines(a) == MapThenSumSet(LAMBDA i : entries[i].lines, {i \in ours : entries[i].author = a})
      First(a) == Min({i \in ours : entries[i].author = a})
      authors == {entries[i].author : i \in ours}
      top == {a \in authors : \A b \in authors : Lines(b) <= Lines(a)}
  IN IF ours = {} THEN NoAuthor
     ELSE LET a == CHOOSE x \in top : \A y \in top : First(x) <= First(y)
          IN [author |-> a, lines |-> Lines(a), of |-> MapThenSumSet(LAMBDA i : entries[i].lines, ours)]

(* -------------------------------------------------------------------------- *)
(* top: the store gives the oversampled best, of which the generated and the   *)
(* excluded are dropped.                                                       *)
Eligible(id, nodes, f) ==
  nodes[id].role # "generated" /\ id \notin f.excluded
  /\ (nodes[id].role = NoRole \/ nodes[id].role \notin f.excludedRoles)
Top(ranked, nodes, f, desired) ==
  LET ofKind == SelectSeq(ranked, LAMBDA id : f.kinds # {} => nodes[id].kind \in f.kinds)
      raw == Prefix(ofKind, Max({desired * 4, Oversample}))
  IN Prefix(SelectSeq(raw, LAMBDA id : Eligible(id, nodes, f)), desired)

(* -------------------------------------------------------------------------- *)
(* The churn window each command reads, of those stored (a sequence), when     *)
(* another was asked for; context is asked for none by default (0).            *)
Finite(stored) == Range(stored) \ {Lifetime}
ContextWindow(stored, requested) ==
  IF requested # 0 THEN requested ELSE IF Finite(stored) # {} THEN Min(Finite(stored)) ELSE 30
WikiWindow(stored, requested) ==
  IF requested \in Finite(stored) \/ Finite(stored) = {} THEN requested
  ELSE SelectSeq(stored, LAMBDA w : w # Lifetime)[1]
ReportWindow(stored, requested) ==
  IF stored = <<>> \/ requested \in Range(stored) THEN requested
  ELSE IF Finite(stored) # {} THEN Max(Finite(stored)) ELSE Lifetime

(* context: a path is a sequence of words; a target is found in it or not.     *)
Includes(path, target) ==
  \E i \in 0..(Len(path) - Len(target)) : SubSeq(path, i + 1, i + Len(target)) = target
ResolveTarget(files, target) ==
  LET matches == {f \in files : Includes(f, target)}
  IN IF target \in files THEN target
     ELSE IF Cardinality(matches) = 1 THEN CHOOSE f \in matches : TRUE ELSE NoFile

(* coupled: an exact name, else the one of the co-edited files it is found in. *)
ResolveSeed(pairs, target) == ResolveTarget(UNION {pairs[i].files : i \in DOMAIN pairs}, target)
FilterPairs(pairs, excluded) == SelectSeq(pairs, LAMBDA p : p.files \cap excluded = {})
SeedRows(pairs, seed, limit) == Prefix(SelectSeq(pairs, LAMBDA p : seed \in p.files), limit)

(* -------------------------------------------------------------------------- *)
(* report: a snapshot has the files kept in its report, its stored windows and *)
(* its hotspots by window; the pairs come of the git log as it is now.         *)
TopCouplingClusters(snapshot, pairsNow, window, limit) ==
  Prefix(SelectSeq(pairsNow[window], LAMBDA p : p.files \subseteq snapshot.kept), limit)
CouplingOf(snapshot, pairsNow, window, limit) ==
  Range([i \in DOMAIN TopCouplingClusters(snapshot, pairsNow, window, limit) |->
           TopCouplingClusters(snapshot, pairsNow, window, limit)[i].files])
HotspotsOf(snapshot, window, limit) == Range(Prefix(snapshot.hotspots[window], limit))

(* A mutant: the baseline is read in the window asked for, not the one used.    *)
BaselineWindow_Asked(current, baseline, requested) == ReportWindow(baseline.windows, requested)

BaselineWindow(current, baseline, requested) ==
  ReportWindow(baseline.windows, ReportWindow(current.windows, requested))

Drift(current, baseline, pairsNow, requested, limit) ==
  LET window == ReportWindow(current.windows, requested)
      baseWindow == BaselineWindow(current, baseline, requested)
  IN IF baseline.id = current.id THEN NoDrift
     ELSE [newCoupling |-> CouplingOf(current, pairsNow, window, limit) \ CouplingOf(baseline, pairsNow, baseWindow, limit),
           goneCoupling |-> CouplingOf(baseline, pairsNow, baseWindow, limit) \ CouplingOf(current, pairsNow, window, limit),
           newHotspots |-> HotspotsOf(current, window, limit) \ HotspotsOf(baseline, baseWindow, limit),
           baseWindow |-> baseWindow, window |-> window]

(* -------------------------------------------------------------------------- *)
(* wiki: package ids are sequences of words; bucket maps a file to its chosen  *)
(* package.                                                                    *)
External == <<"(external)">>
FilterPackages(packages, chosen) == IF chosen = {} THEN packages ELSE SelectSeq(packages, LAMBDA p : p \in chosen)
PackageOf(f, bucket) == IF f \in DOMAIN bucket THEN bucket[f] ELSE External
CrossDeps(pkg, edges, bucket, outward) ==
  LET In(f) == f \in DOMAIN bucket /\ bucket[f] = pkg
      crossing == {i \in DOMAIN edges : In(edges[i].src) # In(edges[i].dst) /\ In(edges[i].src) = outward}
      Other(i) == PackageOf(IF outward THEN edges[i].dst ELSE edges[i].src, bucket)
      Of(q) == {i \in crossing : Other(i) = q}
  IN {[pkg |-> q, count |-> Cardinality(Of(q)), examples |-> {j \in Of(q) : Cardinality({k \in Of(q) : k <= j}) <= 3}] :
        q \in {Other(i) : i \in crossing}}

(* The most of the rows by count; of equal ones the ones first told.           *)
CutTo(rows, limit) == {S \in SUBSET rows : /\ Cardinality(S) = Min({limit, Cardinality(rows)})
                                           /\ \A r \in S, q \in rows \ S : r.count >= q.count}

TopCentral(ranked, pkg, bucket, limit) ==
  Prefix(SelectSeq(ranked, LAMBDA f : f \in DOMAIN bucket /\ bucket[f] = pkg), limit)
PageFilename(pkg) == [i \in DOMAIN pkg |-> IF pkg[i] = "/" THEN "-" ELSE pkg[i]]
WrittenPages(packages) ==   \* in the order of ids: a later page replaces an earlier
  [name \in {PageFilename(p) : p \in Range(packages)} |->
     packages[Max({i \in DOMAIN packages : PageFilename(packages[i]) = name})]]

(* The packages of a repository: manifests, none inside another, or the top    *)
(* directories.                                                                *)
DetectPackages(dirs, manifests, skipped) ==
  LET Below(d, e) == d # e /\ Len(d) < Len(e) /\ SubSeq(e, 1, Len(d)) = d
      Walked(d) == d \notin skipped /\ \A e \in dirs : Below(e, d) => e \notin skipped /\ e \notin manifests
      found == {d \in manifests : Walked(d)}
  IN IF found # {} THEN found ELSE {d \in dirs \ skipped : Len(d) = 1}

(* -------------------------------------------------------------------------- *)
(* check-diff: the findings of two snapshots, by rule.                         *)
BucketByRule(diff) ==
  [r \in {v.rule : v \in diff.new \cup diff.resolved \cup diff.worsened \cup diff.improved} |->
     [k \in DOMAIN diff |-> {v \in diff[k] : v.rule = r}]]

(* diff --footprint: units of symbols; a unit's hash is of its symbols'        *)
(* footprints.  gateUnits of the package compares it with a recorded one.      *)
FileUnits(footprints) ==   \* a symbol is <<file, name>>
  {[unit |-> f, symbols |-> {s \in DOMAIN footprints : s[1] = f}] : f \in {s[1] : s \in DOMAIN footprints}}
ProvenanceAt(units, footprints) ==
  {[unit |-> u.unit, hash |-> [s \in u.symbols \cap DOMAIN footprints |-> footprints[s]]] : u \in units}
Regenerate(prior, units, footprints) == {r.unit : r \in ProvenanceAt(units, footprints) \ prior}

(* -------------------------------------------------------------------------- *)
(* What is shown of a ranking is its best: no kept node outranks a shown one,  *)
(* a budget is exceeded by a single row only and has no room for the next; a   *)
(* node is said to be reached through an edge into it that none outweighs, and *)
(* to be by an author whom no other outwrites.                                 *)
RankingIsKept(ranked, nodes, f, o, edges, score, weight, entries) ==
  LET shown == Relevant(ranked, nodes, f, o)
      kept  == {i \in DOMAIN ranked : KeepRow(ranked[i], nodes, f)}
      Cost(n) == LineChars(shown, nodes, n)
  IN /\ \A i \in DOMAIN ranked, j \in kept :
          i \in kept /\ j < i /\ ranked[i] \in Range(shown) => ranked[j] \in Range(shown)
     /\ \A id \in Range(shown) : id \notin f.seeds \cup f.excluded
     /\ o.maxTokens = 0 => Len(shown) = Min({o.limit, Cardinality(kept)})
     /\ o.maxTokens > 0 =>
          /\ Len(shown) <= 1 \/ Cost(Len(shown)) <= o.maxTokens * CharsPerToken
          /\ \A j \in kept : ranked[j] \in Range(shown)
               \/ Cost(Len(shown)) + nodes[ranked[Min({k \in kept : ranked[k] \notin Range(shown)})]].chars + RowChars
                    > o.maxTokens * CharsPerToken
     /\ \A id \in DOMAIN nodes :
          LET via == TopInbound(id, edges, score, weight)
              top == TopAuthor(id, entries)
              Most(src) == Max({0} \cup {score[src] * weight[edges[i].kind] : i \in {j \in DOMAIN edges : edges[j].dst = id /\ edges[j].src = src}})
              By(a) == MapThenSumSet(LAMBDA i : entries[i].lines, {i \in DOMAIN entries : entries[i].file = id /\ entries[i].author = a})
          IN /\ via = NoVia <=> \A i \in DOMAIN edges : edges[i].dst # id
             /\ via # NoVia => \A src \in {edges[i].src : i \in DOMAIN edges} : Most(src) <= Most(via)
             /\ top # NoAuthor => \A i \in DOMAIN entries : By(entries[i].author) <= By(top.author)
             /\ top = NoAuthor <=> \A i \in DOMAIN entries : entries[i].file = id => entries[i].lines = 0

(* The list of the top nodes is as long as asked for, or leaves out no node it *)
(* might hold, unless what was dropped used up what the store gave.            *)
TopIsTop(ranked, nodes, f, desired) ==
  LET shown == Top(ranked, nodes, f, desired)
      fitting == {i \in DOMAIN ranked : f.kinds # {} => nodes[ranked[i]].kind \in f.kinds}
      mayShow == {i \in fitting : Eligible(ranked[i], nodes, f)}
  IN /\ \A i, j \in mayShow : j < i /\ ranked[i] \in Range(shown) => ranked[j] \in Range(shown)
     /\ \/ Len(shown) = Min({desired, Cardinality(mayShow)})
        \/ Cardinality(fitting \ mayShow) > Max({desired * 4, Oversample}) - desired

(* The window a report reads is stored if any is; a baseline that stores the   *)
(* window of the report is compared in it; and then a pair of files is new     *)
(* only if the baseline leaves one of them out, or its list is full: the pairs *)
(* are today's on both sides.                                                  *)
DriftComparesLikes(current, baseline, pairsNow, requested, limit) ==
  LET drift == Drift(current, baseline, pairsNow, requested, limit)
  IN drift # NoDrift =>
       /\ current.windows # <<>> => drift.window \in Range(current.windows)
       /\ baseline.windows # <<>> => drift.baseWindow \in Range(baseline.windows)
       /\ drift.window \in Range(baseline.windows) => drift.baseWindow = drift.window
       /\ drift.baseWindow = drift.window =>
            /\ \A p \in drift.newCoupling : ~(p \subseteq baseline.kept)
                 \/ Len(TopCouplingClusters(baseline, pairsNow, drift.window, limit)) = limit
            /\ current.kept = baseline.kept => drift.newCoupling \cup drift.goneCoupling = {}
            /\ current.hotspots[drift.window] = baseline.hotspots[drift.window] => drift.newHotspots = {}

(* A name answers for one file at most, and further files can make it          *)
(* ambiguous or exact, never turn it to a third file.                          *)
TargetsAreUnique(files, more, target) ==
  LET before == ResolveTarget(files, target)
      after  == ResolveTarget(files \cup more, target)
  IN /\ before # NoFile => Includes(before, target)
     /\ before # NoFile => after \in {before, NoFile} \cup (more \cap {target})
     /\ target \in files => before = target

(* The rows of a seed are its pairs, and none left out is more frequent.       *)
SeedsAreFollowed(pairs, excluded, target, limit) ==
  LET left == FilterPairs(pairs, excluded)
      seed == ResolveSeed(left, target)
      rows == SeedRows(left, seed, limit)
  IN seed # NoFile =>
       /\ seed \notin excluded /\ \A i \in DOMAIN rows : seed \in rows[i].files
       /\ \A p \in Range(left) \ Range(rows), i \in DOMAIN rows : seed \in p.files => p.count <= rows[i].count

(* What one package's page says it imports from another, the other's says is   *)
(* imported from it, unless either list is cut; no package lies in another;    *)
(* and a page replaces another exactly if their ids read the same with dashes. *)
WikiAgrees(edges, packages, chosen, BucketOf, dirs, manifests, skipped, limit) ==
  LET bucket == [f \in {g \in DOMAIN BucketOf : BucketOf[g] \in Range(FilterPackages(packages, chosen))} |-> BucketOf[f]]
      ours   == Range(FilterPackages(packages, chosen))
      found  == DetectPackages(dirs, manifests, skipped)
      pages  == WrittenPages(FilterPackages(packages, chosen))
  IN /\ \A p, q \in ours : p # q =>
          {[count |-> r.count, examples |-> r.examples] : r \in {x \in CrossDeps(p, edges, bucket, TRUE) : x.pkg = q}}
            = {[count |-> r.count, examples |-> r.examples] : r \in {x \in CrossDeps(q, edges, bucket, FALSE) : x.pkg = p}}
     /\ \A p \in ours : \A rows \in CutTo(CrossDeps(p, edges, bucket, TRUE), limit) :
          \A r \in rows : r.pkg # p /\ Cardinality(r.examples) = Min({3, r.count})
     /\ \A d, e \in found : d # e => ~(Len(d) < Len(e) /\ SubSeq(e, 1, Len(d)) = d)
     /\ \A p \in ours : pages[PageFilename(p)] = p
          \/ \E q \in ours \ {p} : PageFilename(q) = PageFilename(p)

(* A finding of either snapshot is told once, under its rule; and a file's     *)
(* text is written anew exactly if its symbols or one's footprint changed.     *)
DiffsAreTold(diff, before, after) ==
  LET buckets == BucketByRule(diff)
  IN /\ \A k \in DOMAIN diff : \A v \in diff[k] : {r \in DOMAIN buckets : v \in buckets[r][k]} = {v.rule}
     /\ Regenerate(ProvenanceAt(FileUnits(before), before), FileUnits(after), after)
          = {f \in {s[1] : s \in DOMAIN after} : \E s \in DOMAIN before \cup DOMAIN after :
               s[1] = f /\ ~(s \in DOMAIN before /\ s \in DOMAIN after /\ before[s] = after[s])}
=============================================================================
