----------------------------- MODULE Dashboard -----------------------------
(* The payload of the status dashboard: one for each churn window, from the    *)
(* report of that window and what the snapshot says without one                *)
(* (commands/dashboard-payload.ts, -node-metrics.ts, -symbol-coupling.ts,      *)
(* -health.ts, -windows.ts, graph-report.ts), and the partners of a file       *)
(* (graph-coupled.ts).  The sections of a report are sets: how they are ranked *)
(* and cut is code-graph's.  Another process may index between the windows, so *)
(* each report names its snapshot.                                             *)
EXTENDS Integers, Sequences, FiniteSets, FiniteSetsExt, SequencesExt

CONSTANTS Lifetime,       \* a number above every other window
          DEFAULT_WINDOWS,
          NoDrift, NoSeed, Ambiguous,
          ScaryScore, Budget,   \* 3000 and 30 in the code
          MaxHot, MaxBlast, MAX_GROUPS, MAX_SYMBOLS_PER_GROUP, MIN_SHARED_CONSUMERS

(* -------------------------------------------------------------------------- *)
(* Windows.                                                                    *)
WindowsList(primary, stored) ==
  SetToSortSeq(({primary} \cup (DEFAULT_WINDOWS \cap stored)) \cup ({Lifetime} \cap stored), <)

(* The window a report asked for is of: the widest finite one if it is not     *)
(* stored.                                                                     *)
ResolveWindowDays(available, requested) ==
  IF available = {} \/ requested \in available THEN requested
  ELSE IF available \ {Lifetime} # {} THEN Max(available \ {Lifetime}) ELSE Lifetime

(* -------------------------------------------------------------------------- *)
(* What a snapshot says: [nodes, edges, refs, rows, centrality], an edge       *)
(* [src, dst, kind], a symbol node [id, file, exported], a row                 *)
(* [node, field, value].                                                       *)
LinkKinds == {"imports", "re-exports"}
RepoLinks(s) == {e \in s.edges : e.kind \in LinkKinds /\ ~e.external}
LinkedPairs(s) == {{e.src, e.dst} : e \in RepoLinks(s)}
ConnectedNodes(s) == UNION LinkedPairs(s)
Metric(s, node, field, otherwise) ==
  LET told == {r \in s.rows : r.node = node /\ r.field = field}
  IN IF told = {} THEN otherwise ELSE (CHOOSE r \in told : TRUE).value
Measured(s, node) == \E r \in s.rows : r.node = node
CollectSymbolUtil(s) ==
  {[symbol |-> n.id, file |-> n.file, exported |-> n.exported, utilization |-> Metric(s, n.id, "utilization", 0)] : n \in s.nodes}
ConsumersBySymbol(s, x) == Cardinality({e \in s.refs : e.dst = x})

ClassifyCoupling(pair, s) ==
  LET unindexed == ~(pair \subseteq ConnectedNodes(s))
  IN [hidden |-> ~unindexed /\ pair \notin LinkedPairs(s), unindexed |-> unindexed]

(* -------------------------------------------------------------------------- *)
(* A report is [snap, hotspots, silos, coverage, coupling, central, drift]: a  *)
(* hotspot [id, churn, complexity, score], a cluster a pair of files, a        *)
(* central file [id, score], a drift [hotspots, coupling].                     *)
HotFiles(report) == {h.id : h \in report.hotspots}
ReferencedNodes(report) ==
  UNION {HotFiles(report), report.silos, report.coverage, UNION report.coupling, {c.id : c \in report.central},
         IF report.drift = NoDrift THEN {} ELSE report.drift.hotspots \cup UNION report.drift.coupling}
BuildNodeMetrics(report, s) == {id \in ReferencedNodes(report) : Measured(s, id)}
BuildCentralFiles(report, s) ==
  LET named == UNION {HotFiles(report), report.silos, UNION report.coupling} \ {c.id : c \in report.central}
  IN report.central \cup {[id |-> id, score |-> s.centrality[id]] : id \in named}

(* A mutant: one cap over the exports and the helpers of a file.               *)
BuildHotExports_OneCap(symbols, s) ==
  LET Rank(x) == x.utilization * 100 + Metric(s, x.symbol, "cognitive", 0)
  IN {x \in symbols : Cardinality({y \in symbols : Rank(y) > Rank(x)}) < MaxHot}

(* The symbols of one file that are shown; which of several that tie is left   *)
(* to the order of the nodes, here the order of ids.                           *)
BuildHotExports(symbols, s) ==
  LET Cognitive(x) == Metric(s, x.symbol, "cognitive", 0)
      Before(x, y) == \/ x.exported /\ x.utilization > y.utilization
                      \/ (x.exported => x.utilization = y.utilization) /\ Cognitive(x) > Cognitive(y)
                      \/ (x.exported => x.utilization = y.utilization) /\ Cognitive(x) = Cognitive(y) /\ x.symbol < y.symbol
  IN {x \in symbols : Cardinality({y \in symbols : y.exported = x.exported /\ Before(y, x)}) < MaxHot}
HotExports(report, s) ==
  [f \in {x.file : x \in CollectSymbolUtil(s)} \cap ReferencedNodes(report) |->
     BuildHotExports({x \in CollectSymbolUtil(s) : x.file = f}, s)]

BuildBlastRadius(report, s) ==
  LET Churn(f) == IF f \in HotFiles(report) THEN (CHOOSE h \in report.hotspots : h.id = f).churn ELSE 0
      Score(x) == x.utilization * Metric(s, x.symbol, "cognitive", Metric(s, x.file, "cognitive", 0)) * Churn(x.file)
      risky == {x \in CollectSymbolUtil(s) : Score(x) > 0}
      Before(x, y) == Score(x) > Score(y) \/ (Score(x) = Score(y) /\ x.symbol < y.symbol)
  IN {[symbol |-> x.symbol, file |-> x.file, score |-> Score(x)] :
        x \in {y \in risky : Cardinality({z \in risky : Before(z, y)}) < MaxBlast}}

(* Symbols that several files consume, by the file that declares them.         *)
BuildConsumerGroups(s) ==
  LET Users(x) == {e.src : e \in {r \in s.refs : r.dst = x}}
      shared == {n \in s.nodes : Cardinality(Users(n.id)) >= MIN_SHARED_CONSUMERS}
      More(x, y) == Cardinality(Users(x.id)) > Cardinality(Users(y.id))
                    \/ (Cardinality(Users(x.id)) = Cardinality(Users(y.id)) /\ x.id < y.id)
      Kept(f) == {n \in shared : n.file = f /\ Cardinality({m \in shared : m.file = f /\ More(m, n)}) < MAX_SYMBOLS_PER_GROUP}
      groups == {[file |-> f, symbols |-> {n.id : n \in Kept(f)}, total |-> MapThenSumSet(LAMBDA n : Cardinality(Users(n.id)), Kept(f))] :
                   f \in {n.file : n \in shared}}
      Before(g, h) == LET m == Cardinality(g.symbols) n == Cardinality(h.symbols)
                      IN m > n \/ (m = n /\ g.total > h.total) \/ (m = n /\ g.total = h.total /\ g.file < h.file)
  IN {g \in groups : Cardinality({h \in groups : Before(h, g)}) < MAX_GROUPS}

(* -------------------------------------------------------------------------- *)
(* The score: four capped penalties.                                           *)
ComputeHealth(scary, new, carry, complexity, hidden) ==
  LET parts == <<Min({30, scary * 10}), Min({20, new * 8 + carry * 3}), Min({15, Max({0, complexity - Budget})}), Min({10, hidden * 2})>>
  IN [health |-> Max({0, 100 - (parts[1] + parts[2] + parts[3] + parts[4])}), parts |-> parts]

(* violations are [rule, status, of].                                          *)
BuildPayload(report, violations, s, authors) ==
  LET Open(status) == {v \in violations : v.status = status}
      Penalised(status) == Cardinality({v \in Open(status) : v.rule # "scary-hotspots"})
      scary  == Cardinality({h \in report.hotspots : h.score >= ScaryScore})
      worst  == Max({0} \cup {h.complexity : h \in report.hotspots})
      hidden == Cardinality({c \in report.coupling : ClassifyCoupling(c, s).hidden})
  IN [snap |-> report.snap,
      kpis |-> [health |-> ComputeHealth(scary, Penalised("new"), Penalised("carry"), worst, hidden),
                scary |-> scary, silos |-> Cardinality(report.silos), worst |-> worst,
                open |-> Cardinality(Open("new")) + Cardinality(Open("carry"))],
      hotspots |-> report.hotspots, silos |-> report.silos, coverage |-> report.coverage,
      coupling |-> {[pair |-> c, class |-> ClassifyCoupling(c, s)] : c \in report.coupling},
      central |-> BuildCentralFiles(report, s), metrics |-> BuildNodeMetrics(report, s),
      exports |-> HotExports(report, s), blast |-> BuildBlastRadius(report, s),
      violations |-> violations, drift |-> report.drift, authors |-> authors]

WindowSignature(p) == <<p.hotspots, p.silos, p.coverage, p.coupling, p.violations, p.central, p.kpis, p.authors>>

(* The windows in order: one that says the same as an earlier one is dropped,  *)
(* and the primary key then is the earlier one's.  snapshots is by snapshot.   *)
KeepWindow(done, w, primary, payload) ==
  LET same == {k \in DOMAIN done.windows : WindowSignature(done.windows[k]) = WindowSignature(payload)}
      key  == IF same = {} THEN w ELSE CHOOSE k \in same : TRUE
  IN [windows |-> IF same = {} THEN [k \in DOMAIN done.windows \cup {w} |-> IF k = w THEN payload ELSE done.windows[k]]
                  ELSE done.windows,
      primaryKey |-> IF w = primary THEN key ELSE done.primaryKey,
      snapshotId |-> payload.snap]
RECURSIVE KeepWindows(_, _, _, _)
KeepWindows(done, list, primary, payloadOf) ==
  IF list = <<>> THEN done
  ELSE KeepWindows(KeepWindow(done, Head(list), primary, payloadOf[Head(list)]), Tail(list), primary, payloadOf)
ComputeWindowPayloads(primary, stored, payloadOf) ==
  KeepWindows([windows |-> <<>>, primaryKey |-> primary, snapshotId |-> 0], WindowsList(primary, stored), primary, payloadOf)

(* -------------------------------------------------------------------------- *)
(* The partners of a file: an exact name, or the only one it is a part of.     *)
FilterPairs(pairs, excluded) == {p \in pairs : p.pair \cap excluded = {}}
ResolveSeed(raw, pairs, contains) ==
  LET seen == UNION {p.pair : p \in pairs}
      matches == seen \cap contains
  IN CASE raw \in seen -> raw
       [] raw \notin seen /\ Cardinality(matches) = 1 -> CHOOSE f \in matches : TRUE
       [] OTHER -> IF matches = {} THEN NoSeed ELSE Ambiguous
SeedRows(pairs, seed) == {[partner |-> CHOOSE f \in p.pair : f # seed, count |-> p.count] : p \in {q \in pairs : seed \in q.pair}}

(* -------------------------------------------------------------------------- *)
(* Each window is shown, under its own key or that of an earlier window with   *)
(* the same content, the primary one by the page's first payload; and what a   *)
(* payload shows is of one snapshot even if another is indexed in between:     *)
(* each hotspot, silo and coupled file has its centrality, each file that can  *)
(* be opened its metrics and symbols, helpers as well as exports.              *)
DashboardIsTrue(primary, stored, reportOf, snapshots, violations, authorsOf) ==
  LET Payload(w) == BuildPayload(reportOf[w], violations, snapshots[reportOf[w].snap], authorsOf[w])
      list == WindowsList(primary, stored)
      done == ComputeWindowPayloads(primary, stored, [w \in Range(list) |-> Payload(w)])
      Says(k, w) == WindowSignature(done.windows[k]) = WindowSignature(Payload(w))
      Symbols(w, f) == {x \in CollectSymbolUtil(snapshots[reportOf[w].snap]) : x.file = f}
      Those(xs, exported) == {x \in xs : x.exported = exported}
  IN /\ primary \in Range(list) /\ Says(done.primaryKey, primary)
     /\ \A w \in Range(list) : \E k \in DOMAIN done.windows : k <= w /\ Says(k, w) /\ (w \in DOMAIN done.windows => k = w)
     /\ \A k, l \in DOMAIN done.windows : WindowSignature(done.windows[k]) = WindowSignature(done.windows[l]) => k = l
     /\ \A w \in DOMAIN done.windows :
          LET p == done.windows[w]
              s == snapshots[p.snap]
          IN /\ \A id \in UNION {HotFiles(reportOf[w]), p.silos, UNION {c.pair : c \in p.coupling}} :
                  Cardinality({c \in p.central : c.id = id}) = 1
             /\ \A c \in p.central : c \in reportOf[w].central \/ c.score = s.centrality[c.id]
             /\ \A c \in p.coupling : /\ c.class.hidden => \A e \in s.edges : {e.src, e.dst} # c.pair \/ e.external \/ e.kind \notin LinkKinds
                                      /\ c.class.hidden => ~c.class.unindexed
             /\ p.kpis.health.parts[4] = Min({10, 2 * Cardinality({c \in p.coupling : c.class.hidden})})
             /\ p.kpis.health.health \in 25..100
             /\ \A f \in DOMAIN p.exports : \A exported \in BOOLEAN :
                  Cardinality(Those(p.exports[f], exported)) = Min({MaxHot, Cardinality(Those(Symbols(w, f), exported))})
             /\ \A x \in s.nodes : x.file \in ReferencedNodes(reportOf[w]) => x.file \in DOMAIN p.exports
             /\ \A b \in p.blast : b.file \in p.metrics \cup HotFiles(reportOf[w]) /\ b.score > 0

(* Every shared symbol is in its file's group or gives way to one with as many *)
(* consumers, and a group left out is no larger than one shown.                *)
GroupsShowTheShared(s) ==
  LET shown == BuildConsumerGroups(s)
      Users(x) == Cardinality({e.src : e \in {r \in s.refs : r.dst = x}})
      Of(f) == {n \in s.nodes : n.file = f /\ Users(n.id) >= MIN_SHARED_CONSUMERS}
  IN /\ \A g \in shown : /\ Cardinality(g.symbols) = Min({MAX_SYMBOLS_PER_GROUP, Cardinality(Of(g.file))})
                         /\ \A n \in Of(g.file) : n.id \in g.symbols \/ \A x \in g.symbols : Users(x) >= Users(n.id)
                         /\ g.total = MapThenSumSet(LAMBDA x : Users(x), g.symbols)
     /\ \A n \in s.nodes : Users(n.id) >= MIN_SHARED_CONSUMERS /\ n.file \notin {g.file : g \in shown} =>
          /\ Cardinality(shown) = MAX_GROUPS
          /\ \A g \in shown : Cardinality(g.symbols) >= Min({MAX_SYMBOLS_PER_GROUP, Cardinality(Of(n.file))})

(* A file named exactly is never ambiguous, and partners are mutual.           *)
PartnersAreMutual(pairs, excluded, raw, contains) ==
  LET left == FilterPairs(pairs, excluded)
      seed == ResolveSeed(raw, left, contains)
  IN /\ raw \in UNION {p.pair : p \in left} => seed = raw
     /\ seed \notin {NoSeed, Ambiguous} =>
          /\ SeedRows(left, seed) # {} /\ seed \notin excluded
          /\ \A r \in SeedRows(left, seed) : r.partner \notin excluded
               /\ \E q \in SeedRows(left, r.partner) : q.partner = seed /\ q.count = r.count
=============================================================================
