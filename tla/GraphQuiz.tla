----------------------------- MODULE GraphQuiz -----------------------------
(* The comprehension and retrieval suites an agent is asked about a snapshot   *)
(* (eval/oracle.ts, stratify.ts, retrieval.ts), and the scores of its answers  *)
(* (grader.ts, retrieval-grader.ts).  A file is [path, ext], its name one      *)
(* token; a symbol is [file, tokens]; a reference is [src, dst, spec].  Scores *)
(* are fractions <<n, d>>.                                                     *)
EXTENDS CodingGrade, SequencesExt, FiniteSetsExt, TLC

CONSTANTS EXTENSIONS,   \* in the order tried, the empty one first
          Unresolved    \* null

(* -------------------------------------------------------------------------- *)
(* How an agent without the graph could discover a reference.                  *)
RECURSIVE NormalizePosix(_, _)
NormalizePosix(out, segments) ==
  IF segments = <<>> THEN out
  ELSE NormalizePosix(IF Head(segments) = "." THEN out
                      ELSE IF Head(segments) # ".." THEN Append(out, Head(segments))
                      ELSE SubSeq(out, 1, Len(out) - 1), Tail(segments))

(* A mutant: the specifier is read from the file, not from its directory.      *)
ResolveRelativeSpecifier_FromSource(src, spec, files) ==
  LET stem  == NormalizePosix(<<>>, src.path \o spec.path)
      tries == [i \in DOMAIN EXTENSIONS |-> [path |-> stem, ext |-> EXTENSIONS[i]]]
      found == SelectSeq(tries, LAMBDA t : t \in files)
  IN IF ~spec.relative \/ found = <<>> THEN Unresolved ELSE found[1]

(* The index of the root is not found: its name would begin with a slash.      *)
ResolveRelativeSpecifier(src, spec, files) ==
  LET stem  == NormalizePosix(<<>>, Front(src.path) \o spec.path)
      tries == [i \in DOMAIN EXTENSIONS |-> [path |-> stem, ext |-> EXTENSIONS[i]]]
      index == [i \in DOMAIN EXTENSIONS |-> [path |-> Append(stem, "index"), ext |-> EXTENSIONS[i]]]
      found == SelectSeq(tries \o IF stem = <<>> THEN <<>> ELSE Tail(index), LAMBDA t : t \in files)
  IN IF ~spec.relative \/ found = <<>> THEN Unresolved ELSE found[1]

ShareNameToken(symbol) == Last(symbol.file.path) \in symbol.tokens
ClassifyReferenceEdge(e, files) ==
  IF ShareNameToken(e.dst) THEN "semantic-findable"
  ELSE IF ResolveRelativeSpecifier(e.src, e.spec, files) = e.dst.file THEN "import-chain-reachable"
  ELSE "structurally-hidden"

HARDNESS == "semantic-findable" :> 0 @@ "import-chain-reachable" :> 1 @@ "structurally-hidden" :> 2
ALL_STRATA == DOMAIN HARDNESS
DominantStratum(times) ==
  LET Beats(t, u) == times[t] > times[u] \/ (times[t] = times[u] /\ HARDNESS[t] >= HARDNESS[u])
  IN IF \A t \in ALL_STRATA : times[t] = 0 THEN "structurally-hidden"
     ELSE CHOOSE t \in ALL_STRATA : \A u \in ALL_STRATA : Beats(t, u)

(* -------------------------------------------------------------------------- *)
(* Suites.  A snapshot is [files, symbols, refs, imports, isTest, centrality,  *)
(* risk], files and symbols in the order of their ids.                         *)
Files(s) == Range(s.files)
Place(seq, x) == CHOOSE i \in DOMAIN seq : seq[i] = x
Row(seq, x, rank) == [of |-> x, rank |-> rank, place |-> Place(seq, x)]
SliceRows(rows, cap) ==
  LET Before(x, y) == x.rank > y.rank \/ (x.rank = y.rank /\ x.place < y.place)
  IN {r \in rows : Cardinality({q \in rows : Before(q, r)}) < cap}

DependsOn(s, f) == {e.dst.file : e \in {r \in s.refs : r.src = f}} \cup {i[2] : i \in {j \in s.imports : j[1] = f}}
Consumers(s, f) == {e.src : e \in {r \in s.refs : r.dst.file = f}} \cup {i[1] : i \in {j \in s.imports : j[2] = f}}
SymbolConsumers(s, x) == {e.src : e \in {r \in s.refs : r.dst = x}}

StrataOf(s, refs) == [t \in ALL_STRATA |-> Cardinality({e \in refs : ClassifyReferenceEdge(e, Files(s)) = t})]
Task(type, row, stratum, truth) == [type |-> type, target |-> row.of, stratum |-> stratum, truth |-> truth]

DependencyTasks(s, cap) ==
  LET Bare(f) == Cardinality({i \in s.imports : i[1] = f})
      Times(f) == [StrataOf(s, {e \in s.refs : e.src = f}) EXCEPT !["import-chain-reachable"] = @ + Bare(f)]
  IN {Task("dependencies", r, DominantStratum(Times(r.of)), [list |-> DependsOn(s, r.of)]) :
        r \in SliceRows({Row(s.files, f, s.centrality[f]) : f \in {g \in Files(s) : DependsOn(s, g) # {}}}, cap)}
ReverseDepTasks(s, cap) ==
  {Task("reverse-deps", r, DominantStratum(StrataOf(s, {e \in s.refs : e.dst.file = r.of})), [list |-> Consumers(s, r.of)]) :
     r \in SliceRows({Row(s.files, f, Cardinality(Consumers(s, f))) : f \in {g \in Files(s) : Consumers(s, g) # {}}}, cap)}
ProdTestTasks(s, cap) ==
  LET Split(x) == [source |-> SymbolConsumers(s, x) \ s.isTest, test |-> SymbolConsumers(s, x) \cap s.isTest]
      Both(x)  == Split(x).source # {} /\ Split(x).test # {}
      Rank(x)  == Cardinality(SymbolConsumers(s, x)) + (IF Both(x) THEN Cardinality(Files(s)) ELSE 0)
      exported == {x \in Range(s.symbols) : x.exported /\ SymbolConsumers(s, x) # {}}
  IN {Task("prod-vs-test-consumers", r, DominantStratum(StrataOf(s, {e \in s.refs : e.dst = r.of})), Split(r.of)) :
        r \in SliceRows({Row(s.symbols, x, Rank(x)) : x \in exported}, cap)}
BlastRadiusTasks(s, cap) ==   \* s.risk: the risky symbols of a file by score, and the highest score
  {Task("blast-radius", r, "structurally-hidden", [ranked |-> s.risk[r.of].ranked]) :
     r \in SliceRows({Row(s.files, f, s.risk[f].top) : f \in {g \in Files(s) : s.risk[g].ranked # <<>>}}, cap)}

GenerateSuite(s, cap) ==
  LET tasks == DependencyTasks(s, cap) \cup ReverseDepTasks(s, cap) \cup ProdTestTasks(s, cap) \cup BlastRadiusTasks(s, cap)
  IN [tasks |-> tasks, total |-> Cardinality(tasks),
      byType |-> [t \in {x.type : x \in tasks} |-> Cardinality({x \in tasks : x.type = t})],
      byStratum |-> [t \in ALL_STRATA |-> Cardinality({x \in tasks : x.stratum = t})]]

(* The neighbours of a file, in either direction.                              *)
Neighbours(s, f) == (DependsOn(s, f) \cup Consumers(s, f)) \ {f}
NeighbourStratum(s, f, g) ==
  LET between == {e \in s.refs : {e.src, e.dst.file} = {f, g}}
  IN IF between = {} THEN "import-chain-reachable" ELSE DominantStratum(StrataOf(s, between))
GenerateRetrievalSuite(s, cap) ==
  {[query |-> r.of, relevant |-> [g \in Neighbours(s, r.of) |-> NeighbourStratum(s, r.of, g)]] :
     r \in SliceRows({Row(s.files, f, Cardinality(Neighbours(s, f))) : f \in {g \in Files(s) : Neighbours(s, g) # {}}}, cap)}

(* -------------------------------------------------------------------------- *)
(* Grading.                                                                    *)
Ratio(n, d) == IF d = 0 THEN <<0, 1>> ELSE <<n, d>>
Same(x, y) == x[1] * y[2] = y[1] * x[2]
Less(x, y) == x[1] * y[2] < y[1] * x[2]
Precision(g) == Ratio(g.truePositives, g.predicted)
Recall(g)    == Ratio(g.truePositives, g.expected)
F1(g) == Ratio(2 * Precision(g)[1] * Recall(g)[1], Precision(g)[1] * Recall(g)[2] + Recall(g)[1] * Precision(g)[2])
ComputeRoleAccuracy(expected, predicted) ==   \* the test role wins a file named in both
  LET Placed(role) == predicted[role] \cap (expected.source \cup expected.test)
      sources == predicted.source \cap (expected.source \ expected.test)
      tests   == predicted.test \cap expected.test
  IN Ratio(Cardinality(sources) + Cardinality(tests), Cardinality(Placed("source")) + Cardinality(Placed("test")))
GradeRoleSplit(expected, predicted) ==
  LET s == F1(GradeSet(expected.source, predicted.source))
      t == F1(GradeSet(expected.test, predicted.test))
  IN [macroF1 |-> <<s[1] * t[2] + t[1] * s[2], 2 * s[2] * t[2]>>, roleAccuracy |-> ComputeRoleAccuracy(expected, predicted)]

(* Places among the shared items; 1 - 6 * sum / (n * (n * n - 1)).             *)
Spearman(expected, predicted) ==
  LET shared == Range(expected) \cap Range(predicted)
      n == Cardinality(shared)
      Rank(seq, x) == Cardinality({y \in shared : Place(seq, y) < Place(seq, x)})
      Apart(x) == (Rank(expected, x) - Rank(predicted, x)) * (Rank(expected, x) - Rank(predicted, x))
  IN IF n < 2 THEN <<0, 1>>
     ELSE <<n * (n * n - 1) - 6 * MapThenSumSet(Apart, shared), n * (n * n - 1)>>
Top(seq, k) == {seq[i] : i \in 1 .. Min({k, Len(seq)})}
JaccardTopK(expected, predicted, k) ==
  IF k <= 0 THEN <<0, 1>>
  ELSE Ratio(Cardinality(Top(expected, k) \cap Top(predicted, k)), Cardinality(Top(expected, k) \cup Top(predicted, k)))
GradeRanked(expected, predicted) ==
  [spearman |-> Spearman(expected, predicted), overlap |-> JaccardTopK(expected, predicted, Min({5, Len(expected)}))]

RecallByStratum(strata, ranked, k) ==
  LET found == TopK(ranked, k) \cap DOMAIN strata
      Of(t) == {g \in DOMAIN strata : strata[g] = t}
  IN [t \in Range(strata) |-> <<Cardinality(found \cap Of(t)), Cardinality(Of(t))>>]

(* -------------------------------------------------------------------------- *)
(* The path from one file to another resolves to that other file, through any  *)
(* number of steps up, and that to its directory to an index, unless another   *)
(* file has the same stem.                                                     *)
PathTo(src, dst) ==
  LET from   == Front(src.path)
      common == CHOOSE n \in 0 .. Min({Len(from), Len(dst.path) - 1}) :
                  /\ SubSeq(from, 1, n) = SubSeq(dst.path, 1, n)
                  /\ n = Min({Len(from), Len(dst.path) - 1}) \/ from[n + 1] # dst.path[n + 1]
  IN [i \in 1 .. (Len(from) - common) |-> ".."] \o SubSeq(dst.path, common + 1, Len(dst.path))
Shadowed(dst, files) == \E f \in files : f.path = dst.path /\ f # dst
PathsResolve(files) ==
  \A src \in files, dst \in files : src # dst /\ ~Shadowed(dst, files) =>
    LET path == PathTo(src, dst)
        Resolved(p) == ResolveRelativeSpecifier(src, [relative |-> TRUE, path |-> p], files)
        ofDir == Last(dst.path) = "index" /\ Len(dst.path) > 1 /\ \A f \in files : f.path # Front(dst.path)
    IN Resolved(path) = dst /\ (ofDir => Resolved(<<".">> \o Front(path)) = dst)

(* Two files are neighbours of each other, over the same stratum, and a cap    *)
(* leaves out no file that has more of them; a suite asks of every kind the    *)
(* highest ranked, its counts add up, and with no cap each dependency and each *)
(* consumer of a symbol is told by a reverse dependency as well.               *)
SuitesAreFair(s, cap) ==
  LET all  == GenerateRetrievalSuite(s, Len(s.files))
      some == GenerateRetrievalSuite(s, cap)
      suite == GenerateSuite(s, cap)
      whole == GenerateSuite(s, Len(s.files) + Len(s.symbols))
      Of(tasks, type) == {t \in tasks : t.type = type}
  IN /\ \A t \in all : \A g \in DOMAIN t.relevant :
          \E u \in all : u.query = g /\ t.query \in DOMAIN u.relevant /\ u.relevant[t.query] = t.relevant[g]
     /\ some \subseteq all /\ Cardinality(some) = Min({cap, Cardinality(all)})
     /\ \A t \in some, u \in all \ some : Cardinality(DOMAIN t.relevant) >= Cardinality(DOMAIN u.relevant)
     /\ suite.total = MapThenSumSet(LAMBDA x : suite.byStratum[x], ALL_STRATA)
     /\ \A type \in DOMAIN whole.byType : suite.byType[type] = Min({cap, whole.byType[type]})
     /\ \A t \in Of(whole.tasks, "dependencies") : \A g \in t.truth.list :
          \E u \in Of(whole.tasks, "reverse-deps") : u.target = g /\ t.target \in u.truth.list
     /\ \A t \in Of(whole.tasks, "prod-vs-test-consumers") :
          \E u \in Of(whole.tasks, "reverse-deps") : u.target = t.target.file /\ t.truth.source \cup t.truth.test \subseteq u.truth.list

(* Only the right answer gets full marks and only a wholly wrong one none, and *)
(* precision and recall are each other's mirror; a right split is placed       *)
(* rightly, its mirror image nowhere, though one without files of a role gets  *)
(* half the marks; Spearman's value is within -1 and 1, which it reaches for   *)
(* the same and the opposite order only.                                       *)
GradesAreFair(expected, predicted) ==
  LET E == Range(expected)
      P == Range(predicted)
      g == GradeSet(E, P)
      ranked == GradeRanked(expected, predicted)
      pairs  == {p \in (E \cap P) \X (E \cap P) : p[1] # p[2]}
      Agree(p) == (Place(expected, p[1]) < Place(expected, p[2])) = (Place(predicted, p[1]) < Place(predicted, p[2]))
      split  == [source |-> E \ P, test |-> E \cap P]
      mirror == [source |-> split.test, test |-> split.source]
  IN /\ Precision(g) = Recall(GradeSet(P, E)) /\ Same(F1(g), F1(GradeSet(P, E)))
     /\ Same(F1(g), <<1, 1>>) <=> E = P /\ E # {}
     /\ Same(F1(g), <<0, 1>>) <=> E \cap P = {}
     /\ E # {} => /\ Same(GradeRoleSplit(split, split).roleAccuracy, <<1, 1>>)
                  /\ Same(GradeRoleSplit(split, mirror).roleAccuracy, <<0, 1>>)
                  /\ Same(GradeRoleSplit(split, split).macroF1, IF {} \in {split.source, split.test} THEN <<1, 2>> ELSE <<1, 1>>)
     /\ ~Less(ranked.spearman, <<-1, 1>>) /\ ~Less(<<1, 1>>, ranked.spearman)
     /\ Same(ranked.spearman, <<1, 1>>) <=> pairs # {} /\ \A p \in pairs : Agree(p)
     /\ Same(ranked.spearman, <<-1, 1>>) <=> pairs # {} /\ \A p \in pairs : ~Agree(p)
     /\ Same(ranked.overlap, <<1, 1>>) <=> expected # <<>> /\ Top(expected, 5) = Top(predicted, Min({5, Len(expected)}))

(* The hits of the strata are those of the whole, repeats or not.              *)
StrataSplitTheHits(strata, ranked, k) ==
  LET by == RecallByStratum(strata, ranked, k)
  IN /\ GradeRetrieval(DOMAIN strata, ranked, k).hits = MapThenSumSet(LAMBDA t : by[t][1], DOMAIN by)
     /\ Range(ranked) = DOMAIN strata /\ k >= Cardinality(DOMAIN strata) => \A t \in DOMAIN by : by[t][1] = by[t][2]
=============================================================================
