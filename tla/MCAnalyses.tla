------------------------------ MODULE MCAnalyses ------------------------------
(* The inputs of the analyses of a snapshot and of a change that TLC goes      *)
(* through.  They keep no state: each input is a state in which nothing runs.  *)
EXTENDS DashboardApp, StyleProfile, FixStage, Integers, Sequences, SequencesExt, FiniteSets, FiniteSetsExt, TLC

CONSTANTS NoCoEdits,                         \* ArchViews
          NoOwner, Unknown, Qualitative,     \* AuditContract
          NoBase, FINDINGS_PER_ENTRY,        \* AuditInputs
          Lifetime, DEFAULT_WINDOWS, NoDrift, NoSeed, Ambiguous, ScaryScore, Budget,   \* Dashboard
          NoRole, NoVia, NoAuthor, NoFile, CharsPerToken, RowChars, Oversample,       \* GraphQueries
          NoLead, NotBefore, NoMark, Rest, ShownConsumers, LookRows, LabelMinSep, \* DashboardViews
          MaxHot, MaxBlast, MAX_GROUPS, MAX_SYMBOLS_PER_GROUP, MIN_SHARED_CONSUMERS,
          NoSymbol, NoLines, NoRank, NoCaller, NoVerdict, Context, SPEC_PATH,   \* TriageReader
          EXTENSIONS, Unresolved,                                               \* GraphQuiz
          NoPath, NoSymbolAt,                                                   \* PatchPlaces
          Packaged, FrameChars, NoScore, NoDelta                                \* CodingArms

VARIABLE sample  \* the input: of says whose
VARIABLE focus   \* what runs, the dashboard's page or the profile's commands, or whose input is taken

Arch   == INSTANCE ArchViews
Audit  == INSTANCE AuditContract
Inputs == INSTANCE AuditInputs
Dash   == INSTANCE Dashboard
Queries == INSTANCE GraphQueries
Pages  == INSTANCE DashboardViews
Reader == INSTANCE TriageReader
Quiz   == INSTANCE GraphQuiz
Patch  == INSTANCE PatchPlaces
Arms   == INSTANCE CodingArms

Lists(S, n) == UNION {[1..k -> S] : k \in 0..n}

(* -------------------------------------------------------------------------- *)
(* The triage: findings of three files, of which one is gone.                  *)
ReaderFinding(id, path, symbol, start, end, signal, ranges) ==
  [id |-> id, path |-> path, symbol |-> symbol, start |-> start, end |-> end, signal |-> signal, ranges |-> ranges]
Span(path, start, end) == [path |-> path, start |-> start, end |-> end]
Found ==
  {ReaderFinding(1, "a", NoSymbol, 2, 2, "clone", {Span("b", 2, 3)}),
   ReaderFinding(2, "a", NoSymbol, 4, 6, "ERA001", {}),
   ReaderFinding(3, "a", "s1", 1, 1, "symbol-single-caller-helper", {}),
   ReaderFinding(4, "a", NoSymbol, 0, 0, "file-except-density", {}),
   ReaderFinding(5, "a", NoSymbol, 7, 7, "SIM105", {}),
   ReaderFinding(6, "b", "t", 1, 1, "missing-test-kind", {Span("a", 1, 2), Span("c", 1, 2)}),
   ReaderFinding(7, "c", NoSymbol, 1, 1, "clone", {}),
   ReaderFinding(8, "b", NoSymbol, 3, 3, "loc", {}),
   ReaderFinding(9, "a", NoSymbol, 1, 1, "symbol-cognitive", {})}
SpanOf(s, a, b) == [symbol |-> s, start |-> a, end |-> b]
SourceWith(spec) ==
  [lines |-> "a" :> 7 @@ "b" :> 3 @@ "c" :> NoLines @@ SPEC_PATH :> spec,
   symbols |-> "a" :> <<SpanOf("s1", 1, 5), SpanOf("s2", 2, 3)>> @@ "b" :> <<SpanOf("t", 1, 2)>> @@ "c" :> <<>>,
   caller |-> "s1" :> [path |-> "b", symbol |-> "t"] @@ "s2" :> NoCaller @@ "t" :> NoCaller @@ NoSymbol :> NoCaller]
Control(i, k, label) == [id |-> i, kind |-> k, label |-> label, findings |-> 2]
Controls == {Control(1, "k1", "clean"), Control(2, "k1", "slop"), Control(3, "k2", "clean"),
             Control(4, "k2", "slop"), Control(5, "k3", "slop"), Control(6, "k1", "slop")}
Cites(path, line) == <<[path |-> path, line |-> line, quoted |-> TRUE]>>
Rows == [key : {"q1", "q2", "q9"}, verdict : {"confirmed", "justified"},
         citations : {Cites("a", 1), Cites("a", 3), Cites(SPEC_PATH, 1)}]

ReaderSample(input) ==
  \/ \E n \in {1, 2, 4} : \E f \in kSubset(n, Found) :
       \E spec \in {NoLines, 2}, cap \in {1, 3, 5, 9}, r \in {<<1, 1>>, <<NoRank, 9>>}, t \in BOOLEAN :
         /\ r = <<NoRank, 9>> => cap = 5
         /\ input = [of |-> "bundle", found |-> f, spec |-> spec, cap |-> cap, rank |-> r, tests |-> t]
  \/ \E p \in SUBSET Controls, k \in {<<"k1">>, <<"k1", "k2">>, <<"k1", "k2", "k3">>}, o \in 0..1, n \in {0, 1, 4},
        v \in {<<"confirmed", "unclear">>, <<"confirmed", "confirmed">>, <<"justified", "justified">>, <<>>} :
       input = [of |-> "controls", pool |-> p, kinds |-> k, offset |-> o, n |-> n, even |-> v]
  \/ \E s \in {{<<"a", 1>>, <<"a", 2>>}, {<<"a", 1>>, <<SPEC_PATH, 1>>}}, m \in 0..3 : \E r \in [1..m -> Rows] :
       /\ m = 3 => r[1].key = "q1" /\ r[1].verdict = "confirmed"
       /\ input = [of |-> "rows", item |-> [keys |-> {"q1", "q2"}, shown |-> s], rows |-> r]
ReaderIsGrounded ==
  /\ sample.of = "bundle" =>
       Reader!FindingsAreShown(sample.found, "a" :> sample.rank[1] @@ "b" :> sample.rank[2] @@ "c" :> 9,
         "a" :> "source" @@ "b" :> "test" @@ "c" :> "source",
         [minRank |-> 1, includeTests |-> sample.tests], SourceWith(sample.spec), sample.cap)
  /\ sample.of = "controls" =>
       Reader!ControlsAreFair(sample.pool, sample.kinds, sample.offset, sample.n,
         [i \in 1..6 |-> IF i % 2 = 0 THEN sample.even ELSE <<"justified", "unclear">>])
  /\ sample.of = "rows" => Reader!AnswersAreGrounded(sample.item, sample.rows)

(* -------------------------------------------------------------------------- *)
(* The quizzes.                                                                *)
MCExtensions == <<"", ".ts", ".js">>
At(path, ext) == [path |-> path, ext |-> ext]
Paths == {At(<<"a", "x">>, ".ts"), At(<<"a", "x">>, ".js"), At(<<"a", "b", "y">>, ".ts"), At(<<"a", "b", "index">>, ".ts"),
          At(<<"c", "z">>, ".ts"), At(<<"index">>, ".ts"), At(<<"r">>, ".js"), At(<<"a", "b">>, ".ts")}
FX == At(<<"a", "x">>, ".ts")
FIndex == At(<<"a", "index">>, ".ts")
FTest == At(<<"t", "y">>, ".ts")
Named(file, tokens, exported) == [file |-> file, tokens |-> tokens, exported |-> exported]
SGo == Named(FX, {"x", "go"}, TRUE)
SAlso == Named(FX, {"go"}, TRUE)
SRun == Named(FIndex, {"run"}, FALSE)
Reference(a, b, relative, path) == [src |-> a, dst |-> b, spec |-> [relative |-> relative, path |-> path]]
QuizRefs == {Reference(FIndex, SGo, TRUE, <<".", "x">>), Reference(FIndex, SAlso, TRUE, <<"x">>),
             Reference(FTest, SAlso, TRUE, <<"..", "a">>), Reference(FTest, SAlso, TRUE, <<"..", "a", "x">>),
             Reference(FTest, SRun, TRUE, <<"..", "a">>), Reference(FX, SRun, FALSE, <<"pkg">>)}
Quizzed(refs, imports) ==
  [files |-> <<FIndex, FX, FTest>>, symbols |-> <<SRun, SGo, SAlso>>, refs |-> refs, imports |-> imports,
   isTest |-> {FTest}, centrality |-> FX :> 2 @@ FIndex :> 1 @@ FTest :> 2,
   risk |-> FX :> [ranked |-> <<"s", "t">>, top |-> 3] @@ FIndex :> [ranked |-> <<"u">>, top |-> 4] @@ FTest :> [ranked |-> <<>>, top |-> 0]]
Distinct(list) == \A i, j \in DOMAIN list : list[i] = list[j] => i = j
WordLists(n) == {l \in UNION {[1..k -> {"p", "q", "r", "s"}] : k \in 0..n} : Distinct(l)}

QuizSample(input) ==
  \/ \E f \in SUBSET Paths : input = [of |-> "paths", files |-> f]
  \/ \E r \in SUBSET QuizRefs, i \in SUBSET {<<FX, FIndex>>, <<FIndex, FX>>, <<FTest, FX>>}, c \in 1..2 :
       input = [of |-> "suite", snapshot |-> Quizzed(r, i), cap |-> c]
  \/ \E e, p \in WordLists(4) : input = [of |-> "grade", expected |-> e, predicted |-> p]
  \/ \E S \in SUBSET {"p", "q"} \ {{}} : \E t \in [S -> {"structurally-hidden", "semantic-findable"}],
        m \in 0..4 : \E r \in [1..m -> {"p", "q", "r"}], k \in 1..3 :
       input = [of |-> "ranked", truth |-> t, ranked |-> r, k |-> k]
QuizIsFair ==
  /\ sample.of = "paths" => Quiz!PathsResolve(sample.files)
  /\ sample.of = "suite" => Quiz!SuitesAreFair(sample.snapshot, sample.cap)
  /\ sample.of = "grade" => Quiz!GradesAreFair(sample.expected, sample.predicted)
  /\ sample.of = "ranked" =>
       /\ Quiz!StrataSplitTheHits(sample.truth, sample.ranked, sample.k)
       /\ Quiz!RepeatsDoNotPay(DOMAIN sample.truth, sample.ranked, sample.k)

(* -------------------------------------------------------------------------- *)
(* The patches: of a file, and of a second one that may be new, gone or moved. *)
Mark(t, like) == [t |-> t, like |-> like]
Marks == {Mark(" ", FALSE), Mark("-", FALSE), Mark("+", FALSE), Mark("-", TRUE), Mark("+", TRUE)}
Scripts(n) == {s \in [1..n -> Marks] : \A i \in 1..(n - 1) : ~(s[i].t = "+" /\ s[i + 1].t = "-")}
FilePatch(old, new, script) == [old |-> old, new |-> new, script |-> script]
SecondFiles == {FilePatch("q", "r", <<>>), FilePatch(NoPath, "q", <<Mark("+", TRUE), Mark("+", FALSE)>>),
                FilePatch("q", NoPath, <<Mark("-", FALSE)>>), FilePatch("q", "s", <<Mark(" ", FALSE), Mark("-", TRUE), Mark(" ", FALSE)>>)}
SpansFor == [p \in {"p", "q"} |-> [n \in 2..3 |-> IF n = 2 THEN "f" ELSE "g"]]

PatchSample(input) ==
  \E n \in 1..4 : \E s \in {x \in Scripts(n) : \E i \in 1..n : x[i].t # " "},
     second \in SecondFiles, some \in {{}, {1, 3, 4}} :
    input = [of |-> "patch", files |-> <<FilePatch("p", "p", s), second>>, some |-> some]
PatchesAreFollowed ==
  sample.of = "patch" => Patch!ReadersFollowTheEdit(sample.files, sample.some, {2, 4}, SpansFor)

(* -------------------------------------------------------------------------- *)
(* The arms: two test files, two of source, a package; runs of two tasks.      *)
Ties(a, b, relevance) == [from |-> a, to |-> b, relevance |-> relevance]
Neighbours ==
  {Ties(<<1, 0>>, <<3, 1>>, 2), Ties(<<2, 0>>, <<3, 1>>, 5), Ties(<<1, 1>>, <<3, 0>>, 2), Ties(<<4, 0>>, <<1, 0>>, 2),
   Ties(<<1, 0>>, <<9, 0>>, 9), Ties(<<1, 0>>, <<2, 0>>, 9), Ties(<<4, 1>>, <<2, 1>>, 4), Ties(<<1, 1>>, <<1, 0>>, 3)}
MCPackaged == {9}
LineLengths == [n \in {1, 2, 3, 4, 9} \X {0, 1} |-> 3 * n[1] + n[2]]
ArmRuns == {[task |-> t, arm |-> a, resolved |-> r, main |-> n, f1 |-> IF r THEN 1 ELSE NoScore] :
              t \in 1..2, a \in 0..1, r \in BOOLEAN, n \in 2..3}
ArmSample(input) ==
  \/ \E e \in SUBSET Neighbours, s \in {{1}, {1, 2}}, known \in {{1}, {1, 2}}, cap \in {1, 2, 9}, budget \in {4, 9, 99} :
       input = [of |-> "injection", seeds |-> s, cap |-> cap, budget |-> budget,
                bundles |-> [f \in known |-> {x \in e : f \in {x.from[1], x.to[1]}}]]
  \/ \E m \in 0..3, x \in {[task |-> 1, arm |-> 2, resolved |-> TRUE, main |-> 5, f1 |-> 1],
                           [task |-> 3, arm |-> 1, resolved |-> TRUE, main |-> 9, f1 |-> NoScore]} :
       \E r \in [1..m -> ArmRuns] : (m = 3 => r[1].task = 1) /\ input = [of |-> "arms", runs |-> r, extra |-> x]
ArmsAreFair ==
  /\ sample.of = "injection" =>
       Arms!NeighboursAreTold(sample.seeds, sample.bundles, sample.cap, sample.budget, LineLengths)
  /\ sample.of = "arms" => Arms!ArmsCompare(sample.runs, 0, sample.extra)

(* -------------------------------------------------------------------------- *)
(* Architecture: three files of a package in two directories, one of another   *)
(* package, one at the root.                                                   *)
Pkg == "f1" :> <<"p">> @@ "f2" :> <<"p">> @@ "f3" :> <<"p">> @@ "g" :> <<"q">> @@ "h" :> <<>>
Imports(a, b) == [src |-> a, dst |-> b, kind |-> "imports"]
ArchEdges == {Imports("f1", "f2"), [Imports("f1", "f2") EXCEPT !.kind = "re-exports"], Imports("f2", "f3"),
              Imports("f1", "f1"), Imports("f3", "g"), Imports("f1", "g"), Imports("f2", "h"), Imports("g", "f1")}
Splits == {[pkgByFile |-> Pkg, edges |-> e, community |-> c @@ "g" :> 1 @@ "h" :> 1, pairs |-> p,
            dirOf |-> [f \in DOMAIN Pkg |-> IF f = "f3" THEN "lib" ELSE "src"],
            packages |-> {<<"p">>, <<"q">>, <<"docs">>}] :
             e \in SUBSET ArchEdges, c \in [{"f1", "f2", "f3"} -> 1..2],
             p \in {NoCoEdits, {"f1", "f2"} :> 2 @@ {"f2", "f3"} :> 1 @@ {"f3", "g"} :> 4}}
Domains == <<[name |-> <<"a">>, globs |-> {<<"b", "c">>, <<"d">>}],
             [name |-> <<"a", "b">>, globs |-> {<<"c">>, <<"d">>}]>>
Globs == UNION {Domains[i].globs : i \in DOMAIN Domains}

ArchSample(input) ==
  \/ \E s \in Splits : input = [of |-> "split", a |-> s]
  \/ \E e \in {ArchEdges} \cup {ArchEdges \ {x} : x \in ArchEdges},
        fit \in [Globs -> SUBSET {"f1", "f2", "g"}], n \in {0, 2} :
       input = [of |-> "domains", edges |-> e, fits |-> fit, minEdges |-> n]
ArchitectureAddsUp ==
  /\ sample.of = "split" => Arch!SplitAddsUp(sample.a, 3)
  /\ sample.of = "domains" =>
       Arch!DomainsAddUp(DOMAIN Pkg, sample.edges, Domains, sample.fits, sample.minEdges)

(* -------------------------------------------------------------------------- *)
(* The contract changes of an audit.                                           *)
Params == {[name |-> n, positional |-> p, required |-> d = 0, default |-> d] :
             n \in {"a", "b"}, p \in BOOLEAN, d \in 0..2}
Legal(ps) == /\ \A i, j \in DOMAIN ps : ps[i].name = ps[j].name => i = j
             /\ \A i, j \in DOMAIN ps : i < j /\ ps[j].positional =>
                  ps[i].positional /\ (ps[j].required => ps[i].required)
ParamLists == {ps \in Lists(Params, 2) : Legal(ps)}
Calls == [args : 0..2, kwargs : SUBSET {"a", "b"}]
Sites == [key : {"e1", "e2"}, owner : {"s1", "s2", NoOwner}]
CallGraph == {<<"c1", "s">>, <<"t1", "s">>, <<"c2", "c1">>, <<"t1", "c2">>, <<"t2", "c1">>, <<"c1", "c2">>, <<"s", "s">>}
Nested == <<[id |-> "s1", span |-> <<1, 10>>], [id |-> "s2", span |-> <<2, 6>>], [id |-> "s3", span |-> <<3, 4>>]>>
Parsers == [readable : BOOLEAN, guarded : BOOLEAN, exitCodes : {{}, {2}}, flags : SUBSET {"f", "g"}]
Invoker(args, inDiff) == [args |-> args, test |-> FALSE, inDiff |-> inDiff]

ParamSample(input) == \E b, h \in ParamLists, c \in Calls : input = [of |-> "params", base |-> b, head |-> h, call |-> c]
AuditSample(input) ==
  \/ ParamSample(input)
  \/ \E b \in Lists(Sites, 3), h \in Lists(Sites, 2) : input = [of |-> "errors", before |-> b, after |-> h]
  \/ \E calls \in SUBSET CallGraph, inDiff \in {{}, {"c1", "t2"}} : \E s \in [calls -> {{}, {1}, {2}}] :
       /\ \A c \in calls : c[2] # "s" => s[c] = {}
       /\ input = [of |-> "dependents", sites |-> s, inDiff |-> inDiff]
  \/ \E v \in [1..3 -> 1..2], n \in 1..12 : input = [of |-> "scores", values |-> v, line |-> n]
  \/ \E b, h \in Parsers : \E i \in {{}, {Invoker({"f"}, FALSE)}, {Invoker({"f", "g"}, TRUE), Invoker({"g"}, FALSE)}} :
       input = [of |-> "scripts", old |-> b, new |-> h, invokers |-> i]
AuditIsSound ==
  /\ sample.of = "params" => Audit!ChangesAreFelt(sample.base, sample.head, sample.call)
  /\ sample.of = "errors" => Audit!LossesBalance(sample.before, sample.after)
  /\ sample.of = "dependents" => Audit!DependentsAreTold("s", {1}, sample.sites, {"t1", "t2"}, sample.inDiff)
  /\ sample.of = "scores" =>
       Audit!ScoresFollowFindings(sample.values, Nested, <<[signal |-> "x", symbol |-> NoOwner, line |-> sample.line]>>)
  /\ sample.of = "scripts" => Audit!FlagsAreKept(sample.old, sample.new, sample.invokers)

(* -------------------------------------------------------------------------- *)
(* The census of what tests feed a program.                                    *)
Doc(key, class) == key :> class
Statements ==
  {[op |-> "bind", of |-> "a", from |-> NoBase, edits |-> Doc("j", "null")], [op |-> "bind", of |-> "a", from |-> "M", edits |-> <<>>],
   [op |-> "bind", of |-> "b", from |-> "a", edits |-> Doc("j", "null")],
   [op |-> "inline", from |-> "a", edits |-> Doc("j", "empty")], [op |-> "set", of |-> "a", key |-> "k", class |-> "null"]}
  \cup {[op |-> "pass", of |-> n] : n \in {"a", "b", "M"}} \cup {[op |-> "del", of |-> n, key |-> "k"] : n \in {"a", "M"}}
Documents == {<<>>, Doc("k", "null"), Doc("k", "present") @@ Doc("j", "empty"), Doc("j", "present") @@ Doc("l", "null")}
Feed(docs, kwargs, literals, asserted, calls) ==
  [documents |-> docs, empty |-> FALSE, kwargs |-> kwargs, flagSources |-> {[params |-> {}, literals |-> literals]},
   choices |-> {}, asserted |-> asserted, calls |-> calls]
Other == Feed(<<Doc("k", "null") @@ Doc("j", "present")>>, <<>>, {"f"}, {"E1"}, <<"p" :> "empty">>)
Entries ==
  {[readers |-> r, feeds |-> "t1" :> Feed(d, k, l, a, c) @@ "t2" :> Other, library |-> b,
    iterated |-> {"p"}, nullable |-> {"p", "q"}, flags |-> {"f"}, choices |-> {<<"c", "x">>}, codes |-> {"E1", "E2"}] :
     r \in {<<Doc("k", "default") @@ Doc("j", "nullable")>>, <<Doc("k", "default")>>,
            <<Doc("k", "required") @@ Doc("j", "default"), Doc("k", "default") @@ Doc("l", "nullable")>>},
     d \in {<<x>> : x \in Documents} \cup {<<Doc("k", "null"), Doc("j", "present") @@ Doc("l", "null")>>},
     k \in {<<>>, "f" :> "falsy"}, l \in {{}, {"f"}}, a \in {{}, {"E1"}}, c \in {<<>>, <<"p" :> "null">>}, b \in BOOLEAN}
Policy == "cli" :> {[slug |-> "no-empty", anyOf |-> {"empty", "null"}], [slug |-> "no-null", anyOf |-> {"null"}]}
          @@ "lib" :> {[slug |-> "no-empty", anyOf |-> {"empty"}], [slug |-> "no-unit", anyOf |-> {"unit"}]}
Program(handler, public, mains, calls) ==
  LET Symbol(id, file, test, h, p) == [id |-> id, file |-> file, test |-> test, handler |-> h, public |-> p, runs |-> {}]
  IN [symbols |-> {Symbol("s1", "f", FALSE, handler, TRUE), Symbol("s2", "f", FALSE, FALSE, public),
                   Symbol("h", "tf", FALSE, FALSE, TRUE), Symbol("t", "tf", TRUE, FALSE, TRUE)},
      files |-> {"f", "tf"}, testFiles |-> {}, mainModules |-> mains, guards |-> {}, scripts |-> {}, calls |-> calls]

InputSample(input) ==
  \/ \E b \in Lists(Statements, 4) : input = [of |-> "body", body |-> b]
  \/ \E e \in Entries : input = [of |-> "census", e |-> e]
  \/ \E k \in SUBSET DOMAIN Policy, c, m \in [{"unit", "empty", "null"} -> 0..1] :
       input = [of |-> "gaps", kinds |-> k, counts |-> c, more |-> m]
  \/ \E h, p \in BOOLEAN, m \in {{}, {"f"}},
        c \in SUBSET {<<"f", "s2">>, <<"t", "s1">>, <<"t", "h">>, <<"h", "s2">>, <<"s1", "s2">>, <<"s2", "h">>} :
       input = [of |-> "entries", p |-> Program(h, p, m, c)]
CensusIsSound ==
  /\ sample.of = "body" => Inputs!DocumentsArePassedOn("M" :> Doc("k", "present"), sample.body)
  /\ sample.of = "census" => Inputs!CensusIsTrue(sample.e)
  /\ sample.of = "gaps" => Inputs!TestsCloseGaps(sample.kinds, sample.counts, sample.more, Policy)
  /\ sample.of = "entries" => Inputs!EntriesAreFed(sample.p)

(* -------------------------------------------------------------------------- *)
(* The dashboard's payload.                                                    *)
Edge(a, b, k, x) == [src |-> a, dst |-> b, kind |-> k, external |-> x]
Symbol(i, f, e) == [id |-> i, file |-> f, exported |-> e]
Row(n, f, v) == [node |-> n, field |-> f, value |-> v]
Symbols == {Symbol(11, 1, TRUE), Symbol(12, 1, TRUE), Symbol(13, 1, FALSE), Symbol(14, 2, TRUE), Symbol(15, 2, FALSE), Symbol(16, 1, TRUE)}
DashEdges == {Edge(1, 2, "imports", FALSE), Edge(2, 3, "re-exports", FALSE), Edge(1, 3, "extends", FALSE), Edge(1, 3, "imports", TRUE), Edge(3, 2, "imports", FALSE)}
DashRows == {Row(11, "utilization", 2), Row(12, "utilization", 3), Row(13, "cognitive", 5), Row(1, "cognitive", 4), Row(14, "utilization", 1),
         Row(14, "cognitive", 2), Row(16, "utilization", 2)}
Snapshot(e, r, rows) == [nodes |-> Symbols, edges |-> e, refs |-> r, rows |-> rows, centrality |-> [f \in 1..3 |-> IF f = 1 THEN 2 ELSE 1]]
Hotspot(i, c, x, s) == [id |-> i, churn |-> c, complexity |-> x, score |-> s]
Scary == Hotspot(1, 3, 40, 3000)
Reports(snap) ==
  {[snap |-> snap, hotspots |-> h, silos |-> {3}, coverage |-> {}, coupling |-> c, central |-> {[id |-> 1, score |-> 2]}, drift |-> d] :
     h \in {{}, {Scary}, {Scary, Hotspot(2, 1, 10, 5)}}, c \in {{}, {{1, 2}, {1, 3}}},
     d \in {NoDrift, [hotspots |-> {2}, coupling |-> {}]}}
OtherReport == CHOOSE r \in Reports(2) : Cardinality(r.hotspots) = 2
Violation(rule, status, of) == [rule |-> rule, status |-> status, of |-> of]
Failures == {Violation("scary-hotspots", "new", 1), Violation("r", "carry", 2), Violation("r", "new", 2), Violation("r", "new", 3)}
References == {[src |-> s, dst |-> d] : s \in {"p", "q", "r"}, d \in {11, 12, 14}}
CoupledPairs == {[pair |-> {"x", "y"}, count |-> 3], [pair |-> {"x", "xx"}, count |-> 2], [pair |-> {"y", "z"}, count |-> 2]}

DashSample(input) ==
  \/ \E p \in {30, 45}, w \in {{}, {30, 90}, {30, 90, Lifetime}}, r1, r2 \in Reports(1),
        e \in {DashEdges, {Edge(1, 2, "imports", FALSE), Edge(3, 2, "imports", FALSE)}}, v \in {{}, Failures} :
       input = [of |-> "windows", primary |-> p, stored |-> w, first |-> r1, second |-> r2, edges |-> e, failures |-> v]
  \/ \E r \in SUBSET References : input = [of |-> "groups", refs |-> r]
  \/ \E p \in SUBSET CoupledPairs, x \in SUBSET {"x", "y", "z"}, raw \in {"x", "y", "w"} :
       input = [of |-> "pairs", coupled |-> p, unverified |-> x, raw |-> raw]
ReportOf(window) == IF window = 30 THEN sample.first ELSE IF window \in {45, 90} THEN sample.second ELSE OtherReport
Fitting(raw) == IF raw = "x" THEN {"x", "xx"} ELSE IF raw = "y" THEN {"y"} ELSE {}
DashboardIsTrue ==
  /\ sample.of = "windows" =>
       Dash!DashboardIsTrue(sample.primary, sample.stored, [w \in {30, 45, 90, Lifetime} |-> ReportOf(w)],
         <<Snapshot(sample.edges, {}, DashRows), Snapshot({}, {}, {})>>, sample.failures, [w \in {30, 45, 90, Lifetime} |-> 2])
  /\ sample.of = "groups" => Dash!GroupsShowTheShared(Snapshot({}, sample.refs, {}))
  /\ sample.of = "pairs" => Dash!PartnersAreMutual(sample.coupled, sample.unverified, sample.raw, Fitting(sample.raw))

(* -------------------------------------------------------------------------- *)
(* The queries of a snapshot.                                                  *)
QueryNode(type, role, chars) == [kind |-> type, role |-> role, chars |-> chars]
QueryNodes == "a" :> QueryNode("file", NoRole, 2) @@ "b" :> QueryNode("file", "test", 6) @@ "c" :> QueryNode("external", NoRole, 1)
              @@ "d" :> QueryNode("file", "generated", 3)
Rankings == {r \in [1..4 -> DOMAIN QueryNodes] : Range(r) = DOMAIN QueryNodes}
Filters == [seeds : {{}, {"a"}}, kinds : {{}, {"file"}}, excluded : {{}, {"b"}}, excludedRoles : {{}, {"test"}}]
Reaches == <<[src |-> "a", dst |-> "b", kind |-> "imports"], [src |-> "c", dst |-> "b", kind |-> "extends"],
             [src |-> "b", dst |-> "b", kind |-> "imports"], [src |-> "c", dst |-> "a", kind |-> "imports"]>>
Churned(file, author, n) == [file |-> file, author |-> author, lines |-> n]
Churns == {Churned("a", "x", 1), Churned("a", "y", 2), Churned("a", "x", 0), Churned("b", "y", 1)}
Words(n) == UNION {[1..k -> {"a", "b"}] : k \in 1..n}
Couple(f, g, n) == [files |-> {f, g}, count |-> n]
PairLists == {<<>>, <<Couple("a", "b", 2)>>, <<Couple("a", "b", 3), Couple("b", "c", 2), Couple("a", "c", 2)>>}
SeedPairs == <<Couple(<<"a">>, <<"a", "b">>, 3), Couple(<<"a", "b">>, <<"b">>, 3), Couple(<<"b", "b">>, <<"b">>, 2)>>
StoredWindows == {<<>>, <<30>>, <<90, 30>>, <<30, Lifetime, 90>>, <<Lifetime>>}
Spots == [w \in {30, 45, 90, Lifetime} |-> IF w = 30 THEN <<"a", "b">> ELSE <<"c", "a">>]
SnapshotOf(id, still, windows) == [id |-> id, kept |-> still, windows |-> windows, hotspots |-> Spots]
WikiPackages == <<<<"p", "/", "q">>, <<"p", "-", "q">>, <<"r">>>>
WikiBucket == "f" :> WikiPackages[1] @@ "g" :> WikiPackages[1] @@ "h" :> WikiPackages[2] @@ "i" :> WikiPackages[3]
Uses(a, b) == [src |-> a, dst |-> b]
WikiEdges == {<<Uses("f", "h"), Uses("g", "h"), Uses("f", "g"), Uses("h", "f")>>, <<Uses("f", "i"), Uses("i", "npm"), Uses("h", "i"), Uses("f", "h")>>,
              <<Uses("f", "h"), Uses("g", "h"), Uses("f", "h"), Uses("g", "h"), Uses("f", "i")>>}
Dirs == {<<"a">>, <<"a", "b">>, <<"a", "b", "c">>, <<"d">>}
Finding(rule, id) == [rule |-> rule, id |-> id]
Prints == [{<<"f", "s">>, <<"f", "t">>, <<"g", "s">>} -> 1..2]

QuerySample(input) ==
  \/ \E r \in Rankings, f \in Filters, t \in {0, 4, 7}, n \in 1..2 :
       input = [of |-> "ranking", ranked |-> r, filter |-> f, limits |-> [maxTokens |-> t, limit |-> n], scores |-> [a |-> 1, b |-> 2, c |-> 1, d |-> 0], churn |-> <<>>]
  \/ \E x, y, z \in Churns, a, b, c \in 0..2 :
       input = [of |-> "ranking", ranked |-> <<"a", "b", "c", "d">>, limits |-> [maxTokens |-> 0, limit |-> 2], scores |-> [a |-> a, b |-> b, c |-> c, d |-> 1],
                 filter |-> [seeds |-> {}, kinds |-> {}, excluded |-> {}, excludedRoles |-> {}], churn |-> <<x, y, z>>]
  \/ \E k, b \in SUBSET {"a", "b", "c"}, v, w \in StoredWindows, p, q \in PairLists, n \in {1, 3}, r \in {30, 45, Lifetime} :
       input = [of |-> "drift", kept |-> k, was |-> b, now |-> v, then |-> w, pairs |-> p, older |-> q, limit |-> n, requested |-> r]
  \/ \E f \in SUBSET Words(2), m \in SUBSET {<<"a">>, <<"b", "a">>}, t \in Words(2) : input = [of |-> "target", files |-> f, more |-> m, target |-> t]
  \/ \E x \in SUBSET {<<"a">>, <<"b", "b">>}, t \in Words(2), n \in 1..2 : input = [of |-> "seed", excluded |-> x, target |-> t, limit |-> n]
  \/ \E e \in WikiEdges, c \in SUBSET Range(WikiPackages), m, s \in SUBSET Dirs, n \in 1..2 :
       input = [of |-> "wiki", edges |-> e, chosen |-> c, manifests |-> m, skipped |-> s, limit |-> n]
  \/ \E n, o \in SUBSET {Finding("r", 1), Finding("s", 2)}, b, a \in Prints, d \in SUBSET {<<"f", "s">>, <<"g", "s">>} :
       input = [of |-> "diff", diff |-> [new |-> n, resolved |-> o, worsened |-> {Finding("s", 3)}, improved |-> {}],
                 before |-> b, after |-> [x \in DOMAIN a \ d |-> a[x]]]
QueriesAreTrue ==
  /\ sample.of = "ranking" =>
       /\ Queries!RankingIsKept(sample.ranked, QueryNodes, sample.filter, sample.limits, Reaches, sample.scores,
                              [imports |-> 2, extends |-> 1], sample.churn)
       /\ Queries!TopIsTop(sample.ranked, QueryNodes, sample.filter, sample.limits.limit)
  /\ sample.of = "drift" =>
       Queries!DriftComparesLikes(SnapshotOf(2, sample.kept, sample.now), SnapshotOf(1, sample.was, sample.then),
         [w \in {30, 45, 90, Lifetime} |-> IF w = 30 THEN sample.pairs ELSE sample.older], sample.requested, sample.limit)
  /\ sample.of = "target" => Queries!TargetsAreUnique(sample.files, sample.more, sample.target)
  /\ sample.of = "seed" => Queries!SeedsAreFollowed(SeedPairs, sample.excluded, sample.target, sample.limit)
  /\ sample.of = "wiki" =>
       Queries!WikiAgrees(sample.edges, WikiPackages, sample.chosen, WikiBucket, Dirs, sample.manifests, sample.skipped, sample.limit)
  /\ sample.of = "diff" => Queries!DiffsAreTold(sample.diff, sample.before, sample.after)

(* -------------------------------------------------------------------------- *)
(* What the dashboard lists of a payload: three files, of two packages.        *)
Spot(f, g, score, churn) == [node |-> f, pkg |-> g, score |-> score, churn |-> churn]
Spotted == <<Spot("a", "p", 4000, 1), Spot("b", "p", 3000, 2), Spot("c", "q", 500, 2)>>
Breach(f, r, s) == [node |-> f, rule |-> r, status |-> s]
Breaches == {<<>>, <<Breach("b", "r", "new")>>, <<Breach("a", "r", "carry"), Breach("c", "s", "fixed")>>,
             <<Breach("c", "r", "new"), Breach("a", "s", "carry"), Breach("c", "s", "carry")>>}
Moves == {"still", "new", "risen", "worsened", "improved", "resolved"}
Moved(d, moves) == SelectSeq(<<"a", "b", "c">>, LAMBDA f : d[f] \in moves)
Delta == [a |-> 3, b |-> 5, c |-> 4]
DriftOf(d) ==
  [newHotspots |-> [i \in DOMAIN Moved(d, {"new", "risen"}) |->
      [node |-> Moved(d, {"new", "risen"})[i], score |-> 1000 * i,
       before |-> IF d[Moved(d, {"new", "risen"})[i]] = "new" THEN NotBefore ELSE 1]],
   worsened |-> [i \in DOMAIN Moved(d, {"worsened"}) |-> [node |-> Moved(d, {"worsened"})[i], delta |-> Delta[Moved(d, {"worsened"})[i]]]],
   improved |-> [i \in DOMAIN Moved(d, {"improved"}) |-> [node |-> Moved(d, {"improved"})[i], delta |-> -Delta[Moved(d, {"improved"})[i]]]],
   resolved |-> [i \in DOMAIN Moved(d, {"resolved"}) |-> [node |-> Moved(d, {"resolved"})[i]]],
   newCoupling |-> <<[a |-> "a", b |-> "c"]>>]
CoEdited(a, b, n, class) == [a |-> a, b |-> b, coEdits |-> n, hidden |-> class = "hidden", unindexed |-> class = "unindexed"]
Classes == {"backed", "hidden", "unindexed"}
Risks == {<<>>} \cup {<<[node |-> "a", linkedTests |-> m], [node |-> "b", linkedTests |-> n]>> : m, n \in 0..2}
PayloadOf(pairs, breaches, drift, risks, authors) ==
  [hotspots |-> Spotted, busFactorRisks |-> <<>>, centralFiles |-> <<>>, couplingClusters |-> pairs, violations |-> breaches,
   blastRadius |-> <<>>, drift |-> drift, testCoverageRisks |-> risks, packages |-> <<>>,
   churnUnavailable |-> FALSE, authorCount |-> authors]
PlottedPackage(id, x, y, files) == [pkgId |-> id, instability |-> x, cohesion |-> y, fileCount |-> files, crossEdges |-> files]

PageSample(input) ==
  \/ \E x, y, z \in Classes, m, n \in 1..2, hits \in SUBSET {"a", "b", "c"} :
       input = [of |-> "listed", hits |-> hits, payload |->
                   PayloadOf(<<CoEdited("a", "b", 1, x), CoEdited("b", "c", m, y), CoEdited("a", "c", n, z)>>, <<>>, NoDrift, <<>>, 2)]
  \/ \E d \in [{"a", "b", "c"} -> Moves], v \in Breaches, hits \in SUBSET {"a", "b", "c"} :
       input = [of |-> "listed", hits |-> hits, payload |-> PayloadOf(<<>>, v, DriftOf(d), <<>>, 2)]
  \/ \E x1, x2, x3 \in {0, 2, 3}, y1, y2, y3 \in {18, 20, 22}, n \in 0..1 :
       input = [of |-> "plotted", scores |-> <<1, 2, 3, 1>>, maxTiles |-> 2, symbol |-> [consumers |-> <<>>, consumerCount |-> 0], risks |-> <<>>,
                 packages |-> <<PlottedPackage("p", x1, y1, 1), PlottedPackage("q", x2, y2, 1), PlottedPackage("r", x3, y3, n)>>]
  \/ \E s \in [1..4 -> {0, 1, 3}], n \in 1..4, k \in 0..3, more \in 0..2, r \in Risks :
       input = [of |-> "plotted", scores |-> s, maxTiles |-> n, risks |-> r, packages |-> <<>>,
                 symbol |-> [consumers |-> SubSeq(<<"a", "b", "c">>, 1, k), consumerCount |-> k + more]]

PagesTellTheSame ==
  /\ sample.of = "listed" => Pages!FilterOnlyNarrows(sample.payload, sample.hits) /\ Pages!ViewsTellTheSame(sample.payload)
  /\ sample.of = "plotted" =>
       Pages!PlotsAreLegible(sample.packages, [i \in DOMAIN sample.scores |-> [node |-> i, score |-> sample.scores[i]]], sample.maxTiles,
                             sample.symbol, PayloadOf(<<>>, <<>>, NoDrift, sample.risks, 1))

(* -------------------------------------------------------------------------- *)
(* -------------------------------------------------------------------------- *)
(* The page is opened without an address or with one of another view; the      *)
(* features are those of a rule, or of a surer one that is measured twice.     *)
MCTyped == {[view |-> "blank", node |-> "", q |-> "", w |-> ""], [view |-> "drift", node |-> "a", q |-> "", w |-> "30"]}
MCSections == "naming" :> "naming" @@ "idioms" :> "patterns" @@ "complexity" :> "patterns"
Feature(category, name, convention, confidence) ==
  [category |-> category, name |-> name, convention |-> convention, confidence |-> confidence]
MCAnalyzed == {<<Feature("idioms", "i", "x", 1)>>,
               <<Feature("idioms", "i", "x", 2), Feature("complexity", "i", "y", 2), Feature("reviewVoice", "n", "x", 2)>>}
MCAdjusted == {[convention |-> "x", confidence |-> 0]}

MCEarlier == {[sources |-> {r}, overrides |-> {},
               rules |-> <<"patterns", "i">> :> [convention |-> "x", confidence |-> 1, of |-> {r}]] : r \in Repos}

(* The fix stage rests in a state in which nothing has been asked of it.       *)
FixRests ==
  /\ kind = [i \in Items |-> "quality"] /\ branchOf = [i \in Items |-> BASE] /\ gateRuns = TRUE
  /\ step = "idle" /\ asked = "item" /\ late = FALSE /\ stopped = NoCause /\ records = <<>>
  /\ on = BASE /\ base = {} /\ head = {} /\ dirty = {} /\ kept = {}
  /\ current = {} /\ stale = FALSE /\ after = NoSnapshot /\ cause = NoCause /\ passed = {} /\ backup = "whole"

(* The page, the commands, the stage and the inputs share nothing, so one of     *)
(* them moves and the others rest.                                             *)
AnalysisSample(name, input) ==
  \/ name = "architecture" /\ ArchSample(input)
  \/ name = "audit" /\ AuditSample(input)
  \/ name = "census" /\ InputSample(input)
  \/ name = "payload" /\ DashSample(input)
  \/ name = "queries" /\ QuerySample(input)
  \/ name = "pages" /\ PageSample(input)
  \/ name = "readers" /\ ReaderSample(input)
  \/ name = "quizzes" /\ QuizSample(input)
  \/ name = "patches" /\ PatchSample(input)
  \/ name = "arms" /\ ArmSample(input)
Programs == {"page", "profile", "fix"}
Names == Programs \cup {"architecture", "audit", "census", "payload", "queries", "pages", "readers", "quizzes", "patches",
                      "arms"}

MCInit ==
  /\ focus \in Names /\ sample = [of |-> "nothing"] /\ ProfileInit /\ AppInit
  /\ focus # "page" => loc.view = Home
  /\ focus # "profile" => profile = NoProfile
  /\ IF focus = "fix" THEN FixInit ELSE FixRests

TakeInput == sample.of = "nothing" /\ focus \notin Programs /\ AnalysisSample(focus, sample')

MCNext ==
  \/ focus = "page" /\ AppNext /\ UNCHANGED <<profileVars, fixVars, sample, focus>>
  \/ focus = "profile" /\ ProfileNext /\ UNCHANGED <<appVars, fixVars, sample, focus>>
  \/ focus = "fix" /\ FixNext /\ UNCHANGED <<appVars, profileVars, sample, focus>>
  \/ TakeInput /\ UNCHANGED <<profileVars, appVars, fixVars, focus>>

MCVars == <<profileVars, appVars, fixVars, sample, focus>>
MCSpec == MCInit /\ [][MCNext]_MCVars /\ FixFairness

(* The page alone, whose events are delivered in the end.                      *)
PageSpec ==
  /\ MCInit /\ focus = "page" /\ [][MCNext]_MCVars
  /\ WF_appVars(Mount) /\ WF_appVars(HashChange)

(* -------------------------------------------------------------------------- *)
(* What is told of a snapshot adds up: of its architecture, and by its queries. *)
SnapshotIsTold == ArchitectureAddsUp /\ QueriesAreTrue

(* What an audit tells of a change, and of what the tests feed, is so.         *)
AuditIsTrue == AuditIsSound /\ CensusIsSound

(* What the dashboard shows, payload and pages, is so of the reports.          *)
PagesAreTrue == DashboardIsTrue /\ PagesTellTheSame

(* What is graded from the graph, and from patches, is graded fairly, and what *)
(* is put before a coding task names the best neighbours of its tests only;    *)
(* arms are ranked by outcome and compared on the tasks they share.            *)
GradesAreFair == QuizIsFair /\ PatchesAreFollowed /\ ArmsAreFair
=============================================================================
