---------------------------- MODULE TriageReader ----------------------------
(* What the triage reader is asked and what of its answers is kept: the choice *)
(* of findings (commands/triage-select.ts, triage-questions.ts), the excerpts  *)
(* they are bundled with (triage-bundle.ts, triage-excerpt.ts), the planted    *)
(* controls (triage-control-pick.ts, triage-score.ts) and the verification of  *)
(* the rows that come back (triage-verify.ts, triage-spec.ts).  A shown text   *)
(* is a set of <<path, line>>; it costs one for each line and one for each     *)
(* path.  Prompts, wording and elision marks are left out.                     *)
EXTENDS Naturals, Integers, Sequences, FiniteSets, FiniteSetsExt, SequencesExt

CONSTANTS NoSymbol, NoLines, NoRank, NoCaller, NoVerdict,
          Context,        \* OVERSIZE_CONTEXT
          SPEC_PATH

(* -------------------------------------------------------------------------- *)
(* Questions and the findings that are asked.                                  *)
Swallowed   == {"file-swallowed-except", "SIM105"}
WeakOracle  == {"symbol_weak_oracle_only", "symbol_assertion_free", "symbol_duplicate_assert", "symbol_self_compare"}
NeedsCaller == {"symbol-single-caller-helper"}
NeedsRanges == {"missing-test-kind", "clone"}
UsesSpec    == {"missing-test-kind"}
EveryRow    == WeakOracle \cup {"missing-test-kind", "clone"}
Asked       == EveryRow \cup NeedsCaller \cup Swallowed \cup
               {"symbol-cognitive", "symbol-narrating-comments", "symbol-comment-ratio", "symbol-constant-params",
                "symbol-pass-through", "file-except-density", "ERA001",
                "pyright/reportUnnecessaryCast", "pyright/reportUnnecessaryIsInstance"}

(* Why a finding is left out, if it is.                                        *)
ExclusionOf(f, rank, role, options) ==
  CASE f.signal \in EveryRow -> "none"
    [] f.signal \notin EveryRow /\ rank = NoRank -> "unscored"
    [] f.signal \notin EveryRow /\ rank # NoRank /\ rank < options.minRank -> "belowRank"
    [] OTHER -> IF ~options.includeTests /\ role \in {"test", "fixture"} THEN "tests" ELSE "none"

SelectTriageFiles(findings, rankOf, roleOf, options) ==
  LET eligible == {f \in findings : f.signal \in Asked}
      Left(why) == {f \in eligible : ExclusionOf(f, rankOf[f.path], roleOf[f.path], options) = why}
  IN [files |-> [p \in {f.path : f \in Left("none")} |-> {f \in Left("none") : f.path = p}],
      excluded |-> [why \in {"unscored", "belowRank", "tests"} |-> Cardinality(Left(why))],
      ineligible |-> Cardinality(findings \ eligible)]

(* -------------------------------------------------------------------------- *)
(* Lines.  source has the number of lines of each path, the spans of its       *)
(* symbols, and the one caller of a symbol.                                    *)
LineRange(start, end, max) == Max({1, start}) .. Min({max, end})
On(path, lines) == {path} \X lines
EstimateTokens(shown) == Cardinality(shown) + Cardinality({at[1] : at \in shown})
Length(source, path) == IF source.lines[path] = NoLines THEN 0 ELSE source.lines[path]

FlaggedLines(f) ==
  IF f.start = 0 THEN {} ELSE IF f.symbol # NoSymbol THEN {f.start} ELSE f.start .. f.end

(* The symbol a finding names, or the innermost around its first line.         *)
SymbolOf(f, spans) ==
  LET holders == {i \in DOMAIN spans : spans[i].start <= f.start /\ f.start <= spans[i].end}
      Span(i) == spans[i].end - spans[i].start
  IN IF f.symbol # NoSymbol THEN f.symbol
     ELSE IF f.start = 0 \/ holders = {} THEN NoSymbol
     ELSE spans[Min({i \in holders : \A j \in holders : Span(i) <= Span(j)})].symbol

RangeOf(f, source) ==
  LET spans == source.symbols[f.path]
      named == {i \in DOMAIN spans : spans[i].symbol = SymbolOf(f, spans)}
  IN IF named # {} THEN [key |-> <<"symbol", SymbolOf(f, spans)>>, start |-> spans[Min(named)].start, end |-> spans[Min(named)].end]
     ELSE IF f.start = 0 THEN [key |-> <<"file">>, start |-> 1, end |-> Length(source, f.path)]
     ELSE [key |-> <<"lines", f.start, f.end>>, start |-> f.start - Context, end |-> f.end + Context]

PrefixWithin(lines, cap) == {n \in lines : Cardinality({m \in lines : m <= n}) <= Max({1, cap})}

(* The whole range if it fits; else what is near a flagged line; else its start. *)
FitRange(path, range, flagged, source, cap) ==
  LET whole == LineRange(range.start, range.end, Length(source, path))
      near  == UNION {LineRange(n - Context, n + Context, Length(source, path)) : n \in flagged}
  IN IF EstimateTokens(On(path, whole)) <= cap THEN On(path, whole)
     ELSE IF whole \cap near # {} THEN On(path, whole \cap near)
     ELSE On(path, PrefixWithin(whole, cap))

CallerExcerpt(f, source, cap) ==
  LET caller == source.caller[f.symbol]
      spans  == source.symbols[caller.path]
      named  == {i \in DOMAIN spans : spans[i].symbol = caller.symbol}
  IN IF f.symbol = NoSymbol \/ caller = NoCaller THEN {}
     ELSE IF source.lines[caller.path] = NoLines \/ named = {} THEN {}
     ELSE FitRange(caller.path, spans[Min(named)], {spans[Min(named)].start}, source, cap)

NamedRangeExcerpts(f, source, cap) ==
  UNION {FitRange(r.path, r, {r.start}, source, cap) : r \in {q \in f.ranges : source.lines[q.path] # NoLines}}

SpecShown(source) == On(SPEC_PATH, 1 .. Length(source, SPEC_PATH))

ExtrasFor(f, source, cap) ==
  UNION {IF f.signal \in NeedsCaller THEN CallerExcerpt(f, source, cap) ELSE {},
         IF f.signal \in NeedsRanges THEN NamedRangeExcerpts(f, source, cap) ELSE {},
         IF f.signal \in UsesSpec THEN SpecShown(source) ELSE {}}
Extras(findings, source, cap) == UNION {ExtrasFor(f, source, cap) : f \in findings}

(* -------------------------------------------------------------------------- *)
(* Bundles.                                                                    *)
(* A mutant: an oversized range is cut to the lines of its first finding.      *)
UnitFor_FirstOnly(findings, source, cap) ==
  LET one   == CHOOSE f \in findings : \A g \in findings : f.id <= g.id
      range == RangeOf(one, source)
      shown == FitRange(one.path, range, FlaggedLines(one), source, cap)
  IN [firstLine |-> range.start, shown |-> shown \cup Extras(findings, source, cap), findings |-> findings]

UnitFor(findings, source, cap) ==
  LET one   == CHOOSE f \in findings : TRUE
      range == RangeOf(one, source)
      shown == FitRange(one.path, range, UNION {FlaggedLines(f) : f \in findings}, source, cap)
  IN [firstLine |-> range.start, shown |-> shown \cup Extras(findings, source, cap), findings |-> findings]

(* A finding of the whole file rides on the others, if there are any.          *)
BuildUnits(findings, source, cap) ==
  LET keys   == {RangeOf(f, source).key : f \in findings}
      Of(k)  == {f \in findings : RangeOf(f, source).key = k}
      riding == IF Cardinality(keys) > 1 THEN keys \cap {<<"file">>} ELSE {}
  IN {UnitFor(Of(k), source, cap) : k \in keys \ riding}
     \cup {[firstLine |-> 0, shown |-> Extras(Of(k), source, cap), findings |-> Of(k)] : k \in riding}

Shown(bundle) == UNION {u.shown : u \in bundle}

(* Greedy, in the order of first lines.                                        *)
RECURSIVE PackUnits(_, _, _)
PackUnits(packed, units, cap) ==
  IF units = {} THEN packed
  ELSE LET unit == CHOOSE u \in units : \A v \in units : u.firstLine <= v.firstLine
           fits == packed # <<>> /\ EstimateTokens(Shown(Last(packed)) \cup unit.shown) <= cap
       IN PackUnits(IF fits THEN [packed EXCEPT ![Len(packed)] = @ \cup {unit}] ELSE Append(packed, {unit}),
                    units \ {unit}, cap)

BuildBundles(files, source, cap) ==
  [p \in {q \in DOMAIN files : source.lines[q] # NoLines} |-> PackUnits(<<>>, BuildUnits(files[p], source, cap), cap)]

(* What the reader would be shown for this finding alone: the text whose hash  *)
(* the audit stores and carry-forward compares.                                *)
FindingExcerpt(f, source, cap) ==
  FitRange(f.path, RangeOf(f, source), FlaggedLines(f), source, cap) \cup Extras({f}, source, cap)

(* -------------------------------------------------------------------------- *)
(* Rows that come back: [key, citations, verdict], a citation [path, line,     *)
(* quoted].                                                                    *)
CitationFails(item, row) == \E i \in DOMAIN row.citations : <<row.citations[i].path, row.citations[i].line>> \notin item.shown

(* A mutant: only a kept answer counts as an answer.                           *)
Verified_AnyFirst(item, rows) ==
  {i \in DOMAIN rows : /\ rows[i].key \in item.keys /\ ~CitationFails(item, rows[i])
                       /\ \A j \in 1..(i - 1) : rows[j].key # rows[i].key \/ CitationFails(item, rows[j])}

(* The rows kept; a dropped answer, too, uses its question up.                 *)
Verified(item, rows) ==
  {i \in DOMAIN rows : /\ rows[i].key \in item.keys /\ ~CitationFails(item, rows[i])
                       /\ \A j \in 1..(i - 1) : rows[j].key # rows[i].key}
Redacted(item, row) ==
  IF \E at \in item.shown : at[1] = SPEC_PATH
  THEN [row EXCEPT !.citations = [i \in DOMAIN @ |-> IF @[i].path = SPEC_PATH THEN [@[i] EXCEPT !.quoted = FALSE] ELSE @[i]]]
  ELSE row
VerifyItemOutput(item, rows) == {Redacted(item, rows[i]) : i \in Verified(item, rows)}

(* -------------------------------------------------------------------------- *)
(* Controls: [id, kind, label].  The kinds come in the order of the code; what *)
(* a seed picks is any choice of that size.                                    *)
Few(pool, n) == kSubset(Min({n, Cardinality(pool)}), pool)
LabelOf(i, offset) == IF (i + offset) % 2 = 0 THEN "clean" ELSE "slop"
PreferredOf(pool, kind, label) ==
  LET ofKind == {c \in pool : c.kind = kind}
      preferred == {c \in ofKind : c.label = label}
  IN IF preferred # {} THEN preferred ELSE ofKind
OnePerKind(pool, kinds, offset) ==
  {S \in SUBSET pool : /\ Cardinality(S) = Len(kinds)
                       /\ \A i \in DOMAIN kinds : \E c \in S : c \in PreferredOf(pool, kinds[i], LabelOf(i - 1, offset))}
FillBalanced(pool, picked, total) ==
  LET rest == pool \ picked
      Labelled(S, label) == {c \in S : c.label = label}
      room  == total - Cardinality(picked)
      short == Max({0, (total \div 2) - Cardinality(Labelled(picked, "clean"))})
  IN UNION {{clean \cup slop : slop \in Few(Labelled(rest, "slop"), room - Cardinality(clean))} :
              clean \in Few(Labelled(rest, "clean"), Min({short, room}))}
PickRunControls(pool, kinds, offset, n) ==
  LET asked == SelectSeq(kinds, LAMBDA k : \E c \in pool : c.kind = k)
  IN IF n = 0 THEN {{}}
     ELSE UNION {{picked \cup fill : fill \in FillBalanced(pool, picked, Max({n, Cardinality(picked)}))} :
                   picked \in OnePerKind(pool, asked, offset)}

Expected(label) == IF label = "slop" THEN "confirmed" ELSE "justified"
Opposite(verdict) == IF verdict = "confirmed" THEN "justified" ELSE "confirmed"
AnswerOf(control, verdicts) ==   \* control.findings is their number
  IF verdicts = <<>> THEN NoVerdict
  ELSE IF Opposite(Expected(control.label)) \in Range(verdicts) THEN Opposite(Expected(control.label))
  ELSE IF Len(verdicts) = control.findings /\ Range(verdicts) = {Expected(control.label)} THEN Expected(control.label)
  ELSE "unclear"
ControlRun(controls, verdictsOf) ==
  IF \E c \in controls : AnswerOf(c, verdictsOf[c.id]) = Opposite(Expected(c.label)) THEN "provisional" ELSE "ok"

(* -------------------------------------------------------------------------- *)
(* Every finding of a readable file that is chosen is asked in one bundle,     *)
(* which shows its own flagged lines, those of its range that is, and all that *)
(* its stored hash is of, unless it has no line there; a bundle above the cap  *)
(* is of one range; and every finding left out is counted for one reason.      *)
FindingsAreShown(findings, rankOf, roleOf, options, source, cap) ==
  LET chosen  == SelectTriageFiles(findings, rankOf, roleOf, options)
      bundles == BuildBundles(chosen.files, source, cap)
      AskedIn(f) == {i \in DOMAIN bundles[f.path] : \E u \in bundles[f.path][i] : f \in u.findings}
      Own(f) == On(f.path, FlaggedLines(f) \cap LineRange(RangeOf(f, source).start, RangeOf(f, source).end, Length(source, f.path)))
      Taken  == UNION {chosen.files[p] : p \in DOMAIN chosen.files}
  IN /\ Cardinality(Taken) + MapThenSumSet(LAMBDA why : chosen.excluded[why], DOMAIN chosen.excluded) + chosen.ineligible
          = Cardinality(findings)
     /\ \A f \in {g \in Taken : source.lines[g.path] # NoLines} :
          \E i \in DOMAIN bundles[f.path] :
            LET shown == Shown(bundles[f.path][i])
            IN /\ AskedIn(f) = {i}
               /\ Own(f) \subseteq shown
               /\ Own(f) # {} => FindingExcerpt(f, source, cap) \subseteq shown
               /\ EstimateTokens(shown) > cap => Cardinality(bundles[f.path][i]) = 1

(* A kept answer is the first to an asked question and cites shown lines only, *)
(* and none quotes the spec; every first answer with good citations is kept.   *)
AnswersAreGrounded(item, rows) ==
  LET kept == VerifyItemOutput(item, rows)
      First(key) == CHOOSE i \in DOMAIN rows : rows[i].key = key /\ \A j \in 1..(i - 1) : rows[j].key # key
  IN /\ \A r \in kept : /\ \A i \in DOMAIN r.citations : <<r.citations[i].path, r.citations[i].line>> \in item.shown
                        /\ \A i \in DOMAIN r.citations : r.citations[i].path = SPEC_PATH => ~r.citations[i].quoted
     /\ \A key \in item.keys : Cardinality({r \in kept : r.key = key}) =
          IF \E i \in DOMAIN rows : rows[i].key = key /\ i = First(key) /\ ~CitationFails(item, rows[i]) THEN 1 ELSE 0
     /\ \A r \in kept : r.verdict = rows[First(r.key)].verdict

(* Whatever the seed: no question kind the pool can plant goes without a       *)
(* control, of two such kinds with both labels both labels are planted, and no *)
(* more controls than wanted unless the kinds need them; and one wrong answer  *)
(* to a control, not a missing or unclear one, makes the run provisional.      *)
ControlsAreFair(pool, kinds, offset, n, verdictsOf) ==
  LET asked == {k \in Range(kinds) : \E c \in pool : c.kind = k}
      Both(k) == {"clean", "slop"} \subseteq {c.label : c \in {d \in pool : d.kind = k}}
  IN \A picked \in PickRunControls(pool, kinds, offset, n) :
       /\ n > 0 => asked \subseteq {c.kind : c \in picked}
       /\ n > 0 /\ Cardinality(asked) > 1 /\ (\A k \in asked : Both(k)) => {c.label : c \in picked} = {"clean", "slop"}
       /\ Cardinality(picked) <= Max({n, Cardinality(asked)})
       /\ ControlRun(picked, verdictsOf) = "provisional"
            <=> \E c \in picked : \E v \in Range(verdictsOf[c.id]) : v # "unclear" /\ (v = "confirmed") # (c.label = "slop")
=============================================================================
