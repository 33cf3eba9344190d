---------------------------- MODULE AuditContract ----------------------------
(* The contract changes an audit tells of a diff: error sites a symbol lost,   *)
(* parameters it changed, exit codes and flags a script changed, and who still *)
(* depends on them (commands/audit-contract*.ts, audit-changed.ts,             *)
(* audit-graph-walk.ts); and the scores of files and symbols                   *)
(* (audit-score.ts).  Syntax trees are reduced to the facts read off them.     *)
EXTENDS Naturals, Sequences, FiniteSets, FiniteSetsExt, SequencesExt

CONSTANTS NoOwner,       \* a line outside every symbol
          Unknown,       \* a call of which the graph has no site
          Qualitative    \* QUALITATIVE_SIGNALS

(* -------------------------------------------------------------------------- *)
(* Lines.  A hunk is <<start, count>>; a pure deletion touches the line before.*)
HunkRange(h) == IF h[2] = 0 THEN <<h[1], h[1]>> ELSE <<h[1], h[1] + h[2] - 1>>
Touches(hunks, span) == \E h \in hunks : HunkRange(h)[1] <= span[2] /\ span[1] <= HunkRange(h)[2]

(* Of the spans that hold a line the shortest, the first of those.             *)
OwnerOf(symbols, line) ==
  LET holders == {i \in DOMAIN symbols : symbols[i].span[1] <= line /\ line <= symbols[i].span[2]}
      Length(i) == symbols[i].span[2] - symbols[i].span[1]
      least == {i \in holders : \A j \in holders : Length(i) <= Length(j)}
  IN IF holders = {} THEN NoOwner ELSE symbols[Min(least)].id

(* -------------------------------------------------------------------------- *)
(* Lost errors: sites are sequences of [key, owner], in the order of lines.    *)
Count(sites, key) == Cardinality({i \in DOMAIN sites : sites[i].key = key})
CountAt(sites, site) == Cardinality({i \in DOMAIN sites : sites[i] = site})
Dropped(base, head, key) ==
  IF Count(base, key) > Count(head, key) THEN Count(base, key) - Count(head, key) ELSE 0

(* A mutant: an owner's sites at head are not set off against its sites at base. *)
LostOccurrences_First(base, head, key) ==
  {i \in DOMAIN base : base[i].key = key /\ Count(SubSeq(base, 1, i), key) <= Dropped(base, head, key)}

(* The first of base's sites that their owner has no counterpart for.          *)
LostOccurrences(base, head, key) ==
  LET spare == {i \in DOMAIN base : base[i].key = key /\
                  CountAt(SubSeq(base, 1, i), base[i]) > CountAt(head, base[i])}
  IN {i \in spare : Cardinality({j \in spare : j <= i}) <= Dropped(base, head, key)}

LostErrors(base, head) ==
  LET lost == UNION {LostOccurrences(base, head, key) : key \in {base[i].key : i \in DOMAIN base}}
  IN {base[i] : i \in {j \in lost : base[j].owner # NoOwner}}

(* -------------------------------------------------------------------------- *)
(* Parameters: [name, positional, required, default]; a call passes args many  *)
(* positional arguments and the keywords kwargs.                               *)
PositionalNames(params) ==
  LET positional == SelectSeq(params, LAMBDA p : p.positional)
  IN [i \in DOMAIN positional |-> positional[i].name]
ParamNames(params) == {params[i].name : i \in DOMAIN params}
ParamOf(params, name) == params[CHOOSE i \in DOMAIN params : params[i].name = name]
Places(params, name) == {i \in DOMAIN PositionalNames(params) : PositionalNames(params)[i] = name}

Omits(params, name, call) ==
  (\A i \in Places(params, name) : call.args < i) /\ name \notin call.kwargs

ParamChanges(base, head) ==
  {[kind |-> "param-added", detail |-> n] : n \in {m \in ParamNames(head) \ ParamNames(base) : ParamOf(head, m).required}}
  \cup {[kind |-> "param-removed", detail |-> n] : n \in ParamNames(base) \ ParamNames(head)}
  \cup (IF /\ PositionalNames(head) # PositionalNames(base)
            /\ Len(PositionalNames(head)) = Len(PositionalNames(base))
            /\ Range(PositionalNames(head)) = Range(PositionalNames(base))
         THEN {[kind |-> "param-reordered", detail |-> PositionalNames(head)]} ELSE {})
  \cup {[kind |-> "default-changed", detail |-> n] :
          n \in {m \in ParamNames(base) \cap ParamNames(head) : ParamOf(base, m).default # ParamOf(head, m).default}}

Affects(change, head, call) ==
  \/ call = Unknown
  \/ change.kind \in {"param-added", "default-changed"} /\ Omits(head, change.detail, call)
  \/ change.kind = "param-removed" /\ (change.detail \in call.kwargs \/ call.args > Len(PositionalNames(head)))
  \/ change.kind = "param-reordered" /\ call.args > 1

(* -------------------------------------------------------------------------- *)
(* Who depends on a symbol: sites[<<caller, callee>>] are the calls recorded.  *)
Callers(sites, id) == {p[1] : p \in {q \in DOMAIN sites : q[2] = id /\ q[1] # id}}

(* A mutant: a test is told only when it calls a caller itself.                *)
ReachingTests_Near(id, sites, tests) == ({id} \cup Callers(sites, id)) \cap tests

RECURSIVE Upward(_, _)
Upward(seen, sites) ==
  LET next == seen \cup UNION {Callers(sites, id) : id \in seen}
  IN IF next = seen THEN seen ELSE Upward(next, sites)
ReachingTests(id, sites, tests) == Upward({id}, sites) \cap tests

Reach(subject, felt, sites, tests, inDiff) ==
  LET affected == {c \in Callers(sites, subject) :
                     sites[<<c, subject>>] = {} \/ sites[<<c, subject>>] \cap felt # {}}
      callers  == affected \ tests
      reaching == (affected \cap tests) \cup UNION {ReachingTests(c, sites, tests) : c \in callers}
  IN [callersOut |-> callers \ inDiff, callersIn |-> callers \cap inDiff, testsOut |-> reaching \ inDiff]
Noticed(r) == r.callersOut \cup r.testsOut # {}

ErrorIsTold(r, asserting) == Noticed(r) \/ asserting = {}

(* Non-test symbols on both sides that the diff touches.                       *)
SubjectsOf(baseIds, head, tests, hunks) ==
  {s \in head : s.id \in baseIds /\ s.id \notin tests /\ Touches(hunks, s.span)}

(* -------------------------------------------------------------------------- *)
(* Scripts: exit codes and flags; an invoker has [args, test, inDiff].         *)
ScriptChanges(before, after) ==
  {[kind |-> "exit-code-added", detail |-> c] : c \in after.exitCodes \ before.exitCodes}
  \cup {[kind |-> "exit-code-removed", detail |-> c] : c \in before.exitCodes \ after.exitCodes}
  \cup {[kind |-> "flag-removed", detail |-> f] : f \in before.flags \ after.flags}
ScriptFindings(before, after, invokers) ==
  {c \in ScriptChanges(before, after) :
     before.readable /\ after.readable /\ (before.guarded \/ after.guarded)
     /\ \E i \in invokers : ~i.inDiff /\ (c.kind = "flag-removed" => c.detail \in i.args)}

(* -------------------------------------------------------------------------- *)
(* Scores.                                                                     *)
PercentileRanks(values) ==   \* as fractions <<below, others>>
  [i \in DOMAIN values |-> IF Len(values) <= 1 THEN <<0, 1>>
                           ELSE <<Cardinality({j \in DOMAIN values : values[j] < values[i]}), Len(values) - 1>>]
SymbolOf(f, symbols) == IF f.symbol # NoOwner THEN f.symbol ELSE OwnerOf(symbols, f.line)
SumCounts(findings) == Cardinality({i \in DOMAIN findings : findings[i].signal \notin Qualitative})
SymbolTotal(id, symbols, findings) ==
  SumCounts(SelectSeq(findings, LAMBDA f : SymbolOf(f, symbols) = id))

(* -------------------------------------------------------------------------- *)
(* What a call does: it fits a list of parameters, and gives each a value.     *)
Fits(params, call) ==
  /\ call.args <= Len(PositionalNames(params)) /\ call.kwargs \subseteq ParamNames(params)
  /\ \A n \in ParamNames(params) :
       LET byPlace == \E i \in Places(params, n) : i <= call.args
       IN /\ ~(byPlace /\ n \in call.kwargs)
          /\ ParamOf(params, n).required => byPlace \/ n \in call.kwargs
Given(params, n, call) ==
  LET i == {j \in Places(params, n) : j <= call.args}
  IN IF i # {} THEN <<"arg", Min(i)>> ELSE IF n \in call.kwargs THEN <<"keyword", 0>>
     ELSE <<"default", ParamOf(params, n).default>>
Felt(base, head, call) ==
  Fits(head, call) => \E n \in ParamNames(base) \cap ParamNames(head) : Given(base, n, call) # Given(head, n, call)
Told(base, head, call) == \E c \in ParamChanges(base, head) : Affects(c, head, call)

(* A change of parameters told of a call is one the call feels: it no longer   *)
(* fits, or a parameter has another value; and where no parameter changes its  *)
(* place every call that feels the change is told.  A reorder may be told of   *)
(* calls that stop before it.                                                  *)
ChangesAreFelt(base, head, call) ==
  Fits(base, call) =>
    /\ \A c \in ParamChanges(base, head) :
         c.kind # "param-reordered" /\ Affects(c, head, call) => Felt(base, head, call)
    /\ (\A n \in ParamNames(base) \cap ParamNames(head) : Places(base, n) = Places(head, n))
         /\ Felt(base, head, call) => Told(base, head, call)

(* A call that fitted and no longer fits is told of some change.               *)
BreaksAreTold(base, head, call) ==
  Fits(base, call) /\ ~Fits(head, call) => Told(base, head, call)

(* As many sites of an error are lost as its count dropped, so none when it    *)
(* only moved; and a symbol said to have lost one has fewer than it had.       *)
LossesBalance(base, head) ==
  /\ \A key \in {base[i].key : i \in DOMAIN base} :
       Cardinality(LostOccurrences(base, head, key)) = Dropped(base, head, key)
  /\ \A s \in LostErrors(base, head) : CountAt(base, s) > CountAt(head, s)

(* A test outside the diff is told exactly if it calls the symbol in a way     *)
(* that feels the change, or some chain of calls leads from it to such a       *)
(* caller; and every such caller is told, in the diff or not.                  *)
DependentsAreTold(subject, felt, sites, tests, inDiff) ==
  LET r == Reach(subject, felt, sites, tests, inDiff)
      symbols == UNION {{p[1], p[2]} : p \in DOMAIN sites}
      Feels(c) == c # subject /\ <<c, subject>> \in DOMAIN sites
                  /\ (sites[<<c, subject>>] = {} \/ sites[<<c, subject>>] \cap felt # {})
      Chain(t, c) == \E n \in 1..Cardinality(symbols) : \E path \in [1..n -> symbols] :
                       path[1] = t /\ path[n] = c /\ \A i \in 1..(n - 1) : <<path[i], path[i + 1]>> \in DOMAIN sites
  IN /\ r.callersOut \cup r.callersIn = {c \in symbols \ tests : Feels(c)}
     /\ r.testsOut = {t \in tests \ inDiff : Feels(t) \/ \E c \in symbols \ tests : Feels(c) /\ Chain(t, c)}

(* A score counts a finding at one symbol, with no other around its line       *)
(* inside it; ranks tell no more than the order of the values.                 *)
ScoresFollowFindings(values, symbols, findings) ==
  LET ranks == PercentileRanks(values)
      Of(id) == {i \in DOMAIN findings : SymbolOf(findings[i], symbols) = id}
  IN /\ \A i, j \in DOMAIN values :
          values[i] < values[j] <=> ranks[i][1] < ranks[j][1]
     /\ \A s \in Range(symbols) : \A i \in Of(s.id) : findings[i].symbol = NoOwner =>
          ~\E t \in Range(symbols) : /\ t.span[1] <= findings[i].line /\ findings[i].line <= t.span[2]
                                     /\ s.span[1] <= t.span[1] /\ t.span[2] <= s.span[2] /\ s.span # t.span

(* An invoker outside the diff whose flags a script took is told when it takes *)
(* them no longer.                                                             *)
FlagsAreKept(before, after, invokers) ==
  \A i \in invokers :
    /\ ~i.inDiff /\ before.guarded /\ before.readable /\ after.readable
    /\ i.args \subseteq before.flags /\ ~(i.args \subseteq after.flags)
    => \E c \in ScriptFindings(before, after, invokers) : c.kind = "flag-removed" /\ c.detail \in i.args
=============================================================================
