----------------------------- MODULE AuditInputs -----------------------------
(* What an audit tells of a program's entry points: which they are             *)
(* (commands/audit-entries.ts), the kinds of test they miss                    *)
(* (audit-test-kinds.ts), and the classes of input their tests never feed      *)
(* (audit-input-classes.ts, audit-input-feeds.ts, audit-input-gaps.ts).        *)
(* Syntax trees are reduced to the statements and facts read off them.         *)
EXTENDS Naturals, Sequences, FiniteSets, FiniteSetsExt, SequencesExt, Functions

CONSTANTS NoBase,             \* a dictionary written out, not copied
          FINDINGS_PER_ENTRY

(* -------------------------------------------------------------------------- *)
(* Entry points of a program p.  Its calls are pairs, from a symbol or from    *)
(* the top level of a file.                                                    *)
TestFileIds(p) == {s \in p.symbols : s.test}
SourceSymbols(p) == {s \in p.symbols : s.file \notin p.testFiles \cup {t.file : t \in TestFileIds(p)}}

ScriptEntries(p) == {s \in SourceSymbols(p) : s.id \in p.scripts}
GuardEntries(p) ==
  {s \in SourceSymbols(p) : \E f \in p.files : <<f, s.id>> \in p.calls /\ (f \in p.mainModules \/ <<f, s.id>> \in p.guards)}
CliEntries(p) == ScriptEntries(p) \cup GuardEntries(p) \cup {s \in SourceSymbols(p) : s.handler}
LibraryEntries(p) ==
  {s \in SourceSymbols(p) : s.public /\ \E t \in TestFileIds(p) : <<t.id, s.id>> \in p.calls}

FindEntryPoints(p) == IF CliEntries(p) # {} THEN CliEntries(p) ELSE LibraryEntries(p)

(* The tests that feed an entry: calling it, also by a function of their file  *)
(* that is no test, or starting it as a process.                               *)
Helpers(p, t) ==
  {h \in p.symbols : <<t.id, h.id>> \in p.calls /\ t # h /\ h.file = t.file /\ ~h.test}
FeedingTests(p, entry) ==
  {t \in TestFileIds(p) : \/ \E s \in {t} \cup Helpers(p, t) : <<s.id, entry.id>> \in p.calls /\ s # entry
                          \/ CliEntries(p) # {} /\ entry.id \in t.runs}

(* Sources the entry reaches by calls.                                         *)
RECURSIVE Closure(_, _)
Closure(seen, p) ==
  LET next == seen \cup {s \in SourceSymbols(p) : \E r \in seen : <<r.id, s.id>> \in p.calls}
  IN IF next = seen THEN seen ELSE Closure(next, p)

(* -------------------------------------------------------------------------- *)
(* Kinds of test: a requirement is met by any count above zero.                *)
GapsOf(kinds, counts, policy) ==
  {r \in UNION {policy[k] : k \in kinds} : \A m \in r.anyOf : counts[m] = 0}
TestKindFindings(entry, reached, touched, kinds, counts, policy) ==
  IF reached \/ touched THEN {<<entry, r.slug>> : r \in GapsOf(kinds, counts, policy)} ELSE {}

(* -------------------------------------------------------------------------- *)
(* The documents of a body, in statement order.  A document maps keys to       *)
(* classes; "bind" copies a document and edits it, "inline" passes a copy on   *)
(* at once, "pass" names a bound one.  The file's own dictionaries are bases,  *)
(* copied from and never edited.                                               *)
Without(doc, key) == [k \in DOMAIN doc \ {key} |-> doc[k]]
With(doc, key, class) == [k \in DOMAIN doc \cup {key} |-> IF k = key THEN class ELSE doc[k]]
Overlay(doc, edits) == [k \in DOMAIN doc \cup DOMAIN edits |-> IF k \in DOMAIN edits THEN edits[k] ELSE doc[k]]

CopiedDoc(w, s) ==
  Overlay(IF s.from \in DOMAIN w.bound THEN w.bound[s.from]
          ELSE IF s.from \in DOMAIN w.bases THEN w.bases[s.from] ELSE <<>>, s.edits)

(* A mutant: a document already passed on is not passed on again when it was   *)
(* bound anew.                                                                 *)
Assign_Passed(w, s) == [w EXCEPT !.bound = With(w.bound, s.of, CopiedDoc(w, s))]

Assign(w, s) ==
  [w EXCEPT !.bound = With(w.bound, s.of, CopiedDoc(w, s)), !.passed = @ \ {s.of}]
Edited(w, s) ==
  IF s.of \notin DOMAIN w.bound THEN w
  ELSE [w EXCEPT !.bound[s.of] = IF s.op = "set" THEN With(@, s.key, s.class) ELSE Without(@, s.key)]

Passed(w, s) ==
  IF s.of \in DOMAIN w.bound \ w.passed
  THEN [w EXCEPT !.passed = @ \cup {s.of}, !.documents = Append(@, w.bound[s.of])] ELSE w

Visit(w, s) ==
  CASE s.op = "bind"           -> Assign(w, s)
    [] s.op = "inline"         -> [w EXCEPT !.documents = Append(@, CopiedDoc(w, s))]
    [] s.op = "pass"           -> Passed(w, s)
    [] s.op \in {"set", "del"} -> Edited(w, s)

RECURSIVE Walk(_, _)
Walk(w, body) == IF body = <<>> THEN w.documents ELSE Walk(Visit(w, Head(body)), Tail(body))
Documents(bases, body) == Walk([bases |-> bases, bound |-> <<>>, passed |-> {}, documents |-> <<>>], body)

(* -------------------------------------------------------------------------- *)
(* Input classes of an entry e: readers are a sequence of what keys each reads *)
(* and how; feeds is what each test supplies.                                  *)
Never(fed, names) == {n \in names : fed[n] = 0}
Class(class, subject, fed, never) == [class |-> class, subject |-> subject, fed |-> fed, never |-> never]

Matched(e, i) ==   \* the documents with two of the reader's keys, as <<test, place>>
  {m \in UNION {{<<t, d>> : d \in DOMAIN e.feeds[t].documents} : t \in DOMAIN e.feeds} :
     Cardinality(DOMAIN e.feeds[m[1]].documents[m[2]] \cap DOMAIN e.readers[i]) >= 2}
KeyAt(e, m, key) ==
  LET doc == e.feeds[m[1]].documents[m[2]] IN IF key \in DOMAIN doc THEN doc[key] ELSE "missing"

Reads(e, i) ==
  IF Cardinality(DOMAIN e.readers[i]) < 2 \/ Matched(e, i) = {} THEN {}
  ELSE {k \in DOMAIN e.readers[i] : e.readers[i][k] # "required"}
KeyFed(e, i, key) ==
  [c \in {"present", "null", "missing", "empty"} |-> Cardinality({m \in Matched(e, i) : KeyAt(e, m, key) = c})]
KeyClasses(e) ==   \* a key is counted for the first reader of it
  {Class("key", <<p[2], e.readers[p[1]][p[2]]>>, KeyFed(e, p[1], p[2]),
         Never(KeyFed(e, p[1], p[2]), {"missing", "null", "empty"})) :
     p \in {q \in UNION {{<<i, k>> : k \in Reads(e, i)} : i \in DOMAIN e.readers} : \A j \in 1..(q[1] - 1) : q[2] \notin Reads(e, j)}}

Calls(e) == UNION {{<<t, c>> : c \in DOMAIN e.feeds[t].calls} : t \in DOMAIN e.feeds}
ArgAt(e, c, param) ==
  LET call == e.feeds[c[1]].calls[c[2]] IN IF param \in DOMAIN call THEN call[param] ELSE "omitted"
Fed(e, param, class) == Cardinality({c \in Calls(e) : ArgAt(e, c, param) = class})
EmptyClasses(e) ==
  IF e.library
  THEN {LET fed == [empty |-> Fed(e, p, "empty")] IN Class("empty", <<p>>, fed, Never(fed, {"empty"})) : p \in e.iterated}
  ELSE LET fed == [empty |-> Cardinality({t \in DOMAIN e.feeds : e.feeds[t].empty})]
       IN {Class("empty", <<"input">>, fed, Never(fed, {"empty"}))}
NullClasses(e) ==
  IF ~e.library THEN {}
  ELSE {LET fed == [null |-> Fed(e, p, "null"), omitted |-> Fed(e, p, "omitted")]
        IN Class("null", <<p>>, fed, IF fed.null + fed.omitted = 0 THEN {"null"} ELSE {}) : p \in e.nullable}

(* A keyword of a helper decides; else a literal of the test, or of a helper   *)
(* without a parameter of the flag's name.                                     *)
PassesFlag(flag, feed) ==
  flag \in DOMAIN feed.kwargs \/ \E s \in feed.flagSources : flag \notin s.params /\ flag \in s.literals
FlagOn(flag, feed) ==
  IF flag \in DOMAIN feed.kwargs THEN feed.kwargs[flag] # "falsy" ELSE PassesFlag(flag, feed)
OnOff(e, flag, tests) ==
  [on  |-> Cardinality({t \in tests : FlagOn(flag, e.feeds[t])}),
   off |-> Cardinality({t \in tests : ~FlagOn(flag, e.feeds[t])})]
PassesChoice(flag, value, feed) ==
  \/ flag \in DOMAIN feed.kwargs /\ feed.kwargs[flag] = value
  \/ <<flag, value>> \in feed.choices
ChoiceClasses(e) ==
  {LET fed == [passed |-> Cardinality({t \in DOMAIN e.feeds : PassesChoice(c[1], c[2], e.feeds[t])})]
   IN Class("mode", c, fed, Never(fed, {"passed"})) : c \in e.choices}
ModeClasses(e) ==
  IF \A t \in DOMAIN e.feeds : \A flag \in e.flags \cup {c[1] : c \in e.choices} : ~PassesFlag(flag, e.feeds[t])
  THEN {}
  ELSE ChoiceClasses(e) \cup {LET fed == OnOff(e, flag, DOMAIN e.feeds) IN Class("mode", <<flag>>, fed, Never(fed, {"on", "off"})) : flag \in e.flags}
Asserting(e, code) == {t \in DOMAIN e.feeds : code \in e.feeds[t].asserted}
ModeErrorClasses(e) ==
  {LET fed == OnOff(e, p[2], Asserting(e, p[1]))
   IN Class("mode-error", p, fed, IF fed.on > 0 /\ fed.off = 0 THEN {"off"} ELSE {}) :
     p \in (UNION {e.feeds[t].asserted : t \in DOMAIN e.feeds}) \X e.flags}
UnassertedClasses(e) ==
  {LET fed == [asserted |-> Cardinality(Asserting(e, code))]
   IN Class("unasserted", <<code>>, fed, Never(fed, {"asserted"})) : code \in e.codes}

ClassifyGaps(e) ==
  ModeErrorClasses(e) \cup KeyClasses(e) \cup EmptyClasses(e) \cup ModeClasses(e)
  \cup NullClasses(e) \cup UnassertedClasses(e)

RankOf(c) ==
  CASE c.class = "mode-error" -> 0 [] c.class = "key" -> IF c.subject[2] = "default" THEN 1 ELSE 2
    [] c.class = "empty" -> 3 [] c.class = "mode" -> 4 [] c.class = "null" -> 5 [] OTHER -> 6

(* At most so many gaps of an entry are told, the worst; ties are broken by    *)
(* names.                                                                      *)
InputClassFindings(e) ==
  LET gaps == {c \in ClassifyGaps(e) : c.never # {}}
  IN CHOOSE S \in kSubset(Min({FINDINGS_PER_ENTRY, Cardinality(gaps)}), gaps) :
       \A c \in S : \A d \in gaps \ S : RankOf(c) <= RankOf(d)

(* -------------------------------------------------------------------------- *)
(* The documents counted are those a test passes on: one for every copy passed *)
(* at once, and one for each binding of a name, with the edits made between    *)
(* the binding and its first use.                                              *)
LastBind(body, name, i) == Max({0} \cup {j \in 1..(i - 1) : body[j].op = "bind" /\ body[j].of = name})
RECURSIVE Held(_, _, _, _)
Held(bases, body, name, i) ==   \* the document of the name before statement i
  IF LastBind(body, name, i) = 0 THEN IF name \in DOMAIN bases THEN bases[name] ELSE <<>>
  ELSE LET b == LastBind(body, name, i)
           made == Overlay(Held(bases, body, body[b].from, b), body[b].edits)
           edits(k) == {j \in (b + 1)..(i - 1) : body[j].op \in {"set", "del"} /\ body[j].of = name /\ body[j].key = k}
           keys == {body[j].key : j \in {x \in (b + 1)..(i - 1) : body[x].op \in {"set", "del"} /\ body[x].of = name}}
           has == {k \in DOMAIN made \cup keys : edits(k) # {} => body[Max(edits(k))].op = "set"}
       IN [k \in has |-> IF edits(k) # {} THEN body[Max(edits(k))].class ELSE made[k]]
Uses(body) ==
  {i \in DOMAIN body :
     \/ body[i].op = "inline"
     \/ /\ body[i].op = "pass" /\ LastBind(body, body[i].of, i) # 0
        /\ \A j \in (LastBind(body, body[i].of, i) + 1)..(i - 1) : body[j].op # "pass" \/ body[j].of # body[i].of}
DocumentsArePassedOn(bases, body) ==
  LET uses == SetToSortSeq(Uses(body), <)
  IN Documents(bases, body) = [n \in DOMAIN uses |->
       LET i == uses[n] IN IF body[i].op = "pass" THEN Held(bases, body, body[i].of, i)
                           ELSE Overlay(Held(bases, body, body[i].from, i), body[i].edits)]

(* A class said never to be fed is fed by no test, every document is counted   *)
(* once for each key, and the gaps left out are no worse than those told.      *)
CensusIsTrue(e) ==
  LET found == InputClassFindings(e)
      gaps  == {c \in ClassifyGaps(e) : c.never # {}}
      Docs  == UNION {Range(e.feeds[t].documents) : t \in DOMAIN e.feeds}
      OneReader(k) == Cardinality({i \in DOMAIN e.readers : k \in DOMAIN e.readers[i]}) = 1
      KeysOf(k) == DOMAIN e.readers[CHOOSE i \in DOMAIN e.readers : k \in DOMAIN e.readers[i]]
  IN /\ \A c \in gaps \ found : \A d \in found : RankOf(d) <= RankOf(c)
     /\ \A c \in {d \in ClassifyGaps(e) : d.class = "key" /\ OneReader(d.subject[1])} :
          LET k == c.subject[1]
              ours == {d \in Docs : Cardinality(DOMAIN d \cap KeysOf(k)) >= 2}
          IN /\ "missing" \in c.never <=> \A d \in ours : k \in DOMAIN d
             /\ \A v \in {"null", "empty"} : v \in c.never <=> \A d \in ours : k \in DOMAIN d => d[k] # v
     /\ \A c \in {d \in gaps : d.class = "mode-error"} : \A t \in DOMAIN e.feeds :
          c.subject[1] \in e.feeds[t].asserted => FlagOn(c.subject[2], e.feeds[t])
     /\ \A c \in {d \in gaps : d.class = "null"} : \A t \in DOMAIN e.feeds : \A i \in DOMAIN e.feeds[t].calls :
          c.subject[1] \in DOMAIN e.feeds[t].calls[i]

(* A further test never adds a gap, except that the first to reach an entry     *)
(* brings up those it leaves.                                                  *)
TestsCloseGaps(kinds, counts, more, policy) ==
  LET Gaps(c) == TestKindFindings("entry", \E m \in DOMAIN c : c[m] > 0, FALSE, kinds, c, policy)
      sum == [m \in DOMAIN counts |-> counts[m] + more[m]]
  IN (\E m \in DOMAIN counts : counts[m] > 0) => Gaps(sum) \subseteq Gaps(counts)

(* Every entry is code, not a test; a program a shell can start is fed as      *)
(* that, and one that only tests call by what they call.                       *)
EntriesAreFed(p) ==
  LET entries == FindEntryPoints(p)
  IN /\ \A s \in entries : ~s.test /\ s.file \notin {t.file : t \in TestFileIds(p)}
     /\ entries \subseteq CliEntries(p) \/ \A s \in entries : FeedingTests(p, s) # {} /\ s.public
     /\ \A s \in entries : \A r \in Closure({s}, p) : r.file \notin p.testFiles
=============================================================================
