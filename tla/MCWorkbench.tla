---------------------------- MODULE MCWorkbench ----------------------------
(* The instances of the programs a maintainer or an editor starts on their     *)
(* own, explored side by side: from the start one of them runs and the others  *)
(* rest.                                                                       *)
EXTENDS CodingEval, CodingLedger, SessionHook, DiagnosticRun, Ingest, HookBlocks, TLC

VARIABLE focus    \* the program explored

(* -------------------------------------------------------------------------- *)
(* The coding evaluation.                                                      *)
Line(shape, text, export) == [shape |-> shape, text |-> text, export |-> export]
Edit(path, added, imported, ids, removed, lines) ==
  [path |-> path, dir |-> 1, index |-> FALSE, added |-> added, imported |-> imported,
   basename |-> FALSE, ids |-> ids, removedLines |-> removed, addedLines |-> lines,
   changedIds |-> ids, diffImports |-> {}, diffNames |-> {}, diffIds |-> {}]
Code == Line("code", 1, "no")
MCTree == [f \in {"f1", "f2", "f3"} |-> [ids |-> IF f = "f1" THEN {"x"} ELSE {}]]
MCImports == [f \in {"t", "f1", "f2", "f3"} |->
                IF f = "t" THEN {"f1"} ELSE IF f = "f1" THEN {"f2"} ELSE {}]
Commit(id, parent, lock, supported, mechanical, edits, churn) ==
  [id |-> id, parent |-> parent, lock |-> lock, supported |-> supported,
   mechanical |-> mechanical, root |-> FALSE, tests |-> {"t"}, edits |-> edits, churn |-> churn,
   seeds |-> {"x"}, imports |-> MCImports]
Lit    == Edit("f1", FALSE, TRUE, {"x"}, <<>>, <<Code>>)
Deep   == Edit("f2", FALSE, FALSE, {}, <<Code>>, <<Line("code", 2, "no")>>)
Toggle == Edit("f3", FALSE, FALSE, {}, <<Code>>, <<Line("code", 1, "export")>>)

C1 == Commit("c1", "p1", 1, TRUE, FALSE, {Lit, Deep}, 1)
C2 == Commit("c2", "p2", 2, TRUE, FALSE, {Deep}, 1)
C3 == Commit("c3", "p1", 1, TRUE, FALSE, {Deep, Toggle}, 2)
C4 == Commit("c4", "p2", 3, FALSE, FALSE, {Deep}, 1)
Dropped == <<Commit("d1", "p1", 1, TRUE, TRUE, {Deep}, 1), Commit("d2", "p1", 1, TRUE, FALSE, {Deep}, 9),
             Commit("d3", "p1", 1, TRUE, FALSE, {Lit}, 1), Commit("d4", "p1", 1, TRUE, FALSE, {Toggle}, 1)>>
Mixed     == Dropped \o <<C1, C2>>
MCWindows == {Mixed, <<C3, C4, C1>>}
MCOpts == [maxSourceFiles |-> 2, maxChangedLoc |-> 5, minDark |-> 1]
MCArms == <<"A0", "AI">>
EvalRests == EvalInit /\ window = Mixed

(* -------------------------------------------------------------------------- *)
(* A crashed run's report, those without a test, with it once or twice, and    *)
(* with another one.                                                           *)
Of(t, s) == [id |-> t, status |-> s]
MCReports ==
  {<<>>, <<Of("t2", "skip")>>, <<Of("t1", "fail"), Of("t1", "fail")>>}
  \cup {<<Of("t1", s)>> : s \in {"pass", "fail"}}
  \cup {<<Of("t2", "pass"), Of("t1", s)>> : s \in {"pass", "fail"}}

(* -------------------------------------------------------------------------- *)
(* The session hook.                                                           *)
Text(n) == [chars |-> n]
Taste(key) == [key |-> key, chars |-> 20]
Verdict(key, verdict, testGap) ==
  [key |-> key, verdict |-> verdict, testGap |-> testGap, chars |-> 30]
NotesOf(taste, verdicts) ==
  [taste |-> taste, verdicts |-> verdicts,
   ratchetItems |-> <<Text(25)>>, changedSymbols |-> <<Text(10), Text(15), Text(5)>>]
NothingNoted == [taste |-> <<>>, verdicts |-> <<>>, ratchetItems |-> <<>>, changedSymbols |-> <<>>]
MCNotes == {NothingNoted} \cup
  {NotesOf(<<Taste("k1"), Taste(NoKey)>>, <<Verdict("k1", v, g), Verdict("k2", "confirmed", ~g)>>) :
     v \in {"confirmed", "refuted"}, g \in BOOLEAN}
MCLimits == [maxChars : {NoCap, 4, 40, 60, 80, 140, 180, 240}, maxOpenItems : {NoCap, 1}]
MCAnswers == {[preamble |-> 60, areas |-> a, topFiles |-> f] :
                a \in {<<>>, <<Text(20), Text(30), Text(1)>>}, f \in {<<>>, <<Text(15), Text(90)>>}}
MCSessions ==
  {s \in [notes : MCNotes, limits : MCLimits, answers : MCAnswers,
          inGit : BOOLEAN, head : BOOLEAN, db : BOOLEAN, found : BOOLEAN] :
     s.head => s.inGit}
HookRests ==
  /\ session = CHOOSE s \in MCSessions : TRUE
  /\ stage = "exited" /\ cli = [q \in Queries |-> "idle"]
  /\ timer = FALSE /\ carried = NoNotes /\ out = <<>>

(* -------------------------------------------------------------------------- *)
(* The diagnostic.                                                             *)
Options(limit, skipCheck, skipJudge, dryRun) ==
  [limit |-> limit, skipCheck |-> skipCheck, skipJudge |-> skipJudge, dryRun |-> dryRun]
DryRun == Options(2, FALSE, FALSE, TRUE)
MCConfigs == {DryRun, Options(1, FALSE, FALSE, FALSE), Options(0, TRUE, FALSE, FALSE),
              Options(NotANumber, FALSE, TRUE, FALSE)}
DiagRests == DiagInit /\ config = DryRun

(* -------------------------------------------------------------------------- *)
(* The ingest.                                                                 *)
Touch(path, content) == [path |-> path, language |-> path # "notes", content |-> content]
ShaOf(sha, touched) == [sha |-> sha, files |-> touched]
MCHistories ==
  {<<ShaOf("s3", <<Touch("a", x), Touch("b", "new")>>),
     ShaOf("s2", <<Touch("notes", "n"), Touch("a", y)>>),
     ShaOf("s1", <<Touch("b", z), Touch("a", "old")>>)>> :
     x \in {Gone, EmptyText, "newer"}, y \in {Gone, "new"}, z \in {Gone, EmptyText, "old"}}
IngestRests ==
  IngestInit /\ history = (CHOOSE h \in MCHistories : TRUE) /\ published = 1 /\ ~cached

(* -------------------------------------------------------------------------- *)
(* The hook files.                                                             *)
BlocksRest == BlocksInit /\ own = [h \in Hooks |-> NoHook]

StreamRests == StreamInit /\ armModel = NoModel

(* -------------------------------------------------------------------------- *)
MCInit ==
  \/ /\ focus = "eval"
     /\ HookRests /\ DiagRests /\ IngestRests /\ BlocksRest /\ StreamRests /\ EvalInit
  \/ /\ focus = "hook"
     /\ EvalRests /\ DiagRests /\ IngestRests /\ BlocksRest /\ StreamRests /\ HookInit
  \/ /\ focus = "diagnostic"
     /\ EvalRests /\ HookRests /\ IngestRests /\ BlocksRest /\ StreamRests /\ DiagInit
  \/ /\ focus = "ingest"
     /\ EvalRests /\ HookRests /\ DiagRests /\ BlocksRest /\ StreamRests /\ IngestInit
  \/ /\ focus = "blocks"
     /\ EvalRests /\ HookRests /\ DiagRests /\ IngestRests /\ StreamRests /\ BlocksInit
  \/ /\ focus = "stream"
     /\ EvalRests /\ HookRests /\ DiagRests /\ IngestRests /\ BlocksRest /\ StreamInit

MCNext ==
  /\ UNCHANGED focus
  /\ \/ /\ focus = "eval" /\ EvalNext
        /\ UNCHANGED <<hookVars, diagVars, ingestVars, blockVars, streamVars>>
     \/ /\ focus = "hook" /\ HookNext
        /\ UNCHANGED <<evalVars, diagVars, ingestVars, blockVars, streamVars>>
     \/ /\ focus = "diagnostic" /\ DiagNext
        /\ UNCHANGED <<evalVars, hookVars, ingestVars, blockVars, streamVars>>
     \/ /\ focus = "ingest" /\ IngestNext
        /\ UNCHANGED <<evalVars, hookVars, diagVars, blockVars, streamVars>>
     \/ /\ focus = "blocks" /\ BlocksNext
        /\ UNCHANGED <<evalVars, hookVars, diagVars, ingestVars, streamVars>>
     \/ /\ focus = "stream" /\ StreamNext
        /\ UNCHANGED <<evalVars, hookVars, diagVars, ingestVars, blockVars>>

MCVars == <<focus, evalVars, hookVars, diagVars, ingestVars, blockVars, streamVars>>
MCSpec == MCInit /\ [][MCNext]_MCVars /\ HookFairness
=============================================================================
