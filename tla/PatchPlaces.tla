---------------------------- MODULE PatchPlaces ----------------------------
(* Three readers of a unified diff: where an edit lies in the parent           *)
(* (eval/coding-localize.ts), what it adds and removes (coding-screen.ts), and *)
(* which lines of the work tree it touches (commands/audit-changed.ts).  A     *)
(* diff is a sequence of [t, path], t one of diff, rename, old and new, of     *)
(* [t |-> "hunk", old, oldCount, new, newCount], and of the lines of hunks,    *)
(* [t, like]: like says that its text, with the sign, begins like the header   *)
(* of an old or a new side.                                                    *)
EXTENDS CodingGrade, SequencesExt, FiniteSetsExt

CONSTANTS NoPath,    \* /dev/null
          NoSymbolAt \* a line outside every symbol

(* -------------------------------------------------------------------------- *)
(* Where the edit lies, in lines of the parent.                                *)
Flush(st) == IF st.file = NoPath THEN st.locations ELSE Append(st.locations, [file |-> st.file, lines |-> st.lines])
DiffHeader(st, line) == [locations |-> Flush(st), file |-> line.path, lines |-> {}, oldLine |-> st.oldLine, inHunk |-> FALSE]
FileHeader(st, line) == [st EXCEPT !.file = IF line.t = "new" \/ line.path = NoPath THEN @ ELSE line.path]

(* A mutant: the start of an empty old side is taken as it is.                 *)
StartHunk_AsIs(st, line) == [st EXCEPT !.inHunk = TRUE, !.oldLine = line.old]
StartHunk(st, line) == [st EXCEPT !.inHunk = TRUE, !.oldLine = line.old + (IF line.oldCount = 0 THEN 1 ELSE 0)]

HunkBody(st, line) ==
  CASE line.t = " " -> [st EXCEPT !.oldLine = @ + 1]
    [] line.t = "-" -> [st EXCEPT !.lines = @ \cup {st.oldLine}, !.oldLine = @ + 1]
    [] line.t = "+" -> [st EXCEPT !.lines = @ \cup {st.oldLine - 1}]
LooksLikeHeader(line) == line.t \in {"rename", "old", "new"} \/ (line.t \in {"-", "+"} /\ line.like)
ParseLine(st, line) ==
  IF line.t = "diff" THEN DiffHeader(st, line)
  ELSE IF ~st.inHunk /\ LooksLikeHeader(line) THEN FileHeader(st, line)
  ELSE IF line.t = "hunk" THEN StartHunk(st, line)
  ELSE HunkBody(st, line)
RECURSIVE ParseFrom(_, _)
ParseFrom(st, diff) == IF diff = <<>> THEN Flush(st) ELSE ParseFrom(ParseLine(st, Head(diff)), Tail(diff))
ParseDiffLocations(diff) == ParseFrom([locations |-> <<>>, file |-> NoPath, lines |-> {}, oldLine |-> 0, inHunk |-> FALSE], diff)

(* spansFor gives the symbol of each line of a file.                           *)
SymbolKeys(at, spansFor) ==
  IF at.lines = {} THEN {<<at.file, NoSymbolAt>>}
  ELSE {<<at.file, IF n \in DOMAIN spansFor[at.file] THEN spansFor[at.file][n] ELSE NoSymbolAt>> : n \in at.lines}
KeysOf(locations, spansFor) ==
  [file   |-> {at.file : at \in Range(locations)},
   symbol |-> UNION {SymbolKeys(at, spansFor) : at \in Range(locations)},
   line   |-> UNION {{at.file} \X at.lines : at \in Range(locations)}]
ScoreLocalization(goldDiff, agentDiff, spansFor) ==
  LET gold  == KeysOf(ParseDiffLocations(goldDiff), spansFor)
      agent == KeysOf(ParseDiffLocations(agentDiff), spansFor)
  IN [by \in {"file", "symbol", "line"} |-> GradeSet(gold[by], agent[by])]

(* -------------------------------------------------------------------------- *)
(* What the edit adds and removes, by the new name of each file.               *)
Told(st, line) ==
  CASE line.t = "diff" -> [st EXCEPT !.current = NoPath, !.inHunk = FALSE]
    [] ~st.inHunk /\ line.t = "new" -> [st EXCEPT !.current = line.path]
    [] line.t = "hunk" -> [st EXCEPT !.inHunk = TRUE]
    [] OTHER -> IF st.inHunk /\ st.current # NoPath /\ line.t \in {"+", "-"}
                THEN [st EXCEPT !.out = Append(@, <<st.current, line.t>>)] ELSE st
RECURSIVE TellFrom(_, _)
TellFrom(st, diff) == IF diff = <<>> THEN st.out ELSE TellFrom(Told(st, Head(diff)), Tail(diff))
ParseDiffHunks(diff) ==   \* the sides of the lines of each file, in order
  LET told == TellFrom([out |-> <<>>, current |-> NoPath, inHunk |-> FALSE], diff)
  IN [p \in {line.path : line \in {l \in Range(diff) : l.t = "new"}} \ {NoPath} |->
        [side \in {"+", "-"} |-> Cardinality({i \in DOMAIN told : told[i] = <<p, side>>})]]

(* -------------------------------------------------------------------------- *)
(* Which lines of the new side it touches.  An added line that begins like a   *)
(* header ends the file for this reader: what follows in it is lost.           *)
Touched(st, line) ==
  CASE line.t = "new" -> [st EXCEPT !.current = line.path]
    [] line.t = "+" -> IF line.like THEN [st EXCEPT !.current = NoPath] ELSE st
    [] line.t = "hunk" -> IF st.current = NoPath THEN st
                          ELSE [st EXCEPT !.out = @ \cup ({st.current} \X (line.new .. Max({line.new, line.new + line.newCount - 1})))]
    [] OTHER -> st
RECURSIVE TouchFrom(_, _)
TouchFrom(st, diff) == IF diff = <<>> THEN st.out ELSE TouchFrom(Touched(st, Head(diff)), Tail(diff))
ParseChangedLines(diff) == TouchFrom([out |-> {}, current |-> NoPath], diff)

(* -------------------------------------------------------------------------- *)
(* The diff of an edit of some files, [old, new, script]: a script has a line  *)
(* of a hunk for each line of either side.  A hunk shows the lines around each *)
(* change that the diff was asked for, here any of them.                       *)
Sides(script, upTo, signs) == Cardinality({i \in 1..upTo : script[i].t \in signs})
Change(script) == {i \in DOMAIN script : script[i].t # " "}
Header(script, first, last) ==
  LET olds == Sides(script, last, {" ", "-"}) - Sides(script, first - 1, {" ", "-"})
      news == Sides(script, last, {" ", "+"}) - Sides(script, first - 1, {" ", "+"})
      From(signs, count) == Sides(script, first - 1, signs) + (IF count = 0 THEN 0 ELSE 1)
  IN [t |-> "hunk", old |-> From({" ", "-"}, olds), oldCount |-> olds, new |-> From({" ", "+"}, news), newCount |-> news]
RECURSIVE Hunks(_, _)
Hunks(script, shown) ==
  IF shown = {} THEN <<>>
  ELSE LET first == Min(shown)
           last  == Max({i \in shown : first .. i \subseteq shown})
       IN <<Header(script, first, last)>> \o SubSeq(script, first, last) \o Hunks(script, {i \in shown : i > last})
DiffOfFile(f, shown) ==
  <<[t |-> "diff", path |-> IF f.old = NoPath THEN f.new ELSE f.old]>>
  \o (IF NoPath \notin {f.old, f.new} /\ f.old # f.new THEN <<[t |-> "rename", path |-> f.old]>> ELSE <<>>)
  \o (IF f.script = <<>> THEN <<>> ELSE <<[t |-> "old", path |-> f.old], [t |-> "new", path |-> f.new]>>)
  \o Hunks(f.script, shown)
DiffOf(files, shown) == FlattenSeq([i \in DOMAIN files |-> DiffOfFile(files[i], Change(files[i].script) \cup (shown \cap DOMAIN files[i].script))])

(* The parent's lines an edit lies at: those it removes, and the one before    *)
(* anything it adds; and the new lines it touches: those it adds, and the one  *)
(* before what it only removes.                                                *)
OldPlaces(script) == {Sides(script, i, {" ", "-"}) : i \in Change(script)}
Only(script, i) ==   \* the run of changes around i adds nothing
  \A j \in Change(script) : (Min({i, j}) .. Max({i, j})) \subseteq Change(script) => script[j].t = "-"
NewPlaces(script) == {Sides(script, i, {" ", "+"}) : i \in {j \in Change(script) : script[j].t = "+" \/ Only(script, j)}}

(* However much context a diff shows, the edit lies where it lies, so the same *)
(* edit in another diff gets full marks at every level, and the added and      *)
(* removed lines are told of the file they are in, even of lines that look     *)
(* like headers; the diff without context touches exactly the lines that       *)
(* change, unless an added line looks like a header.                           *)
ReadersFollowTheEdit(files, some, more, spansFor) ==
  LET places == ParseDiffLocations(DiffOf(files, some))
      score  == ScoreLocalization(DiffOf(files, some), DiffOf(files, more), spansFor)
      hunks  == ParseDiffHunks(DiffOf(files, some))
      edited == {i \in DOMAIN files : files[i].script # <<>>}
      Plain(script) == \A i \in DOMAIN script : script[i].t = "+" => ~script[i].like
  IN /\ places = [i \in DOMAIN files |-> [file |-> IF files[i].old = NoPath THEN files[i].new ELSE files[i].old,
                                          lines |-> OldPlaces(files[i].script)]]
     /\ \A by \in DOMAIN score : score[by].truePositives = score[by].expected /\ score[by].expected = score[by].predicted
     /\ \A i \in edited : files[i].new # NoPath =>
          \A side \in {"+", "-"} : hunks[files[i].new][side] = Sides(files[i].script, Len(files[i].script), {side})
     /\ some = {} /\ (\A i \in edited : Plain(files[i].script)) =>
          ParseChangedLines(DiffOf(files, some)) = UNION {{files[i].new} \X NewPlaces(files[i].script) : i \in {j \in edited : files[j].new # NoPath}}
=============================================================================
