---------------------------- MODULE CodingScreen ----------------------------
(* Which commits of a repository make coding tasks: the message and scope      *)
(* filters, the hardness screen of the files a commit edits, the type and      *)
(* stratum of the task.  A source file is what the screen reads of it: the identifiers in it and the files it         *)
(* imports.  A changed line is its shape, its text without `export`, and       *)
(* whether it is exported.                                                     *)
EXTENDS Naturals, Sequences, FiniteSets, SequencesExt, FiniteSetsExt

CONSTANTS NoHop,     \* no test reaches the file
          NoType     \* the rules assign no task type

Strata  == <<"semantic-findable", "import-chain-reachable", "structurally-hidden">>

(* An identifier is distinctive when at most max(4, 2%) of the files have it. *)
IsDistinctive(id, tree) ==
  Cardinality({f \in DOMAIN tree : id \in tree[f].ids})
    <= Max({4, (2 * Cardinality(DOMAIN tree)) \div 100})

DistinctiveIn(ids, tree) == {id \in ids : IsDistinctive(id, tree)}

(* The files reached from roots by at most n imports, and the depth of one.   *)
Reached(roots, imports) ==
  LET r[n \in 0..Cardinality(DOMAIN imports)] ==
        IF n = 0 THEN roots ELSE r[n - 1] \cup UNION {imports[f] : f \in r[n - 1]}
  IN r

ImportHop(roots, imports, f) ==
  LET r  == Reached(roots, imports)
      at == {n \in DOMAIN r : f \in r[n]}
  IN IF at = {} THEN NoHop ELSE Min(at)

(* The first clue that leads from the tests to an edited file, or "dark".     *)
ClassifyEditFile(e, seeds) ==
  CASE e.added              -> "added"
    [] e.imported           -> "test-imported"
    [] e.basename           -> "shares-basename"
    [] e.ids \cap seeds # {} -> "shares-identifier"
    [] OTHER                -> "dark"

Weighted(lines)   == SelectSeq(lines, LAMBDA l : l.shape # "bare")
IsTwin(a, b)      == a.text = b.text /\ a.export # b.export

(* The lines left after each added line took one removed twin of it.          *)
CancelExportToggles(added, removed) ==
  LET Take(acc, l) ==
        LET twins == {i \in DOMAIN acc.pending : IsTwin(acc.pending[i], l)}
        IN IF twins = {} THEN [acc EXCEPT !.rest = Append(@, l)]
           ELSE [acc EXCEPT !.pending = RemoveAt(@, Min(twins))]
      left == FoldLeft(Take, [pending |-> removed, rest |-> <<>>], added)
  IN left.rest \o left.pending

DarkHunkKind(e) ==
  LET added   == Weighted(e.addedLines)
      removed == Weighted(e.removedLines)
      rest    == CancelExportToggles(added, removed)
  IN CASE added \o removed = <<>> -> "comment-only"
       [] \A i \in DOMAIN rest : rest[i].shape = "reexport" -> "export-only"
       [] \A l \in Range(added \o removed) : l.shape \in {"type", "reexport"} -> "type-only"
       [] OTHER -> "logic"

(* What the screen knows of one edited file of a commit.                      *)
ScreenEditFile(e, commit, tree) ==
  LET light  == ClassifyEditFile(e, DistinctiveIn(commit.seeds, tree))
      others == UNION {o.changedIds : o \in commit.edits \ {e}}
  IN [path |-> e.path, dir |-> e.dir, index |-> e.index, light |-> light,
      hop |-> ImportHop(commit.tests, commit.imports, e.path),
      hunkKind |-> IF light = "dark" THEN DarkHunkKind(e) ELSE "none",
      secondOrderDark |-> light = "dark" /\ e.ids \cap DistinctiveIn(others, tree) = {}]

Screened(commit, tree) == {ScreenEditFile(e, commit, tree) : e \in commit.edits}

Dark(files) == {f \in files : f.light = "dark" /\ f.hunkKind # "comment-only"}

HardnessFeatures(files) ==
  [darkFiles     |-> Cardinality(Dark(files)),
   trivialDarkFiles |-> Cardinality({f \in Dark(files) : f.hunkKind = "export-only"}),
   darkReachable |-> Cardinality({f \in Dark(files) : f.hop # NoHop /\ f.hop >= 2}),
   secondOrderDark |-> Cardinality({f \in Dark(files) : f.secondOrderDark}),
   maxHop        |-> LET reached == {f.hop : f \in files} \ {NoHop}
                     IN IF reached = {} THEN NoHop ELSE Max(reached)]

ScreenVerdict(h, minDark) ==
  IF h.darkFiles < minDark THEN "darkRejected"
  ELSE IF h.darkFiles - h.trivialDarkFiles < minDark THEN "trivialRejected"
  ELSE "pass"

PassesScope(commit, maxSourceFiles, maxChangedLoc) ==
  /\ commit.tests # {} /\ commit.edits # {}
  /\ Cardinality(commit.edits) <= maxSourceFiles
  /\ commit.churn <= maxChangedLoc

(* The stage that rejects a commit of the window, or "pass".                  *)
MineOne(commit, tree, opts) ==
  IF commit.mechanical THEN "messageRejected"
  ELSE IF commit.root \/ ~PassesScope(commit, opts.maxSourceFiles, opts.maxChangedLoc) THEN "scopeRejected"
  ELSE ScreenVerdict(HardnessFeatures(Screened(commit, tree)), opts.minDark)

(* -------------------------------------------------------------------------- *)
(* The task type.  Each rule fires with a type, "undecided" or NoType.        *)
IsBarrel(f)    == f.light # "added" /\ (f.index \/ f.hunkKind = "export-only")
Barrels(files) == {f \in files : IsBarrel(f)}

BarrelRule(files) ==
  LET added == \E f \in files : f.light = "added"
      dark  == {f \in Barrels(files) : f.light = "dark"}
  IN IF Barrels(files) = {} THEN NoType
     ELSE IF added THEN (IF Cardinality(Barrels(files)) = 1 THEN "T4" ELSE "undecided")
     ELSE IF Cardinality(dark) >= 2 THEN "T3" ELSE "undecided"

SiblingSweepDirs(files) ==
  LET swept == {f \in files : f.light = "dark" /\ ~IsBarrel(f)}
  IN {d \in {f.dir : f \in swept} : Cardinality({f \in swept : f.dir = d}) >= 3}

DeepLogicRule(files) ==
  IF \E f \in files : /\ f.hunkKind = "logic" /\ f.hop # NoHop /\ f.hop >= 2
                      /\ f.dir \notin SiblingSweepDirs(files)
  THEN "T5" ELSE NoType

AssignTaskType(files) ==
  LET sweep == IF SiblingSweepDirs(files) # {} /\ BarrelRule(files) # "T3" THEN "T6" ELSE NoType
      fired == {BarrelRule(files), sweep, DeepLogicRule(files)} \ {NoType}
  IN IF Cardinality(fired) # 1 \/ fired = {"undecided"} THEN NoType
     ELSE CHOOSE t \in fired : TRUE

(* The plurality of the files' strata, ties to the harder one.                *)
LightStratum(light) ==
  IF light = "dark" THEN 3 ELSE IF light = "test-imported" THEN 2 ELSE 1

DominantStratum(files) ==
  LET votes(s) == Cardinality({f \in files : LightStratum(f.light) = s})
  IN IF files = {} THEN Strata[3]
     ELSE Strata[CHOOSE s \in 1..3 : \A o \in 1..3 :
                   votes(s) > votes(o) \/ (votes(s) = votes(o) /\ s >= o)]
=============================================================================
