----------------------------- MODULE VerdictFiles -----------------------------
(***************************************************************************)
(* The committed verdict files: the head verdicts.jsonl and one fragment   *)
(* verdicts.d/<run id>.jsonl per triage run.  How every reader merges them *)
(* (packages/cli/src/commands/triage-persist.ts, and the SessionStart      *)
(* hook's carry-format.mjs), and how the merging job folds the fragments   *)
(* into the head (bench/scbench/synthesis/fold.py, fold_job.py).           *)
(*                                                                         *)
(* A file is what its readers get from it: whether it is there, at most    *)
(* one row per finding key, and whether it holds a line that is no row.    *)
(* Both writers rewrite a file in place: it is emptied, then written.      *)
(***************************************************************************)
EXTENDS Integers, FiniteSets

CONSTANTS
  Keys,       \* finding keys
  RunIds,     \* run ids, numbered in the order their fragments are read
  NoRow       \* no row for a key

\* The files of a directory: finitely many, read in order.
ASSUME RunIdsAreOrdered == RunIds \subseteq Nat /\ IsFiniteSet(RunIds)

NoRows == [k \in Keys |-> NoRow]
NoFile == [there |-> FALSE, rows |-> NoRows, bad |-> FALSE]
Written(rows) == [there |-> TRUE, rows |-> rows, bad |-> FALSE]

Holds(rows) == {k \in Keys : rows[k] # NoRow}
Over(rows, newer) == [k \in Keys |-> IF newer[k] # NoRow THEN newer[k] ELSE rows[k]]

\* What a death inside a write can leave: some of the rows, none of them when it
\* comes right after the file was emptied, and half a line of the next one
\* unless it comes at the end of a line.
CutFiles(rows) ==
  {[there |-> TRUE, rows |-> [k \in Keys |-> IF k \in kept THEN rows[k] ELSE NoRow], bad |-> bad] :
     kept \in SUBSET Holds(rows) \ {Holds(rows)}, bad \in BOOLEAN}

\* The head file, then the given fragments in id order; a later row replaces
\* an earlier one with the same key.
Merged(head, frags, ids) ==
  [k \in Keys |->
     LET holders == {r \in ids : frags[r].rows[k] # NoRow}
     IN  IF holders = {} THEN head.rows[k]
         ELSE frags[CHOOSE r \in holders : \A q \in holders : q <= r].rows[k]]

\* What triage and the session hook read: the good lines of every fragment.
Reading(head, frags) == Merged(head, frags, RunIds)

\* The fold takes the fragments that are well formed to the last line, an empty
\* one too.
Absorbed(frags) == {r \in RunIds : frags[r].there /\ ~ frags[r].bad}

\* Mutant: the head's row wins over the fragments'.
FoldedHead_HeadFirst(head, frags, present) ==
  [k \in Keys |-> IF k \notin present THEN NoRow
                  ELSE IF head.rows[k] # NoRow THEN head.rows[k]
                  ELSE Merged(head, frags, Absorbed(frags))[k]]

\* The new head's rows: the latest row per key, minus the keys whose anchor is gone.
FoldedHead(head, frags, present) ==
  [k \in Keys |-> IF k \in present THEN Merged(head, frags, Absorbed(frags))[k] ELSE NoRow]

Emptied(frags, ids) == [r \in RunIds |-> IF r \in ids THEN NoFile ELSE frags[r]]
=============================================================================
