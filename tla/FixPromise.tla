------------------------------ MODULE FixPromise ------------------------------
(***************************************************************************)
(* What the fix stage of the bench (bench/scbench/remediation/stage.py)    *)
(* promises of the workspace it is given: kept items are added one by one, *)
(* in item order; when the stage returns, the PR branch holds exactly the  *)
(* kept items; when it raises, the branch holds the items kept until then, *)
(* or nothing of the stage at all; and if it cannot have that, or is       *)
(* killed, the copy taken before the first item is still there.            *)
(***************************************************************************)
EXTENDS Naturals

CONSTANT Items      \* item numbers

VARIABLES
  kept,       \* the items kept so far
  over,       \* "no", "returned", "raised", "lost"
  result,     \* once over, without a copy: the items the workspace holds
  saved       \* is the copy there?

vars == <<kept, over, result, saved>>

Init == kept = {} /\ over = "no" /\ result = {} /\ saved = TRUE

Keep ==
  /\ over = "no"
  /\ \E n \in Items : (\A k \in kept : k < n) /\ kept' = kept \cup {n}
  /\ UNCHANGED <<over, result, saved>>

Ends(how, holds) ==
  /\ over = "no" /\ over' = how
  /\ result' = holds /\ saved' = FALSE
  /\ UNCHANGED kept

Return == Ends("returned", kept)

Raise == \E holds \in {kept, {}} : Ends("raised", holds) \/ Ends("lost", holds)

Lose ==
  /\ over = "no" /\ over' = "lost"
  /\ UNCHANGED <<kept, result, saved>>

Next == Keep \/ Return \/ Raise \/ Lose

Spec == Init /\ [][Next]_vars
=============================================================================
