----------------------------- MODULE RevertSearch -----------------------------
(***************************************************************************)
(* The subsets of a wave's spliced lanes the integration gate of the       *)
(* cleanup runner tries, in order (bench/scbench/runner/integrate.py):     *)
(* all lanes; each lane left out alone, last spliced first; then prefixes  *)
(* of the splice order, longest first.  Integrate checks the search as a   *)
(* process and CleanupRun uses what it can return.                         *)
(***************************************************************************)
EXTENDS Naturals, Sequences

Lanes(s) == {s[i] : i \in DOMAIN s}

\* order without the lane at position i
Without(order, i) ==
  [j \in 1 .. Len(order) - 1 |-> IF j < i THEN order[j] ELSE order[j + 1]]

\* Mutant: the first spliced lane is never left out.
SingleReverts_NotFirst(order) ==
  [i \in 1 .. (IF Len(order) > 1 THEN Len(order) - 1 ELSE 1) |-> Without(order, Len(order) + 1 - i)]

\* Leaving one lane out, last first.
SingleReverts(order) ==
  [i \in 1 .. Len(order) |-> Without(order, Len(order) + 1 - i)]

\* Mutant: peeling starts one lane too low.
Prefixes_TooShort(order) ==
  [i \in 1 .. (IF Len(order) > 3 THEN Len(order) - 3 ELSE 0) |->
     SubSeq(order, 1, Len(order) - 2 - i)]

\* Peeling: sizes Len - 2 down to 1 (Len - 1 is the first single revert).
Prefixes(order) ==
  [i \in 1 .. (IF Len(order) > 2 THEN Len(order) - 2 ELSE 0) |->
     SubSeq(order, 1, Len(order) - 1 - i)]

Candidates(order) ==
  IF order = <<>> THEN <<>>
  ELSE <<order>> \o SingleReverts(order) \o Prefixes(order)

\* What the search can keep, whatever the gate answers.
Outcomes(order) == {Lanes(c) : c \in Lanes(Candidates(order))} \cup {{}}
=============================================================================
