------------------------------ MODULE Integrate ------------------------------
(***************************************************************************)
(* The integration gate of the cleanup runner (bench/scbench/runner/       *)
(* integrate.py): the lanes of one wave that the splice could place are    *)
(* checked together; on a failure the candidates of RevertSearch are       *)
(* checked one after another.  The first that passes becomes the tree of   *)
(* the wave; when none passes the wave keeps its base.                     *)
(*                                                                         *)
(* The gate (visible tests and diffgate of the spliced tree) is external:  *)
(* it fails a tree exactly when the tree holds one of the combinations in  *)
(* `blame`, so a lane can be bad alone or only together with another.      *)
(***************************************************************************)
EXTENDS RevertSearch, FiniteSets

CONSTANTS
  MaxLanes,      \* the most lanes one wave splices
  MaxBlame       \* bound: the most failing combinations at a time

ASSUME LaneBounds == MaxLanes \in Nat \ {0} /\ MaxBlame \in Nat

VARIABLES
  order,    \* the lanes the first splice placed, in splice order
  blame,    \* the combinations of lanes the gate fails
  tried,    \* the candidates checked so far
  settled,  \* has the search returned?
  kept      \* once settled: the lanes of the tree the wave ends with

gateVars == <<order, blame, tried, settled, kept>>

\* Two lanes break a tree together, or one breaks it alone.
Combinations(n) == {c \in SUBSET (1 .. n) : Cardinality(c) \in {1, 2}}

Passes(lanes) == \A c \in blame : ~ (c \subseteq lanes)

GateInit ==
  /\ \E n \in 0 .. MaxLanes :
       /\ order = [i \in 1 .. n |-> i]
       /\ blame \in {b \in SUBSET Combinations(n) : Cardinality(b) <= MaxBlame}
  /\ tried = <<>>
  /\ settled = FALSE
  /\ kept = <<>>

\* One splice-and-check of the next candidate.
CheckCandidate ==
  /\ ~ settled
  /\ Len(tried) < Len(Candidates(order))
  /\ LET candidate == Candidates(order)[Len(tried) + 1]
     IN  /\ tried' = Append(tried, candidate)
         /\ settled' = Passes(Lanes(candidate))
         /\ kept' = IF settled' THEN candidate ELSE kept
  /\ UNCHANGED <<order, blame>>

\* Mutant: when nothing passes the last tree tried is kept.
GiveUp_KeepsLast ==
  /\ ~ settled
  /\ Len(tried) = Len(Candidates(order))
  /\ settled' = TRUE
  /\ kept' = IF tried = <<>> THEN kept ELSE tried[Len(tried)]
  /\ UNCHANGED <<order, blame, tried>>

\* Nothing passed (or nothing was spliced): the wave keeps its base.
GiveUp ==
  /\ ~ settled
  /\ Len(tried) = Len(Candidates(order))
  /\ settled' = TRUE
  /\ UNCHANGED <<order, blame, tried, kept>>

GateNext == CheckCandidate \/ GiveUp

GateSpec == GateInit /\ [][GateNext]_gateVars

-----------------------------------------------------------------------------
(* Properties *)

\* The tree a wave ends with is one the gate passed as a whole, in splice
\* order, or the wave's base (_revert returns the first passing check).
KeptTreePassed ==
  settled =>
    /\ Passes(Lanes(kept))
    /\ \A i, j \in DOMAIN kept : i < j => kept[i] < kept[j]

\* "One bad lane costs only itself": when leaving out some single lane makes
\* the tree pass, at most one lane is reverted, and none when all pass.
OneBadLaneCostsItself ==
  settled =>
    /\ Passes(Lanes(order)) => kept = order
    /\ (\E l \in Lanes(order) : Passes(Lanes(order) \ {l}))
         => Len(kept) >= Len(order) - 1

\* With several bad lanes the search keeps the longest passing prefix: the
\* wave loses no lane spliced before the first one that breaks the tree.
PeelStopsAtFirstBreak ==
  settled =>
    \A n \in 1 .. Len(order) :
      Passes(Lanes(SubSeq(order, 1, n))) => n <= Len(kept)

\* The gate takes no more lanes down than it has to, whichever lanes are bad,
\* alone or with another, and however many were spliced.
LittleIsReverted == OneBadLaneCostsItself /\ PeelStopsAtFirstBreak
=============================================================================
