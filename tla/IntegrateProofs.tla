--------------------------- MODULE IntegrateProofs ---------------------------
(* What the integration gate of the cleanup runner keeps, for any number of    *)
(* lanes and any failing lanes and pairs of lanes.  The argument: the          *)
(* candidates are tried in order and the first that passes is kept, so         *)
(* everything before it failed; and the order is by the number of lanes that   *)
(* are left out.                                                               *)
EXTENDS Integrate, FiniteSetTheorems, TLAPS

OneTo(n) == [i \in 1 .. n |-> i]

Peels(n) == IF n > 2 THEN n - 2 ELSE 0

LEMMA FunctionIsSeq ==
  ASSUME NEW T, NEW m \in Nat, NEW f \in [1 .. m -> T]
  PROVE  f \in Seq(T) /\ Len(f) = m
OBVIOUS

LEMMA Concat ==
  ASSUME NEW a \in Seq(Seq(Nat)), NEW b \in Seq(Seq(Nat))
  PROVE  /\ a \o b \in Seq(Seq(Nat))
         /\ Len(a \o b) = Len(a) + Len(b)
         /\ \A i \in 1 .. Len(a) : (a \o b)[i] = a[i]
         /\ \A i \in 1 .. Len(b) : (a \o b)[Len(a) + i] = b[i]
OBVIOUS

LEMMA SinglesType ==
  ASSUME NEW n \in Nat \ {0}
  PROVE  /\ SingleReverts(OneTo(n)) \in Seq(Seq(Nat))
         /\ Len(SingleReverts(OneTo(n))) = n
         /\ \A i \in 1 .. n : /\ SingleReverts(OneTo(n))[i] = Without(OneTo(n), n + 1 - i)
                              /\ Without(OneTo(n), i) \in Seq(Nat)
                              /\ Len(Without(OneTo(n), i)) = n - 1
<1> DEFINE o == OneTo(n)
<1>1. o \in Seq(Nat) /\ Len(o) = n
  BY DEF OneTo
<1>2. \A i \in 1 .. n : Without(o, i) \in [1 .. n - 1 -> Nat]
  BY <1>1 DEF Without, OneTo
<1>3. \A i \in 1 .. n : Without(o, i) \in Seq(Nat) /\ Len(Without(o, i)) = n - 1
  <2> TAKE i \in 1 .. n
  <2>1. n - 1 \in Nat /\ Without(o, i) \in [1 .. n - 1 -> Nat]
    BY <1>2
  <2> HIDE DEF o
  <2> QED
    BY <2>1, FunctionIsSeq
<1>4. SingleReverts(o) = [i \in 1 .. n |-> Without(o, n + 1 - i)]
  BY <1>1 DEF SingleReverts
<1>5. \A i \in 1 .. n : n + 1 - i \in 1 .. n
  OBVIOUS
<1> HIDE DEF o
<1>6. SingleReverts(o) \in Seq(Seq(Nat)) /\ Len(SingleReverts(o)) = n
  BY <1>3, <1>4, <1>5
<1> QED
  BY <1>3, <1>4, <1>6 DEF o

LEMMA PrefixesType ==
  ASSUME NEW n \in Nat \ {0}
  PROVE  /\ Prefixes(OneTo(n)) \in Seq(Seq(Nat))
         /\ Len(Prefixes(OneTo(n))) = Peels(n)
         /\ \A i \in 1 .. Peels(n) :
              /\ Prefixes(OneTo(n))[i] = SubSeq(OneTo(n), 1, n - 1 - i)
              /\ Len(Prefixes(OneTo(n))[i]) = n - 1 - i
<1> DEFINE o == OneTo(n)
<1>1. o \in Seq(Nat) /\ Len(o) = n
  BY DEF OneTo
<1>2. Prefixes(o) = [i \in 1 .. Peels(n) |-> SubSeq(o, 1, n - 1 - i)]
  BY <1>1 DEF Prefixes, Peels
<1> HIDE DEF o
<1>3. \A i \in 1 .. Peels(n) : /\ SubSeq(o, 1, n - 1 - i) \in Seq(Nat)
                               /\ Len(SubSeq(o, 1, n - 1 - i)) = n - 1 - i
  <2> TAKE i \in 1 .. Peels(n)
  <2>1. n - 1 - i \in 1 .. n
    BY DEF Peels
  <2> QED
    BY <1>1, <2>1
<1>4. Peels(n) \in Nat
  BY DEF Peels
<1>5. Prefixes(o) \in Seq(Seq(Nat)) /\ Len(Prefixes(o)) = Peels(n)
  <2>1. Prefixes(o) \in [1 .. Peels(n) -> Seq(Nat)]
    BY <1>2, <1>3
  <2> QED
    BY <2>1, <1>4, FunctionIsSeq
<1> QED
  BY <1>2, <1>3, <1>5 DEF o

(* The candidates: all lanes, then each one left out, then shorter prefixes.   *)
LEMMA CandidateAt ==
  ASSUME NEW n \in Nat \ {0}
  PROVE  /\ Candidates(OneTo(n)) \in Seq(Seq(Nat))
         /\ Len(Candidates(OneTo(n))) = 1 + n + Peels(n)
         /\ Candidates(OneTo(n))[1] = OneTo(n)
         /\ \A i \in 1 .. n : Candidates(OneTo(n))[1 + i] = Without(OneTo(n), n + 1 - i)
         /\ \A i \in 1 .. Peels(n) :
              Candidates(OneTo(n))[1 + n + i] = SubSeq(OneTo(n), 1, n - 1 - i)
<1> DEFINE o == OneTo(n)
           S == SingleReverts(o)
           P == Prefixes(o)
<1>1. o \in Seq(Nat) /\ o # <<>>
  BY DEF OneTo
<1>2. S \in Seq(Seq(Nat)) /\ Len(S) = n
  BY SinglesType
<1>3. P \in Seq(Seq(Nat)) /\ Len(P) = Peels(n)
  BY PrefixesType
<1>4. Candidates(o) = <<o>> \o S \o P
  BY <1>1 DEF Candidates
<1>5. Peels(n) \in Nat
  BY DEF Peels
<1>6. \A i \in 1 .. n : S[i] = Without(o, n + 1 - i)
  BY SinglesType
<1>7. \A i \in 1 .. Peels(n) : P[i] = SubSeq(o, 1, n - 1 - i)
  BY PrefixesType
<1> HIDE DEF o, S, P
<1>8. <<o>> \o S \in Seq(Seq(Nat)) /\ Len(<<o>> \o S) = 1 + n
  BY <1>1, <1>2
<1>9. (<<o>> \o S)[1] = o /\ \A i \in 1 .. n : (<<o>> \o S)[1 + i] = S[i]
  BY <1>1, <1>2
<1> DEFINE A == <<o>> \o S
<1> HIDE DEF A
<1>10. A \in Seq(Seq(Nat)) /\ Len(A) = 1 + n
  BY <1>8 DEF A
<1>11. /\ A \o P \in Seq(Seq(Nat)) /\ Len(A \o P) = 1 + n + Peels(n)
       /\ \A i \in 1 .. 1 + n : (A \o P)[i] = A[i]
       /\ \A i \in 1 .. Peels(n) : (A \o P)[1 + n + i] = P[i]
  <2>1. /\ A \o P \in Seq(Seq(Nat))
        /\ Len(A \o P) = Len(A) + Len(P)
        /\ \A i \in 1 .. Len(A) : (A \o P)[i] = A[i]
        /\ \A i \in 1 .. Len(P) : (A \o P)[Len(A) + i] = P[i]
    BY <1>3, <1>10, Concat, Zenon
  <2> QED
    BY <2>1, <1>3, <1>10
<1>12. A[1] = o /\ \A i \in 1 .. n : A[1 + i] = S[i]
  BY <1>9 DEF A
<1>13. Candidates(o) = A \o P
  BY <1>4 DEF A
<1>14. \A i \in 1 .. n : Candidates(o)[1 + i] = Without(o, n + 1 - i)
  <2> TAKE i \in 1 .. n
  <2>1. 1 + i \in 1 .. 1 + n
    OBVIOUS
  <2>2. (A \o P)[1 + i] = A[1 + i]
    BY <2>1, <1>11
  <2> QED
    BY <2>2, <1>6, <1>12, <1>13
<1>15. \A i \in 1 .. Peels(n) : Candidates(o)[1 + n + i] = SubSeq(o, 1, n - 1 - i)
  BY <1>7, <1>11, <1>13
<1>16. (A \o P)[1] = A[1]
  <2>1. 1 \in 1 .. 1 + n
    OBVIOUS
  <2> QED
    BY <2>1, <1>11
<1>17. Candidates(o) \in Seq(Seq(Nat)) /\ Len(Candidates(o)) = 1 + n + Peels(n)
  BY <1>11, <1>13
<1>18. Candidates(o)[1] = o
  BY <1>12, <1>13, <1>16
<1> QED
  BY <1>14, <1>15, <1>17, <1>18 DEF o

-----------------------------------------------------------------------------
(* The lanes a candidate holds, and how many.                                  *)
LEMMA LanesOfAll ==
  ASSUME NEW n \in Nat
  PROVE  Lanes(OneTo(n)) = 1 .. n /\ Len(OneTo(n)) = n
<1>1. OneTo(n) \in [1 .. n -> Nat] /\ Len(OneTo(n)) = n
  BY DEF OneTo
<1> QED
  BY <1>1 DEF OneTo, Lanes

LEMMA LanesWithout ==
  ASSUME NEW n \in Nat \ {0}, NEW l \in 1 .. n
  PROVE  /\ Lanes(Without(OneTo(n), l)) = (1 .. n) \ {l}
         /\ Len(Without(OneTo(n), l)) = n - 1
         /\ \A i, j \in DOMAIN Without(OneTo(n), l) :
              i < j => Without(OneTo(n), l)[i] < Without(OneTo(n), l)[j]
<1> DEFINE w == Without(OneTo(n), l)
<1>1. Len(w) = n - 1
  BY SinglesType
<1>2. w = [j \in 1 .. n - 1 |-> IF j < l THEN j ELSE j + 1]
  BY DEF Without, OneTo
<1>3. DOMAIN w = 1 .. n - 1
  BY <1>2
<1>4. \A x \in (1 .. n) \ {l} : \E j \in DOMAIN w : w[j] = x
  <2> TAKE x \in (1 .. n) \ {l}
  <2>1. CASE x < l
    <3>1. x \in DOMAIN w /\ w[x] = x
      BY <1>2, <2>1
    <3> QED
      BY <3>1
  <2>2. CASE x > l
    <3>1. x - 1 \in DOMAIN w /\ w[x - 1] = x
      BY <1>2, <2>2
    <3> QED
      BY <3>1
  <2> QED
    BY <2>1, <2>2
<1>5. \A j \in DOMAIN w : w[j] \in (1 .. n) \ {l}
  BY <1>2
<1>6. \A i, j \in DOMAIN w : i < j => w[i] < w[j]
  BY <1>2
<1> HIDE DEF w
<1>7. Lanes(w) = (1 .. n) \ {l}
  BY <1>4, <1>5 DEF Lanes
<1> QED
  BY <1>1, <1>6, <1>7 DEF w

LEMMA LanesPrefix ==
  ASSUME NEW n \in Nat, NEW m \in 0 .. n
  PROVE  SubSeq(OneTo(n), 1, m) = OneTo(m)
BY DEF OneTo

-----------------------------------------------------------------------------
(* What the search knows: every candidate it has passed over failed, and what  *)
(* it keeps is the first that passed, or nothing.                              *)
Fails(i) == ~ Passes(Lanes(Candidates(order)[i]))

Wave ==
  /\ \E n \in Nat : order = OneTo(n)
  /\ \A c \in blame : c # {}

Progress ==
  /\ Len(tried) \in Nat
  /\ tried \in Seq(Seq(Nat))
  /\ settled \in BOOLEAN

Searched ==
  ~ settled => /\ kept = <<>>
               /\ Len(tried) <= Len(Candidates(order))
               /\ \A i \in 1 .. Len(tried) : Fails(i)

KeptFirst ==
  settled =>
    \/ kept = <<>> /\ \A i \in 1 .. Len(Candidates(order)) : Fails(i)
    \/ \E i \in 1 .. Len(Candidates(order)) :
         /\ kept = Candidates(order)[i]
         /\ ~ Fails(i)
         /\ \A j \in 1 .. i - 1 : Fails(j)

GateInv == Wave /\ Progress /\ Searched /\ KeptFirst

LEMMA CandidatesAreSeq ==
  ASSUME NEW n \in Nat
  PROVE  Candidates(OneTo(n)) \in Seq(Seq(Nat))
<1>1. CASE n = 0
  <2>1. OneTo(n) = <<>>
    BY <1>1 DEF OneTo
  <2> QED
    BY <2>1 DEF Candidates
<1>2. CASE n # 0
  BY <1>2, CandidateAt
<1> QED
  BY <1>1, <1>2

LEMMA GateInitial ==
  ASSUME GateInit
  PROVE  GateInv
<1>1. PICK n \in 0 .. MaxLanes :
        /\ order = [i \in 1 .. n |-> i]
        /\ blame \in {b \in SUBSET Combinations(n) : Cardinality(b) <= MaxBlame}
  BY DEF GateInit
<1>2. n \in Nat
  OBVIOUS
<1>3. order = OneTo(n)
  BY <1>1 DEF OneTo
<1>4. \A c \in blame : c # {}
  <2>1. \A c \in blame : c \in Combinations(n)
    BY <1>1
  <2>2. {} \notin Combinations(n)
    BY FS_EmptySet DEF Combinations
  <2> QED
    BY <2>1, <2>2
<1>5. Wave
  BY <1>2, <1>3, <1>4 DEF Wave
<1>6. tried = <<>> /\ settled = FALSE /\ kept = <<>>
  BY DEF GateInit
<1>7. Progress /\ KeptFirst
  <2>1. <<>> \in Seq(Seq(Nat)) /\ Len(<<>>) = 0
    OBVIOUS
  <2>2. Progress
    BY <1>6, <2>1, Zenon DEF Progress
  <2>3. KeptFirst
    BY <1>6 DEF KeptFirst
  <2> QED
    BY <2>2, <2>3
<1>8. Len(Candidates(order)) \in Nat
  BY <1>2, <1>3, CandidatesAreSeq
<1>9. Searched
  BY <1>6, <1>8 DEF Searched
<1> QED
  BY <1>5, <1>7, <1>9 DEF GateInv

LEMMA GateStep ==
  ASSUME GateInv, [GateNext]_gateVars
  PROVE  GateInv'
<1>1. CASE UNCHANGED gateVars
  BY <1>1 DEF gateVars, GateInv, Wave, Progress, Searched, KeptFirst, Fails, Passes
<1>2. CASE CheckCandidate
  <2> DEFINE at == Len(tried) + 1
             C  == Candidates(order)
  <2>1. /\ ~ settled /\ Len(tried) < Len(C)
        /\ tried' = Append(tried, C[at])
        /\ settled' = Passes(Lanes(C[at]))
        /\ kept' = IF settled' THEN C[at] ELSE kept
        /\ order' = order /\ blame' = blame
    BY <1>2 DEF CheckCandidate
  <2>2. C \in Seq(Seq(Nat))
    BY CandidatesAreSeq DEF GateInv, Wave
  <2>3. Len(tried) \in Nat /\ tried \in Seq(Seq(Nat))
    BY DEF GateInv, Progress
  <2>4. \A i \in 1 .. Len(tried) : Fails(i)
    BY <2>1 DEF GateInv, Searched
  <2>5. kept = <<>>
    BY <2>1 DEF GateInv, Searched
  <2>6. Wave'
    BY <2>1 DEF GateInv, Wave
  <2>7. at \in 1 .. Len(C) /\ C[at] \in Seq(Nat)
    BY <2>1, <2>2, <2>3
  <2>8. Len(tried') = at /\ tried' \in Seq(Seq(Nat))
    BY <2>1, <2>3, <2>7
  <2>9. settled' \in BOOLEAN
    BY <2>1 DEF Passes
  <2>10. \A i : Fails(i)' <=> Fails(i)
    BY <2>1 DEF Fails, Passes
  <2>11. settled' <=> ~ Fails(at)
    BY <2>1, <2>9 DEF Fails
  <2> HIDE DEF at, C
  <2>12. Progress'
    BY <2>3, <2>7, <2>8, <2>9 DEF Progress
  <2>13. Searched'
    <3> SUFFICES ASSUME ~ settled'
                 PROVE  /\ kept' = <<>>
                        /\ Len(tried') <= Len(Candidates(order'))
                        /\ \A i \in 1 .. Len(tried') : Fails(i)'
      BY DEF Searched
    <3>1. kept' = <<>>
      BY <2>1, <2>5
    <3>2. Len(tried') <= Len(Candidates(order'))
      BY <2>1, <2>7, <2>8 DEF C
    <3>3. \A i \in 1 .. at : Fails(i)
      <4>1. Fails(at)
        BY <2>11
      <4>2. \A i \in 1 .. at : i \in 1 .. Len(tried) \/ i = at
        BY <2>3 DEF at
      <4> QED
        BY <2>4, <4>1, <4>2
    <3> QED
      BY <2>8, <2>10, <3>1, <3>2, <3>3
  <2>14. KeptFirst'
    <3> SUFFICES ASSUME settled'
                 PROVE  \E i \in 1 .. Len(Candidates(order')) :
                          /\ kept' = Candidates(order')[i]
                          /\ ~ Fails(i)'
                          /\ \A j \in 1 .. i - 1 : Fails(j)'
      BY DEF KeptFirst
    <3>1. kept' = C[at] /\ order' = order
      BY <2>1
    <3>2. ~ Fails(at)
      BY <2>11
    <3>3. \A j \in 1 .. at - 1 : Fails(j)
      BY <2>3, <2>4 DEF at
    <3> QED
      BY <2>7, <2>10, <3>1, <3>2, <3>3 DEF C
  <2> QED
    BY <2>6, <2>12, <2>13, <2>14 DEF GateInv
<1>3. CASE GiveUp
  <2>1. /\ ~ settled /\ Len(tried) = Len(Candidates(order))
        /\ settled' = TRUE
        /\ order' = order /\ blame' = blame /\ tried' = tried /\ kept' = kept
    BY <1>3 DEF GiveUp
  <2>2. Wave' /\ Progress' /\ Searched'
    BY <2>1 DEF GateInv, Wave, Progress, Searched
  <2>3. \A i : Fails(i)' <=> Fails(i)
    BY <2>1 DEF Fails, Passes
  <2>4. kept = <<>> /\ \A i \in 1 .. Len(Candidates(order)) : Fails(i)
    BY <2>1 DEF GateInv, Searched
  <2>5. KeptFirst'
    BY <2>1, <2>3, <2>4 DEF KeptFirst
  <2> QED
    BY <2>2, <2>5 DEF GateInv
<1> QED
  BY <1>1, <1>2, <1>3 DEF GateNext

LEMMA GateInvariant == GateSpec => []GateInv
BY GateInitial, GateStep, PTL DEF GateSpec

-----------------------------------------------------------------------------
(* A candidate has the lanes in splice order, and the more of them the earlier *)
(* it is tried.                                                                *)
LEMMA CandidateShape ==
  ASSUME NEW n \in Nat \ {0}, NEW i \in 1 .. Len(Candidates(OneTo(n)))
  PROVE  /\ \A a, b \in DOMAIN Candidates(OneTo(n))[i] :
              a < b => Candidates(OneTo(n))[i][a] < Candidates(OneTo(n))[i][b]
         /\ i = 1 => Candidates(OneTo(n))[i] = OneTo(n)
         /\ i <= n + 1 => Len(Candidates(OneTo(n))[i]) >= n - 1
         /\ i > n + 1 => Len(Candidates(OneTo(n))[i]) = 2 * n - i
<1> DEFINE c == Candidates(OneTo(n))[i]
<1>1. CASE i = 1
  <2>1. c = OneTo(n)
    BY <1>1, CandidateAt
  <2>2. \A a, b \in DOMAIN OneTo(n) : a < b => OneTo(n)[a] < OneTo(n)[b]
    BY DEF OneTo
  <2> QED
    BY <1>1, <2>1, <2>2, LanesOfAll
<1>2. CASE i \in 2 .. n + 1
  <2>1. i - 1 \in 1 .. n /\ n + 1 - (i - 1) \in 1 .. n /\ 1 + (i - 1) = i
    BY <1>2
  <2>2. c = Without(OneTo(n), n + 1 - (i - 1))
    BY <2>1, CandidateAt
  <2> QED
    BY <1>2, <2>1, <2>2, LanesWithout
<1>3. CASE i > n + 1
  <2> DEFINE m == 2 * n - i
  <2>1. i - (1 + n) \in 1 .. Peels(n)
    <3>1. Len(Candidates(OneTo(n))) = 1 + n + Peels(n)
      BY CandidateAt
    <3>2. Peels(n) \in Nat
      BY DEF Peels
    <3> QED
      BY <1>3, <3>1, <3>2
  <2>2. m \in 1 .. n /\ m = n - 1 - (i - (1 + n))
    BY <2>1 DEF Peels
  <2>3. 1 + n + (i - (1 + n)) = i
    OBVIOUS
  <2>4. c = SubSeq(OneTo(n), 1, m)
    BY <2>1, <2>2, <2>3, CandidateAt
  <2> HIDE DEF m
  <2>5. c = OneTo(m) /\ m \in Nat
    BY <2>2, <2>4, LanesPrefix
  <2>6. \A a, b \in DOMAIN OneTo(m) : a < b => OneTo(m)[a] < OneTo(m)[b]
    BY <2>2 DEF OneTo
  <2>7. Len(c) = m
    BY <2>5, LanesOfAll
  <2> QED
    BY <1>3, <2>5, <2>6, <2>7 DEF m
<1>4. Len(Candidates(OneTo(n))) \in Nat
  BY CandidatesAreSeq
<1> QED
  BY <1>1, <1>2, <1>3, <1>4

LEMMA NoCandidates == Candidates(OneTo(0)) = <<>> /\ OneTo(0) = <<>>
BY DEF Candidates, OneTo

LEMMA NothingPasses ==
  ASSUME GateInv
  PROVE  Passes(Lanes(<<>>))
<1>1. Lanes(<<>>) = {}
  BY DEF Lanes
<1>2. \A c \in blame : c # {}
  BY DEF GateInv, Wave
<1> QED
  BY <1>1, <1>2 DEF Passes

(* When the search is over, either every candidate failed and nothing is kept, *)
(* or what is kept passed and every candidate before it failed.                *)
LEMMA KeptPassed ==
  ASSUME GateInv
  PROVE  KeptTreePassed
<1> SUFFICES ASSUME settled
             PROVE  /\ Passes(Lanes(kept))
                    /\ \A i, j \in DOMAIN kept : i < j => kept[i] < kept[j]
  BY DEF KeptTreePassed
<1>1. CASE kept = <<>>
  BY <1>1, NothingPasses
<1>2. CASE kept # <<>>
  <2>1. PICK i \in 1 .. Len(Candidates(order)) : kept = Candidates(order)[i] /\ ~ Fails(i)
    BY <1>2 DEF GateInv, KeptFirst
  <2>2. PICK n \in Nat : order = OneTo(n)
    BY DEF GateInv, Wave
  <2>3. n # 0
    BY <2>1, <2>2, NoCandidates
  <2>4. \A a, b \in DOMAIN kept : a < b => kept[a] < kept[b]
    BY <2>1, <2>2, <2>3, CandidateShape
  <2> QED
    BY <2>1, <2>4 DEF Fails
<1> QED
  BY <1>1, <1>2

(* A candidate that passes bounds what is kept: it or an earlier one.          *)
LEMMA KeptNotAfter ==
  ASSUME GateInv, settled, NEW i \in 1 .. Len(Candidates(order)), ~ Fails(i)
  PROVE  \E k \in 1 .. i : kept = Candidates(order)[k]
<1>1. PICK k \in 1 .. Len(Candidates(order)) :
        kept = Candidates(order)[k] /\ \A j \in 1 .. k - 1 : Fails(j)
  BY DEF GateInv, KeptFirst
<1>2. Len(Candidates(order)) \in Nat
  BY CandidatesAreSeq DEF GateInv, Wave
<1>3. k <= i
  BY <1>1, <1>2
<1> QED
  BY <1>1, <1>2, <1>3

LEMMA LittleLost ==
  ASSUME GateInv
  PROVE  LittleIsReverted
<1> SUFFICES ASSUME settled
             PROVE  /\ Passes(Lanes(order)) => kept = order
                    /\ (\E l \in Lanes(order) : Passes(Lanes(order) \ {l}))
                         => Len(kept) >= Len(order) - 1
                    /\ \A m \in 1 .. Len(order) :
                         Passes(Lanes(SubSeq(order, 1, m))) => m <= Len(kept)
  BY DEF LittleIsReverted, OneBadLaneCostsItself, PeelStopsAtFirstBreak
<1>1. PICK n \in Nat : order = OneTo(n)
  BY DEF GateInv, Wave
<1>2. Len(order) = n /\ Lanes(order) = 1 .. n
  BY <1>1, LanesOfAll
<1>3. CASE n = 0
  <2>1. order = <<>> /\ Candidates(order) = <<>>
    BY <1>1, <1>3, NoCandidates
  <2>2. kept = <<>>
    BY <2>1 DEF GateInv, KeptFirst
  <2> QED
    BY <1>2, <1>3, <2>1, <2>2
<1>4. CASE n # 0
  <2>1. n \in Nat \ {0} /\ n - 1 \in Nat
    BY <1>4
  <2>2. Len(Candidates(order)) = 1 + n + Peels(n) /\ Peels(n) \in Nat
    BY <1>1, <2>1, CandidateAt DEF Peels
  <2>3. \A k \in 1 .. n + 1 : Len(Candidates(order)[k]) >= n - 1
    BY <1>1, <2>1, <2>2, CandidateShape
  <2>4. ASSUME Passes(Lanes(order))
        PROVE  kept = order
    <3>1. 1 \in 1 .. Len(Candidates(order)) /\ Candidates(order)[1] = order
      <4>1. 1 \in 1 .. Len(Candidates(order))
        BY <2>1, <2>2
      <4>2. Candidates(order)[1] = order
        BY <1>1, <2>1, CandidateAt
      <4> QED
        BY <4>1, <4>2
    <3>2. PICK k \in 1 .. 1 : kept = Candidates(order)[k]
      BY <2>4, <3>1, KeptNotAfter DEF Fails
    <3> QED
      BY <3>1, <3>2
  <2>5. ASSUME NEW l \in 1 .. n, Passes((1 .. n) \ {l})
        PROVE  Len(kept) >= n - 1
    <3> DEFINE i == 1 + (n + 1 - l)
    <3>1. n + 1 - l \in 1 .. n /\ i \in 1 .. n + 1 /\ n + 1 - (n + 1 - l) = l
      OBVIOUS
    <3>2. Candidates(order)[i] = Without(OneTo(n), l)
      BY <1>1, <2>1, <3>1, CandidateAt
    <3>3. ~ Fails(i)
      BY <2>1, <2>5, <3>2, LanesWithout DEF Fails
    <3>4. i \in 1 .. Len(Candidates(order))
      BY <2>2, <3>1
    <3> HIDE DEF i
    <3>5. PICK k \in 1 .. i : kept = Candidates(order)[k]
      BY <3>3, <3>4, KeptNotAfter
    <3>6. k \in 1 .. n + 1
      BY <3>1, <3>5
    <3> QED
      BY <2>3, <3>5, <3>6
  <2>6. ASSUME NEW m \in 1 .. n, Passes(Lanes(SubSeq(order, 1, m)))
        PROVE  m <= Len(kept)
    <3>1. SubSeq(order, 1, m) = OneTo(m) /\ Lanes(OneTo(m)) = 1 .. m
      BY <1>1, LanesPrefix, LanesOfAll
    <3>2. CASE m = n
      <4>1. Passes(Lanes(order))
        BY <1>1, <2>6, <3>1, <3>2
      <4>2. kept = order
        BY <2>4, <4>1
      <4> QED
        BY <1>2, <3>2, <4>2
    <3>3. CASE m = n - 1
      <4>1. 1 .. m = (1 .. n) \ {n} /\ n \in 1 .. n
        BY <2>1, <3>3
      <4> QED
        BY <2>5, <2>6, <3>1, <3>3, <4>1
    <3>4. CASE m < n - 1
      <4> DEFINE p == n - 1 - m
                 i == 1 + n + p
      <4>1. p \in 1 .. Peels(n) /\ i \in 1 .. Len(Candidates(order)) /\ n - 1 - p = m
        BY <2>2, <3>4 DEF Peels
      <4>2. Candidates(order)[i] = SubSeq(order, 1, m)
        BY <1>1, <2>1, <4>1, CandidateAt
      <4>3. ~ Fails(i)
        BY <2>6, <4>2 DEF Fails
      <4>4. i \in Nat /\ 2 * n - i = m
        BY <4>1
      <4> HIDE DEF i
      <4>5. PICK k \in 1 .. i : kept = Candidates(order)[k]
        BY <4>1, <4>3, KeptNotAfter
      <4>6. k \in 1 .. Len(Candidates(OneTo(n)))
        BY <1>1, <2>2, <4>1, <4>4
      <4>7. CASE k <= n + 1
        BY <2>3, <3>4, <4>5, <4>6, <4>7
      <4>8. CASE k > n + 1
        <5>1. Len(kept) = 2 * n - k
          BY <1>1, <2>1, <4>5, <4>6, <4>8, CandidateShape
        <5> QED
          BY <4>4, <4>5, <5>1
      <4> QED
        BY <4>4, <4>5, <4>7, <4>8
    <3> QED
      BY <3>2, <3>3, <3>4
  <2> QED
    BY <1>2, <2>4, <2>5, <2>6
<1> QED
  BY <1>3, <1>4

-----------------------------------------------------------------------------
(* The tree a wave ends with is one the gate passed as a whole, in splice      *)
(* order, or the wave's base: for every number of lanes and every set of       *)
(* failing lanes and pairs (_revert returns the first passing check).          *)
THEOREM TreeIsChecked == GateSpec => []KeptTreePassed
<1>1. GateInv => KeptTreePassed
  BY KeptPassed
<1> QED
  BY <1>1, GateInvariant, PTL

(* "One bad lane costs only itself", and with several bad lanes the longest    *)
(* passing prefix stays, for every number of lanes and whatever the gate fails *)
(* (the order of integrate and _revert).                                       *)
THEOREM LittleIsLost == GateSpec => []LittleIsReverted
<1>1. GateInv => LittleIsReverted
  BY LittleLost
<1> QED
  BY <1>1, GateInvariant, PTL
=============================================================================
