----------------------------- MODULE CodingArms -----------------------------
(* What the arms of the coding evaluation are given, and how they compare.     *)
(* Given: the graph's neighbours of a task's tests, written before its prompt  *)
(* (eval/coding-inject.ts).  A node is <<file, symbol>>, numbered in the order *)
(* of their names, symbol 0 for a file; bundles gives the edges                *)
(* [from, to, relevance] of each seed that the graph has, chars the length of  *)
(* a node's line.  Compared: the runs of every arm (eval/coding-report.ts), a  *)
(* sequence of [task, arm, resolved, main, f1]; a mean is a fraction <<n, d>>. *)
EXTENDS Integers, Sequences, SequencesExt, FiniteSetsExt

CONSTANTS Packaged,     \* the files that are packages
          FrameChars,   \* of the header and the footer
          NoScore, NoDelta

Neighbour(e, seed) == IF e.from[1] = seed THEN e.to ELSE e.from

(* What is cited, each node with the relevance of its best edge.               *)
Collect(seeds, bundles) ==
  LET told == UNION {{[node |-> Neighbour(e, seed), relevance |-> e.relevance] : e \in bundles[seed]} :
                       seed \in seeds \cap DOMAIN bundles}
      kept == {t \in told : t.node[1] \notin Packaged \cup seeds}
  IN [n \in {t.node : t \in kept} |-> Max({t.relevance : t \in {u \in kept : u.node = n}})]

RankCitations(best) ==
  SetToSortSeq(DOMAIN best, LAMBDA m, n : \/ best[m] > best[n]
                                          \/ best[m] = best[n] /\ (m[1] < n[1] \/ (m[1] = n[1] /\ m[2] < n[2])))

EstimateTokens(length) == (length + 3) \div 4
RenderedChars(cited, chars) == FrameChars + FoldLeft(LAMBDA sum, n : sum + chars[n] + 1, 0, cited)

FitToBudget(ranked, budget, chars) ==
  LET Fits(n) == EstimateTokens(RenderedChars(SubSeq(ranked, 1, n), chars)) <= budget
      longest == Max({n \in 0..Len(ranked) : \A k \in 1..n : Fits(k)})
  IN SubSeq(ranked, 1, longest)

BuildInjection(seeds, bundles, maxCitations, budget, chars) ==
  LET ranked == RankCitations(Collect(seeds, bundles))
  IN FitToBudget(SubSeq(ranked, 1, Min({maxCitations, Len(ranked)})), budget, chars)

(* The prompt that an agent reads, by its length: the problem as it stands     *)
(* when nothing is cited.                                                      *)
InjectPrompt(problem, cited, chars) ==
  IF cited = <<>> THEN problem ELSE RenderedChars(cited, chars) + 2 + problem

(* -------------------------------------------------------------------------- *)
(* An agent is told of files that an edge of the tests leads to and never of   *)
(* the tests, nor of packages; each place once.  The text keeps to its budget; *)
(* a place is left out only for places of at least its relevance, when the     *)
(* list is full or the next place does not fit, and a larger budget never      *)
(* takes a place away.                                                         *)
NeighboursAreTold(seeds, bundles, maxCitations, budget, chars) ==
  LET cited == BuildInjection(seeds, bundles, maxCitations, budget, chars)
      Leads(n) == {e \in UNION {bundles[s] : s \in seeds \cap DOMAIN bundles} : n \in {e.from, e.to}}
      nodes == {n \in DOMAIN chars : Leads(n) # {} /\ n[1] \notin seeds \cup Packaged}
      Best(n) == Max({e.relevance : e \in Leads(n)})
  IN /\ ToSet(cited) \subseteq nodes /\ IsInjective(cited) /\ Len(cited) <= maxCitations
     /\ InjectPrompt(0, cited, chars) <= 4 * budget + 2
     /\ \A n \in nodes \ ToSet(cited), i \in DOMAIN cited : Best(n) <= Best(cited[i])
     /\ nodes \subseteq ToSet(cited) \/ Len(cited) = maxCitations
          \/ \E n \in nodes \ ToSet(cited) : EstimateTokens(RenderedChars(Append(cited, n), chars)) > budget
     /\ IsPrefix(cited, BuildInjection(seeds, bundles, maxCitations, budget + 1, chars))

(* -------------------------------------------------------------------------- *)
(* The comparison of the arms.                                                 *)
Plus(a, b) == <<a[1] * b[2] + b[1] * a[2], a[2] * b[2]>>
Minus(a, b) == Plus(a, <<-b[1], b[2]>>)
Less(a, b) == a[1] * b[2] < b[1] * a[2]
Same(a, b) == a[1] * b[2] = b[1] * a[2]
Mean(S, f) ==
  LET total == FoldSet(LAMBDA x, sum : Plus(f[x], sum), <<0, 1>>, S)
  IN <<total[1], total[2] * Cardinality(S)>>

RunsOf(runs, arm) == {i \in DOMAIN runs : runs[i].arm = arm}
MainInput(runs) == [i \in DOMAIN runs |-> <<runs[i].main, 1>>]
MainInputByTask(runs, arm) ==
  [t \in {runs[i].task : i \in RunsOf(runs, arm)} |->
     Mean({i \in RunsOf(runs, arm) : runs[i].task = t}, MainInput(runs))]

(* Over the tasks that both ran.                                               *)
PairedDelta(own, baseline) ==
  LET both == DOMAIN own \cap DOMAIN baseline
  IN IF both = {} THEN NoDelta
     ELSE [tasks |-> Cardinality(both), delta |-> Mean(both, [t \in both |-> Minus(own[t], baseline[t])])]

SummarizeArm(runs, arm, baselineArm) ==
  LET mine   == RunsOf(runs, arm)
      scored == {i \in mine : runs[i].f1 # NoScore}
  IN [resolveRate   |-> <<Cardinality({i \in mine : runs[i].resolved}), Cardinality(mine)>>,
      meanMainInput |-> Mean(mine, MainInput(runs)),
      mainDelta     |-> IF arm = baselineArm THEN NoDelta
                        ELSE PairedDelta(MainInputByTask(runs, arm), MainInputByTask(runs, baselineArm)),
      localization  |-> IF scored = {} THEN NoScore ELSE Mean(scored, [i \in scored |-> <<runs[i].f1, 1>>])]

(* By outcome, then tokens, then name: arms are numbered by their names.       *)
ByOutcomeThenTokens(a, b, m, n) ==
  \/ Less(b.resolveRate, a.resolveRate)
  \/ Same(a.resolveRate, b.resolveRate) /\ Less(a.meanMainInput, b.meanMainInput)
  \/ Same(a.resolveRate, b.resolveRate) /\ Same(a.meanMainInput, b.meanMainInput) /\ m < n
SummarizeArms(runs, baselineArm) ==
  LET arms   == {runs[i].arm : i \in DOMAIN runs}
      summary == [a \in arms |-> SummarizeArm(runs, a, baselineArm)]
      order  == SetToSortSeq(arms, LAMBDA m, n : ByOutcomeThenTokens(summary[m], summary[n], m, n))
  IN [i \in DOMAIN order |-> [arm |-> order[i], summary |-> summary[order[i]]]]

(* An arm that resolves every task an earlier one resolves, and more of the    *)
(* same tasks, is never told after it; where the edits were found never moves  *)
(* an arm.  What an arm reads more than the baseline is of the tasks both ran  *)
(* and no matter of how often each was run or of who else ran: it is nothing   *)
(* for an arm that reads what the baseline reads, and stays with a run of      *)
(* another task or of another arm.                                             *)
ArmsCompare(runs, baselineArm, extra) ==
  LET told   == SummarizeArms(runs, baselineArm)
      Order(rs) == [i \in DOMAIN SummarizeArms(rs, baselineArm) |-> SummarizeArms(rs, baselineArm)[i].arm]
      Delta(rs, a) == SummarizeArm(rs, a, baselineArm).mainDelta
      Tasks(a) == {runs[i].task : i \in RunsOf(runs, a)}
      others == {runs[i].arm : i \in DOMAIN runs} \ {baselineArm}
      Read(a) == {<<runs[i].task, runs[i].main>> : i \in RunsOf(runs, a)}
      Won(a) == {runs[i].task : i \in {j \in RunsOf(runs, a) : runs[j].resolved}}
      Once(a) == Cardinality(Tasks(a)) = Cardinality(RunsOf(runs, a))
  IN /\ \A i, j \in DOMAIN told :
          LET a == told[i].arm
              b == told[j].arm
          IN i < j /\ Once(a) /\ Once(b) /\ Tasks(a) = Tasks(b) => ~(Won(a) \subseteq Won(b) /\ Won(a) # Won(b))
     /\ Order([i \in DOMAIN runs |-> [runs[i] EXCEPT !.f1 = IF @ = NoScore THEN 1 ELSE NoScore]]) = Order(runs)
     /\ \A a \in others :
          /\ Delta(runs, a) = NoDelta <=> Tasks(a) \cap Tasks(baselineArm) = {}
          /\ Read(a) = Read(baselineArm) /\ Once(a) /\ Once(baselineArm) => Same(Delta(runs, a).delta, <<0, 1>>)
          /\ extra.arm # baselineArm /\ (extra.arm # a \/ extra.task \notin Tasks(baselineArm)) =>
               Delta(Append(runs, extra), a) = Delta(runs, a)
          /\ \A i \in RunsOf(runs, a) : Once(a) =>
               (Delta(Append(runs, runs[i]), a) # NoDelta =>
                  Same(Delta(Append(runs, runs[i]), a).delta, Delta(runs, a).delta))
=============================================================================
