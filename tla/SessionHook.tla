----------------------------- MODULE SessionHook -----------------------------
(* The plugin's session-start hook: what it carries over from the last        *)
(* synthesis, the snapshot it asks two runs of the CLI for, and the deadline   *)
(* it races them against.  The editor waits for the hook and reads one JSON    *)
(* document from its output.                                                   *)
EXTENDS Naturals, Sequences, FiniteSets, SequencesExt

CONSTANTS Sessions,         \* what a session may start from: notes, caps, graph, CLI answers
          NoKey,            \* a taste line without a provenance tag
          NoCap,            \* the environment does not name the cap
          MaxSnapshotChars, MaxAreas, MaxChangedSymbols

Queries == {"conventions", "top"}   \* the two CLI runs

VARIABLES session,   \* what this session starts from
          stage,     \* "start", "waiting", "done" or "exited"
          cli,       \* each CLI run: idle, running, exited, closed, failed or killed
          timer,     \* the deadline is armed
          carried,   \* the notes of the last synthesis that go into the session
          out        \* the contexts written to standard output
hookVars == <<session, stage, cli, timer, carried, out>>

(* The notes are lists; a cap is a number or not named.                        *)
ASSUME HookAssumption ==
  /\ \A s \in Sessions :
       /\ s.notes.taste \in Seq(Range(s.notes.taste)) /\ s.notes.verdicts \in Seq(Range(s.notes.verdicts))
       /\ s.notes.ratchetItems \in Seq(Range(s.notes.ratchetItems))
       /\ s.notes.changedSymbols \in Seq(Range(s.notes.changedSymbols))
       /\ s.answers.topFiles \in Seq(Range(s.answers.topFiles))
       /\ s.answers.areas \in Seq(Range(s.answers.areas))
       /\ s.limits.maxOpenItems \in Nat \cup {NoCap} /\ s.limits.maxChars \in Nat \cup {NoCap}
  /\ MaxAreas \in Nat /\ MaxChangedSymbols \in Nat

(* -------------------------------------------------------------------------- *)
(* Text is a list of lines, a line its characters and a line break; blocks are *)
(* a heading and lines, set apart by an empty line, and left out when empty.   *)
Chars(lines) ==
  LET upto[n \in 0..Len(lines)] == IF n = 0 THEN 0 ELSE upto[n - 1] + lines[n].chars + 1
  IN upto[Len(lines)]

Block(heading, lines) == IF lines = <<>> THEN 0 ELSE heading + Chars(lines) + 2

Upto(s, n) == SubSeq(s, 1, IF Len(s) < n THEN Len(s) ELSE n)
Limited(s, n) == IF n = NoCap THEN s ELSE Upto(s, n)

(* What is left of three lists after n lines were popped, the last list first. *)
Cut(s, n)  == SubSeq(s, 1, IF n < Len(s) THEN Len(s) - n ELSE 0)
Over(n, s) == IF n > Len(s) THEN n - Len(s) ELSE 0
Popped(lists, n) ==
  <<Cut(lists[1], Over(Over(n, lists[3]), lists[2])), Cut(lists[2], Over(n, lists[3])), Cut(lists[3], n)>>

Total(lists) == Len(lists[1]) + Len(lists[2]) + Len(lists[3])

(* The fewest lines popped with which the text fits, size[n] being its size    *)
(* without n of them; all of them if none do.                                  *)
PopUntilFits(lists, size, max) ==
  LET fits == {n \in 0..Total(lists) : size[n] <= max}
  IN Popped(lists, IF fits = {} THEN Total(lists) ELSE CHOOSE n \in fits : \A m \in fits : n <= m)

(* -------------------------------------------------------------------------- *)
(* The notes.  A verdict row answers a key; a taste line may rest on one.     *)
Among(list, rows) ==   \* the entries of a list that are one of the rows
  LET upto[n \in 0..Len(list)] ==
        IF n = 0 THEN <<>>
        ELSE IF list[n] \in rows THEN Append(upto[n - 1], list[n]) ELSE upto[n - 1]
  IN upto[Len(list)]

ConventionLines(taste, verdicts) ==
  Among(taste, {l \in Range(taste) : ~\E v \in Range(verdicts) : v.testGap /\ v.key = l.key})

OpenItems(verdicts, ratchetItems) ==
  LET confirmed == {v \in Range(verdicts) : v.verdict = "confirmed"}
  IN Among(verdicts, {v \in confirmed : v.testGap}) \o ratchetItems
       \o Among(verdicts, {v \in confirmed : ~v.testGap})

NotesSize(kept) ==
  LET blocks == Block(18, kept[1]) + Block(32, kept[2]) + Block(36, kept[3])
  IN IF blocks = 0 THEN 0 ELSE blocks - 2

(* Open items, conventions, changed symbols: the order they outlive a cap in. *)
FormatCarry(notes, limits) ==
  LET lists == <<Limited(OpenItems(notes.verdicts, notes.ratchetItems), limits.maxOpenItems),
                 ConventionLines(notes.taste, notes.verdicts),
                 Upto(notes.changedSymbols, MaxChangedSymbols)>>
  IN IF limits.maxChars = NoCap THEN lists
     ELSE PopUntilFits(lists, [n \in 0..Total(lists) |-> NotesSize(Popped(lists, n))], limits.maxChars)

Empty(lists) == \A i \in DOMAIN lists : lists[i] = <<>>

(* The snapshot: its preamble and tools line stay, areas go before top files. *)
SnapshotSize(preamble, kept) == preamble + Block(23, kept[1]) + Block(17, kept[2])

FormatSnapshot(answers) ==
  LET lists == <<answers.topFiles, Upto(answers.areas, MaxAreas), <<>>>>
  IN PopUntilFits(lists, [n \in 0..Total(lists) |-> SnapshotSize(answers.preamble, Popped(lists, n))],
                  MaxSnapshotChars)

(* -------------------------------------------------------------------------- *)
NoNotes == <<<<>>, <<>>, <<>>>>

HookInit ==
  /\ session \in Sessions
  /\ stage = "start" /\ cli = [q \in Queries |-> "idle"]
  /\ timer = FALSE /\ carried = NoNotes /\ out = <<>>

Context(snapshot, notes) == [snapshot |-> snapshot, notes |-> notes]

(* Kill what still runs (a run that has exited is passed by), write the notes *)
(* alone if there are any, and exit.                                          *)
Bail(runs, notes) ==
  /\ cli' = [q \in Queries |-> IF runs[q] = "running" THEN "killed" ELSE runs[q]]
  /\ out' = IF Empty(notes) THEN out ELSE Append(out, Context(<<>>, notes))
  /\ stage' = "exited"

ArmTimer_Not == timer' = FALSE   \* a mutant: no deadline

ArmTimer == timer' = TRUE

(* Up to the two CLI runs nothing is awaited, so the armed timer cannot fire. *)
Start ==
  /\ stage = "start"
  /\ ArmTimer
  /\ carried' = FormatCarry(session.notes, session.limits)
  /\ IF \/ ~session.inGit /\ Empty(carried')
        \/ ~session.db \/ ~session.found
        \/ session.inGit /\ ~session.head
     THEN Bail(cli, carried')
     ELSE /\ cli' = [q \in Queries |-> "running"]
          /\ stage' = "waiting"
          /\ UNCHANGED out
  /\ UNCHANGED session

(* A run ends, its output still held open, perhaps by a process it started.   *)
Exits(q) ==
  /\ stage = "waiting" /\ cli[q] = "running"
  /\ cli' = [cli EXCEPT ![q] = "exited"]
  /\ UNCHANGED <<session, stage, timer, carried, out>>

ClearTimer_Left == UNCHANGED timer   \* a mutant: the deadline stays armed

ClearTimer == timer' = FALSE

(* Its output closes with code 0 and valid JSON; the second one to do so lets *)
(* main write the snapshot.                                                   *)
Answers(q) ==
  /\ stage = "waiting" /\ cli[q] = "exited"
  /\ cli' = [cli EXCEPT ![q] = "closed"]
  /\ IF \A p \in Queries : cli'[p] = "closed"
     THEN /\ ClearTimer
          /\ out' = Append(out, Context(FormatSnapshot(session.answers), carried))
          /\ stage' = "done"
     ELSE UNCHANGED <<timer, out, stage>>
  /\ UNCHANGED <<session, carried>>

(* It closes with another code or prints no JSON, or could not be spawned.    *)
FailsToAnswer(q) ==
  /\ stage = "waiting"
  /\ \/ cli[q] = "exited" /\ Bail([cli EXCEPT ![q] = "closed"], carried)
     \/ cli[q] = "running" /\ Bail([cli EXCEPT ![q] = "failed"], carried)
  /\ UNCHANGED <<session, timer, carried>>

Deadline ==
  /\ timer /\ stage \in {"waiting", "done"}
  /\ Bail(cli, carried)
  /\ timer' = FALSE
  /\ UNCHANGED <<session, carried>>

(* Nothing is left to wait for.                                               *)
Finish ==
  /\ stage = "done" /\ ~timer
  /\ stage' = "exited"
  /\ UNCHANGED <<session, cli, timer, carried, out>>

HookNext ==
  \/ Start \/ Deadline \/ Finish
  \/ \E q \in Queries : Exits(q) \/ Answers(q) \/ FailsToAnswer(q)

(* The hook's own code runs and its timer fires; a CLI may hang for ever.     *)
Leaves == stage = "start" /\ stage' \in {"waiting", "exited"}

HookSpec     == HookInit /\ [][HookNext]_hookVars
HookFairness == WF_stage(Leaves) /\ WF_hookVars(Deadline) /\ WF_hookVars(Finish)

(* -------------------------------------------------------------------------- *)
(* When the hook has exited, the session got at most one context, never an    *)
(* empty one; the notes it carries are in it whatever failed or was cut off;  *)
(* no CLI is left running; and what is in it is what fits: within each cap,   *)
(* no missing test as a convention, and never a convention or a symbol kept   *)
(* while a more important open item was dropped.                              *)
HookSettles ==
  stage = "exited" =>
    /\ Len(out) <= 1
    /\ out = <<>> => Empty(carried)
    /\ \A q \in Queries : cli[q] # "running"
    /\ \A i \in DOMAIN out :
         LET s == out[i].snapshot
             n == out[i].notes
             items == Limited(OpenItems(session.notes.verdicts, session.notes.ratchetItems),
                              session.limits.maxOpenItems)
         IN /\ s = <<>> => ~Empty(n)
            /\ n = carried
            /\ session.limits.maxChars # NoCap => NotesSize(n) <= session.limits.maxChars
            /\ \A l \in Range(n[2]), v \in Range(session.notes.verdicts) : v.testGap => v.key # l.key
            /\ n[2] # <<>> \/ n[3] # <<>> => n[1] = items
            /\ s # <<>> /\ ~Empty(s) => SnapshotSize(session.answers.preamble, s) <= MaxSnapshotChars

(* However the CLI hangs, the session is not kept waiting.                    *)
HookEnds == <>(stage = "exited")
=============================================================================
