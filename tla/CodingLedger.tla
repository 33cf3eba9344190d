----------------------------- MODULE CodingLedger -----------------------------
(* The token ledgers of one arm of the coding evaluation                       *)
(* (packages/cli/src/eval/coding-ledger.ts).  The session is external: its     *)
(* main agent makes one API call at a time, subagents make theirs meanwhile,   *)
(* each call is told in one event per content block, whose usage grows, and    *)
(* helper models are called without an event.  The session may be killed       *)
(* before it tells its result.  Tokens of all kinds are one number.            *)
EXTENDS Integers, Sequences, FiniteSets, FiniteSetsExt, Functions

CONSTANTS MainModels,    \* what the main agent may run on
          Models,        \* what a subagent may run on
          HelperModel,   \* what the session calls by itself, never the main agent's
          NoModel,       \* the arm names no model
          NoEdit,        \* the agent edited nothing
          MaxEvents, MaxBlocks, MaxHelperCalls

VARIABLES armModel,    \* the model the arm asked for
          stream,      \* the assistant events told so far
          charged,     \* what each model has cost
          result       \* "none", "usage" or "modelUsage": what the result tells
streamVars == <<armModel, stream, charged, result>>

(* The main agent never runs on the helper model, and only models cost.        *)
ASSUME StreamAssumption ==
  /\ MainModels \subseteq Models /\ HelperModel \in Models \ MainModels /\ NoModel \notin Models
  /\ IsFiniteSet(Models)

Told == {stream[i].id : i \in DOMAIN stream}
Events(id) == {i \in DOMAIN stream : stream[i].id = id}

StreamInit ==
  /\ armModel \in MainModels \cup {NoModel}
  /\ stream = <<>> /\ charged = [m \in Models |-> 0] /\ result = "none"

(* One more block of a call.  A call starts with its first block; the main     *)
(* agent's ends when it makes its next one.                                    *)
Tell(id, model, side, block) ==
  /\ Len(stream) < MaxEvents
  /\ stream' = Append(stream, [id |-> id, model |-> model, sidechain |-> side,
                               usage |-> Cardinality(Events(id)) + 1, block |-> block])
  /\ charged' = [charged EXCEPT ![model] = @ + 1]
  /\ UNCHANGED <<armModel, result>>

Blocks == {"text", "Edit"}
StartCall ==
  /\ result = "none"
  /\ \E side \in BOOLEAN, m \in Models, b \in Blocks :
       /\ IF side THEN stream # <<>> ELSE m \in MainModels
       /\ Tell(Cardinality(Told) + 1, m, side, b)

NextBlock ==
  /\ result = "none"
  /\ \E i \in DOMAIN stream, b \in Blocks :
       LET e == stream[i]
       IN /\ Cardinality(Events(e.id)) < MaxBlocks
          /\ e.sidechain \/ \A j \in DOMAIN stream : stream[j].sidechain \/ stream[j].id <= e.id
          /\ Tell(e.id, e.model, e.sidechain, b)

CallHelper ==
  /\ result = "none" /\ charged[HelperModel] < MaxHelperCalls
  /\ charged' = [charged EXCEPT ![HelperModel] = @ + 1]
  /\ UNCHANGED <<armModel, stream, result>>

TellResult ==
  /\ result = "none" /\ stream # <<>>
  /\ result' \in {"usage", "modelUsage"}
  /\ UNCHANGED <<armModel, stream, charged>>

StreamNext == StartCall \/ NextBlock \/ CallHelper \/ TellResult
StreamSpec == StreamInit /\ [][StreamNext]_streamVars

(* -------------------------------------------------------------------------- *)
(* What parseArmStream makes of it.  A call is what its last event says.       *)
CollectCalls_FirstTold(events) ==   \* a mutant: a call already known is not set again
  [id \in {events[i].id : i \in DOMAIN events} |->
     events[Min({i \in DOMAIN events : events[i].id = id})]]

CollectCalls(events) ==
  [id \in {events[i].id : i \in DOMAIN events} |->
     events[Max({i \in DOMAIN events : events[i].id = id})]]

LedgerOf(calls, ids) == MapThenSumSet(LAMBDA id : calls[id].usage, ids)
MainCalls(calls) == {id \in DOMAIN calls : ~calls[id].sidechain}
IsArmModel(calls, m) == m = armModel \/ \E id \in MainCalls(calls) : calls[id].model = m

ModelUsage == IF result = "modelUsage" THEN {m \in Models : charged[m] > 0} ELSE {}
Charged(models) == MapThenSumSet(LAMBDA m : charged[m], models)
SessionTotal == IF result = "none" THEN 0 ELSE Charged(Models)

HelperLedger(calls) ==
  LedgerOf(calls, {id \in DOMAIN calls \ MainCalls(calls) : IsArmModel(calls, calls[id].model)})
  + Charged({m \in ModelUsage : ~IsArmModel(calls, m)})

LedgerGap ==
  LET calls == CollectCalls(stream)
  IN SessionTotal - LedgerOf(calls, MainCalls(calls)) - HelperLedger(calls)

Edits == {i \in DOMAIN stream : ~stream[i].sidechain /\ stream[i].block = "Edit"}
PreEditTurns ==
  IF Edits = {} THEN NoEdit
  ELSE LET first == Min(Edits)
           turns == {stream[i].id : i \in {j \in 1..(first - 1) : ~stream[j].sidechain}}
       IN IF stream[first].id \in turns THEN Cardinality(turns) - 1 ELSE Cardinality(turns)

(* -------------------------------------------------------------------------- *)
(* A session told to its end is accounted for to the token, however the events *)
(* of its agents are mixed and whatever its helpers cost, and a turn that      *)
(* edits is not among the turns before the edit.                               *)
LedgersBalance ==
  /\ result = "modelUsage" => LedgerGap = 0
  /\ Edits # {} =>
       LET edit == stream[Min(Edits)].id
       IN PreEditTurns =
            Cardinality({stream[i].id : i \in {j \in DOMAIN stream : ~stream[j].sidechain /\ stream[j].id < edit}})
=============================================================================
