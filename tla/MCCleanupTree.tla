---------------------------- MODULE MCCleanupTree ----------------------------
(* Three programs of the bench that each work on a tree of their own, checked  *)
(* beside one another: in a behaviour one of them runs and the others rest.    *)
(*   run   a cleanup run; it lets a wave keep anything the gate's search can   *)
(*         return, and which of its outcomes it does return is the gate's part *)
(*   gate  the integration gate of one wave                                    *)
(*   flow  the stages of the agent and their pull-request flow                 *)
EXTENDS CleanupRun, Integrate, PrFlow

(* An earlier run over the same directory kept task 1 and split a function out *)
(* of it; its head may have changed since.                                     *)
KeptRow(changed) ==
  [task |-> 1, kind |-> "R1", earlier |-> TRUE, outcome |-> "accept",
   kept |-> TRUE, new |-> {1}, current |-> ~changed]
Prior == NewDirectory \cup {<<KeptRow(TRUE)>>, <<KeptRow(FALSE)>>}

VARIABLE focus

GateRests == order = <<>> /\ blame = {} /\ tried = <<>> /\ settled = FALSE /\ kept = <<>>
RunRests  == Init /\ ledger = <<>> /\ hot = {}
FlowRests == FlowInit

MCInit ==
  \/ focus = "run" /\ Init /\ GateRests /\ FlowRests
  \/ focus = "gate" /\ RunRests /\ GateInit /\ FlowRests
  \/ focus = "flow" /\ RunRests /\ GateRests /\ FlowInit

MCNext ==
  \/ focus = "run"  /\ Next     /\ UNCHANGED <<focus, gateVars, flowVars>>
  \/ focus = "gate" /\ GateNext /\ UNCHANGED <<focus, vars, flowVars>>
  \/ focus = "flow" /\ FlowNext /\ UNCHANGED <<focus, vars, gateVars>>

MCSpec == MCInit /\ [][MCNext]_<<focus, vars, gateVars, flowVars>>
=============================================================================
