----------------------------- MODULE DashboardApp -----------------------------
(* The dashboard as an application in a browser tab (App.tsx): what is shown   *)
(* is a place, a view with a selected node, a filter and a churn window, which *)
(* the program keeps equal to the address.  A place set by a handler is drawn  *)
(* and written to the address before the next event (React flushes the effects *)
(* of discrete events); only a change of the address is told later, by a       *)
(* hashchange event that further input can come before.                        *)
EXTENDS Naturals, Sequences, FiniteSets

CONSTANTS
  View, Node, Query, Window,
  Typed,         \* the addresses that the page is opened with or that are typed
  Home,          \* the view of an address that names none
  Blank,         \* the view part of an address that is empty or unknown
  NoNode, NoQuery,
  Windows,       \* the churn windows in the page, possibly none
  DefaultWindow, \* the window of the payload itself
  MaxInputs

Place   == [view : View, node : Node, q : Query, w : Window]
Address == [view : View \cup {Blank}, node : Node, q : Query, w : Window]

ASSUME TypedAssumption == Typed \subseteq Address
ASSUME PlaceAssumption == Home \in View /\ NoNode \in Node /\ NoQuery \in Query /\ Windows \subseteq Window

VARIABLES
  loc,       \* the place shown
  history,   \* the addresses of the tab, in order
  at,        \* the entry of history the tab is at
  told,      \* hashchange events not yet delivered
  mounted,
  inputs     \* how often the user has acted

appVars == <<loc, history, at, told, mounted, inputs>>

ParseHash(address) == [address EXCEPT !.view = IF @ \in View THEN @ ELSE Home]

(* A mutant: only another view is written.                                     *)
WriteHash_ViewOnly(l) ==
  IF history[at].view = l.view THEN UNCHANGED <<history, at>>
  ELSE history' = Append(SubSeq(history, 1, at), l) /\ at' = at + 1

(* An address equal to the place's is left; another view is a new entry, after *)
(* which none follows, and anything else replaces the entry.                   *)
WriteHash(l) ==
  IF history[at] = l THEN UNCHANGED <<history, at>>
  ELSE IF history[at].view # l.view
       THEN history' = Append(SubSeq(history, 1, at), l) /\ at' = at + 1
       ELSE history' = [history EXCEPT ![at] = l] /\ at' = at

AppInit ==
  /\ \E address \in Typed : history = <<address>> /\ loc = ParseHash(address)
  /\ at = 1 /\ told = 0 /\ mounted = FALSE /\ inputs = 0

SetLoc(l) == loc' = l /\ WriteHash(l) /\ UNCHANGED <<told, mounted>>

Mount == ~mounted /\ mounted' = TRUE /\ WriteHash(loc) /\ UNCHANGED <<loc, told, inputs>>

Input == mounted /\ inputs < MaxInputs /\ inputs' = inputs + 1

(* The sidebar and the digits, a row of a view or the close button, the filter *)
(* and a window of the bar; Escape clears the node and the filter.             *)
SetView      == Input /\ \E v \in View : SetLoc([loc EXCEPT !.view = v])
SetSelected  == Input /\ \E n \in Node : SetLoc([loc EXCEPT !.node = n])
SetQuery     == Input /\ \E q \in Query : SetLoc([loc EXCEPT !.q = q])
SetWindow    == Input /\ \E w \in Windows : Cardinality(Windows) > 1 /\ SetLoc([loc EXCEPT !.w = w])
Escape       == Input /\ SetLoc([loc EXCEPT !.node = NoNode, !.q = NoQuery])

(* The browser: the address changes at once, and the page is told afterwards.  *)
Traverse ==
  /\ Input
  /\ \E i \in {at - 1, at + 1} \cap DOMAIN history :
       at' = i /\ told' = IF history[i] = history[at] THEN told ELSE told + 1
  /\ UNCHANGED <<loc, history, mounted>>
TypeAddress ==
  /\ Input
  /\ \E address \in Typed \ {history[at]} :
       history' = Append(SubSeq(history, 1, at), address) /\ at' = at + 1 /\ told' = told + 1
  /\ UNCHANGED <<loc, mounted>>
Reload ==
  /\ Input /\ loc' = ParseHash(history[at]) /\ told' = 0 /\ mounted' = FALSE
  /\ UNCHANGED <<history, at>>

HashChange ==
  /\ mounted /\ told > 0 /\ told' = told - 1
  /\ loc' = ParseHash(history[at]) /\ WriteHash(loc') /\ UNCHANGED <<mounted, inputs>>

AppNext ==
  \/ Mount \/ SetView \/ SetSelected \/ SetQuery \/ SetWindow \/ Escape
  \/ Traverse \/ TypeAddress \/ Reload \/ HashChange

AppSpec == AppInit /\ [][AppNext]_appVars /\ WF_appVars(Mount) /\ WF_appVars(HashChange)

(* -------------------------------------------------------------------------- *)
(* What is shown of a place: the window it names if the page has it, otherwise *)
(* the payload's own; the filter narrows the rows of every view but one.       *)
WindowKey == IF loc.w \in Windows THEN loc.w ELSE DefaultWindow
ShowsPayload == WindowKey \in Windows   \* otherwise what the page was opened with

(* -------------------------------------------------------------------------- *)
(* However Back, Forward, a typed address and input come between one another,  *)
(* once the page has been told of every change of its address, the address is  *)
(* that of what is shown; so a reload or a copied link shows it again.         *)
AddressIsShown == mounted /\ told = 0 => history[at] = loc /\ ParseHash(history[at]) = loc

(* Going back leaves the tab at the entry gone back to, with the entries after *)
(* it still there.                                                             *)
BackWorks == [][HashChange /\ at < Len(history) => at' = at /\ history' = history]_appVars
=============================================================================
