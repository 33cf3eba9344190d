------------------------ MODULE PageAndProfileProofs ------------------------
(* What the user reads and writes at any moment: the page of the dashboard, by *)
(* its address; the profile of code style, by its review; the pages of the     *)
(* dependency graph, by their clicks, and what is drawn on them.               *)
EXTENDS DashboardApp, StyleProfile, GraphPage, FiniteSetTheorems, WellFoundedInduction, TLAPS

(* -------------------------------------------------------------------------- *)
(* For any views, nodes, filters and windows, and however input, Back, Forward *)
(* and typed addresses come between one another: once the page has been told   *)
(* of every change of its address, the address is that of what it shows.  A    *)
(* place may be wrong while an event is under way, so the induction needs what *)
(* every write leaves behind, whatever is still to be told.                    *)

AppTypeOK ==
  /\ loc \in Place
  /\ history \in Seq(Address) /\ at \in 1..Len(history)
  /\ told \in Nat /\ mounted \in BOOLEAN

AppInv == AppTypeOK /\ (mounted /\ told = 0 => history[at] = loc)

(* An address is read as a place.                                              *)
LEMMA AddressRead ==
  ASSUME NEW a \in Address
  PROVE  ParseHash(a) \in Place
BY PlaceAssumption DEF ParseHash, Address, Place

(* A place is read back as it is.                                              *)
LEMMA PlaceReadBack ==
  ASSUME NEW l \in Place
  PROVE  l \in Address /\ ParseHash(l) = l
BY DEF ParseHash, Address, Place

(* Whatever the address was, once a place is written the tab is at it.         *)
LEMMA WriteHashWrites ==
  ASSUME AppTypeOK, NEW l \in Place, WriteHash(l)
  PROVE  history' \in Seq(Address) /\ at' \in 1..Len(history') /\ history'[at'] = l
<1> USE DEF AppTypeOK
<1>1. l \in Address
  BY PlaceReadBack
<1>2. CASE history[at] = l
  BY <1>2 DEF WriteHash
<1>3. CASE history[at] # l /\ history[at].view # l.view
  <2>1. history' = Append(SubSeq(history, 1, at), l) /\ at' = at + 1
    BY <1>3 DEF WriteHash
  <2>2. SubSeq(history, 1, at) \in Seq(Address) /\ Len(SubSeq(history, 1, at)) = at
    OBVIOUS
  <2> QED
    BY <1>1, <2>1, <2>2
<1>4. CASE history[at] # l /\ history[at].view = l.view
  <2>1. history' = [history EXCEPT ![at] = l] /\ at' = at
    BY <1>4 DEF WriteHash
  <2> QED
    BY <1>1, <2>1
<1> QED
  BY <1>2, <1>3, <1>4

(* So a handler that sets a place leaves the tab at it.                        *)
LEMMA SetLocShows ==
  ASSUME AppTypeOK, NEW l \in Place, SetLoc(l)
  PROVE  AppInv'
<1>1. history' \in Seq(Address) /\ at' \in 1..Len(history') /\ history'[at'] = l
  BY WriteHashWrites DEF SetLoc
<1> QED
  BY <1>1 DEF SetLoc, AppTypeOK, AppInv

LEMMA AppInitial == AppInit => AppInv
<1> SUFFICES ASSUME AppInit PROVE AppInv
  OBVIOUS
<1>1. PICK address \in Typed : history = <<address>> /\ loc = ParseHash(address)
  BY DEF AppInit
<1>2. address \in Address
  BY TypedAssumption
<1>3. loc \in Place
  BY <1>1, <1>2, AddressRead
<1>4. history \in Seq(Address) /\ at \in 1..Len(history)
  BY <1>1, <1>2 DEF AppInit
<1> QED
  BY <1>3, <1>4 DEF AppInit, AppTypeOK, AppInv

LEMMA AppInductive == AppInv /\ [AppNext]_appVars => AppInv'
<1> SUFFICES ASSUME AppInv, [AppNext]_appVars PROVE AppInv'
  OBVIOUS
<1> USE DEF AppInv
<1>1. CASE Mount
  <2>1. history' \in Seq(Address) /\ at' \in 1..Len(history') /\ history'[at'] = loc
    BY <1>1, WriteHashWrites DEF Mount, AppTypeOK
  <2> QED
    BY <1>1, <2>1 DEF Mount, AppTypeOK
<1>2. CASE SetView
  <2>1. PICK v \in View : SetLoc([loc EXCEPT !.view = v])
    BY <1>2 DEF SetView
  <2>2. [loc EXCEPT !.view = v] \in Place
    BY DEF AppTypeOK, Place
  <2> QED
    BY <2>1, <2>2, SetLocShows
<1>3. CASE SetSelected
  <2>1. PICK n \in Node : SetLoc([loc EXCEPT !.node = n])
    BY <1>3 DEF SetSelected
  <2>2. [loc EXCEPT !.node = n] \in Place
    BY DEF AppTypeOK, Place
  <2> QED
    BY <2>1, <2>2, SetLocShows
<1>4. CASE SetQuery
  <2>1. PICK q \in Query : SetLoc([loc EXCEPT !.q = q])
    BY <1>4 DEF SetQuery
  <2>2. [loc EXCEPT !.q = q] \in Place
    BY DEF AppTypeOK, Place
  <2> QED
    BY <2>1, <2>2, SetLocShows
<1>5. CASE SetWindow
  <2>1. PICK w \in Windows : SetLoc([loc EXCEPT !.w = w])
    BY <1>5 DEF SetWindow
  <2>2. [loc EXCEPT !.w = w] \in Place
    BY PlaceAssumption DEF AppTypeOK, Place
  <2> QED
    BY <2>1, <2>2, SetLocShows
<1>6. CASE Escape
  <2>1. [loc EXCEPT !.node = NoNode, !.q = NoQuery] \in Place
    BY PlaceAssumption DEF AppTypeOK, Place
  <2> QED
    BY <1>6, <2>1, SetLocShows DEF Escape
<1>7. CASE Traverse
  BY <1>7 DEF Traverse, AppTypeOK
<1>8. CASE TypeAddress
  <2>1. PICK address \in Typed : /\ history' = Append(SubSeq(history, 1, at), address)
                                 /\ at' = at + 1 /\ told' = told + 1
    BY <1>8 DEF TypeAddress
  <2>2. address \in Address
    BY TypedAssumption
  <2>3. SubSeq(history, 1, at) \in Seq(Address) /\ Len(SubSeq(history, 1, at)) = at
    BY DEF AppTypeOK
  <2>4. history' \in Seq(Address) /\ at' \in 1..Len(history')
    BY <2>1, <2>2, <2>3 DEF AppTypeOK
  <2> QED
    BY <1>8, <2>1, <2>4 DEF TypeAddress, AppTypeOK
<1>9. CASE Reload
  <2>1. ParseHash(history[at]) \in Place
    BY AddressRead DEF AppTypeOK
  <2> QED
    BY <1>9, <2>1 DEF Reload, AppTypeOK
<1>10. CASE HashChange
  <2>1. loc' \in Place
    BY <1>10, AddressRead DEF HashChange, AppTypeOK
  <2>2. WriteHash(loc')
    BY <1>10 DEF HashChange
  <2>3. history' \in Seq(Address) /\ at' \in 1..Len(history') /\ history'[at'] = loc'
    BY <2>1, <2>2, WriteHashWrites
  <2> QED
    BY <1>10, <2>1, <2>3 DEF HashChange, AppTypeOK
<1>11. CASE UNCHANGED appVars
  BY <1>11 DEF appVars, AppTypeOK
<1> QED
  BY <1>1, <1>2, <1>3, <1>4, <1>5, <1>6, <1>7, <1>8, <1>9, <1>10, <1>11 DEF AppNext

(* Once the page has been told of every change of its address, the address is  *)
(* that of what is shown, and reading it shows the same again (App.tsx).       *)
THEOREM AddressShown == AppSpec => []AddressIsShown
<1>1. AppInv => AddressIsShown
  BY PlaceReadBack DEF AppInv, AppTypeOK, AddressIsShown
<1> QED
  BY AppInitial, AppInductive, <1>1, PTL DEF AppSpec

(* -------------------------------------------------------------------------- *)
(* For any shells, repositories and measurements, and however the commands     *)
(* overlap: a stored rule is one the user let pass or typed.  The file itself  *)
(* says too little for an induction, since an update writes what it read at    *)
(* its start: every command under way must hold a reviewed profile, and rules  *)
(* of its own repositories of which only those left are unreviewed.            *)

ReviewedIn(p, a) ==
  /\ DOMAIN p = {"sources", "rules", "overrides"}
  /\ \A key \in DOMAIN p.rules : <<key, p.rules[key]>> \in a /\ p.rules[key].of \subseteq p.sources

FreshIn(rules, repos, left, a) ==
  \A key \in DOMAIN rules :
    /\ DOMAIN rules[key] = {"convention", "confidence", "of"} /\ rules[key].of = repos
    /\ key \notin left => <<key, rules[key]>> \in a

CommandIn(c, a) ==
  /\ DOMAIN c = {"command", "stage", "repos", "existing", "rules", "left"}
  /\ c.stage = "review" =>
       /\ c.command = "init" \/ (c.command = "update" /\ ReviewedIn(c.existing, a))
       /\ FreshIn(c.rules, c.repos, c.left, a)

ProfileInv ==
  /\ profile # NoProfile => ReviewedIn(profile, approved)
  /\ DOMAIN shell = Shells /\ shell = [s \in Shells |-> shell[s]]
  /\ \A s \in Shells : CommandIn(shell[s], approved)

(* What the user has let pass stays so.                                        *)
LEMMA ReviewedGrows ==
  ASSUME NEW p, NEW a, NEW b, a \subseteq b, ReviewedIn(p, a)
  PROVE  ReviewedIn(p, b)
BY DEF ReviewedIn

LEMMA CommandGrows ==
  ASSUME NEW c, NEW a, NEW b, a \subseteq b, CommandIn(c, a)
  PROVE  CommandIn(c, b)
BY ReviewedGrows DEF CommandIn, FreshIn

(* A command that rests holds nothing.                                         *)
LEMMA RestingHolds ==
  ASSUME NEW a
  PROVE  CommandIn(Resting, a)
BY DEF CommandIn, Resting

(* What is measured is of the repositories it was measured in.                 *)
LEMMA AggregationIsFresh ==
  ASSUME NEW features, NEW repos, NEW a
  PROVE  FreshIn(ProfileFromAggregation(features, repos), repos, DOMAIN ProfileFromAggregation(features, repos), a)
BY DEF FreshIn, ProfileFromAggregation

(* A reviewed profile with reviewed rules merged in is a reviewed profile, and *)
(* its sources are those of both.                                              *)
LEMMA MergeIsReviewed ==
  ASSUME NEW p, NEW rules, NEW repos, NEW a, ReviewedIn(p, a), FreshIn(rules, repos, {}, a)
  PROVE  ReviewedIn(MergeProfiles(p, [sources |-> repos, rules |-> rules]), a)
<1> DEFINE q == MergeProfiles(p, [sources |-> repos, rules |-> rules])
<1>1. /\ DOMAIN q = {"sources", "rules", "overrides"}
      /\ q.sources = p.sources \cup repos /\ q.rules = MergeCategory(p.rules, rules)
  BY DEF MergeProfiles, ReviewedIn
<1>2. ASSUME NEW key \in DOMAIN q.rules
      PROVE  \/ key \in DOMAIN p.rules /\ q.rules[key] = p.rules[key]
             \/ key \in DOMAIN rules /\ q.rules[key] = rules[key]
  BY <1>1, <1>2 DEF MergeCategory
<1>3. ASSUME NEW key \in DOMAIN q.rules
      PROVE  <<key, q.rules[key]>> \in a /\ q.rules[key].of \subseteq q.sources
  <2>1. CASE key \in DOMAIN p.rules /\ q.rules[key] = p.rules[key]
    BY <1>1, <2>1 DEF ReviewedIn
  <2>2. CASE key \in DOMAIN rules /\ q.rules[key] = rules[key]
    <3>1. <<key, rules[key]>> \in a /\ rules[key].of = repos
      BY <2>2 DEF FreshIn
    <3> QED
      BY <1>1, <2>2, <3>1
  <2> QED
    BY <1>2, <1>3, <2>1, <2>2
<1> QED
  BY <1>1, <1>3 DEF ReviewedIn

(* What a command writes when its review is over is reviewed.                  *)
LEMMA WrittenIsReviewed ==
  ASSUME NEW c, NEW a, CommandIn(c, a), c.stage = "review", c.left = {}
  PROVE  ReviewedIn(Written(c), a)
<1>1. CASE c.command = "init"
  BY <1>1 DEF Written, ReviewedIn, CommandIn, FreshIn
<1>2. CASE c.command = "update" /\ ReviewedIn(c.existing, a)
  <2>1. FreshIn(c.rules, c.repos, {}, a)
    BY DEF CommandIn
  <2> QED
    BY <1>2, <2>1, MergeIsReviewed DEF Written
<1> QED
  BY <1>1, <1>2 DEF CommandIn

(* One shell's step, the others' commands as they are.                         *)
LEMMA OneShellMoves ==
  ASSUME ProfileInv, NEW s \in Shells, NEW c, shell' = [shell EXCEPT ![s] = c],
         approved \subseteq approved', CommandIn(c, approved'),
         profile' # NoProfile => ReviewedIn(profile', approved')
  PROVE  ProfileInv'
<1>1. DOMAIN shell' = Shells /\ shell' = [t \in Shells |-> shell'[t]]
  BY DEF ProfileInv
<1>2. ASSUME NEW t \in Shells PROVE CommandIn(shell'[t], approved')
  <2>1. CASE t = s
    BY <2>1 DEF ProfileInv
  <2>2. CASE t # s
    <3>1. shell'[t] = shell[t] /\ CommandIn(shell[t], approved)
      BY <2>2 DEF ProfileInv
    <3> QED
      BY <3>1, CommandGrows
  <2> QED
    BY <2>1, <2>2
<1> QED
  BY <1>1, <1>2 DEF ProfileInv

LEMMA StartHolds ==
  ASSUME ProfileInv, NEW s \in Shells, NEW command, NEW repos, Start(s, command, repos), UNCHANGED <<profile, approved>>,
         command = "init" \/ (command = "update" /\ profile # NoProfile)
  PROVE  ProfileInv'
<1>1. PICK features \in Analyzed :
        LET rules == ProfileFromAggregation(features, repos)
        IN shell' = [shell EXCEPT ![s] =
             [command |-> command, stage |-> "review", repos |-> repos, existing |-> profile, rules |-> rules, left |-> DOMAIN rules]]
  BY DEF Start
<1> DEFINE rules == ProfileFromAggregation(features, repos)
           c == [command |-> command, stage |-> "review", repos |-> repos, existing |-> profile, rules |-> rules, left |-> DOMAIN rules]
<1>2. shell' = [shell EXCEPT ![s] = c]
  BY <1>1
<1>3. FreshIn(rules, repos, DOMAIN rules, approved)
  BY AggregationIsFresh
<1>4. CommandIn(c, approved)
  <2> HIDE DEF rules
  <2> QED
    BY <1>3 DEF CommandIn, ProfileInv
<1> QED
  <2> HIDE DEF c
  <2> QED
    BY <1>2, <1>4, OneShellMoves DEF ProfileInv

LEMMA ReviewHolds ==
  ASSUME ProfileInv, NEW s \in Shells, ReviewRule(s)
  PROVE  ProfileInv'
<1> DEFINE c == shell[s]
<1>0. /\ c.stage = "review" /\ CommandIn(c, approved)
      /\ c.command = "init" \/ (c.command = "update" /\ ReviewedIn(c.existing, approved))
      /\ FreshIn(c.rules, c.repos, c.left, approved)
  BY DEF ProfileInv, CommandIn, ReviewRule
<1>1. ASSUME NEW d, shell' = [shell EXCEPT ![s] = d], DOMAIN d = DOMAIN c,
             d.command = c.command, d.repos = c.repos, d.existing = c.existing,
             approved \subseteq approved', FreshIn(d.rules, d.repos, d.left, approved')
      PROVE  ProfileInv'
  <2>1. CommandIn(d, approved')
    BY <1>0, <1>1, ReviewedGrows DEF CommandIn
  <2>2. profile' # NoProfile => ReviewedIn(profile', approved')
    BY <1>1, ReviewedGrows DEF ReviewRule, ProfileInv
  <2> QED
    BY <1>1, <2>1, <2>2, OneShellMoves
<1>2. PICK key \in c.left :
       LET rule == c.rules[key]
       IN \/ /\ shell' = [shell EXCEPT ![s].left = @ \ {key}]
             /\ approved' = approved \cup {<<key, rule>>}
          \/ /\ shell' = [shell EXCEPT ![s].left = @ \ {key}, ![s].rules = Restrict(@, DOMAIN @ \ {key})]
             /\ UNCHANGED approved
          \/ \E typed \in Adjusted :
               LET adjusted == [rule EXCEPT !.convention = typed.convention, !.confidence = typed.confidence]
               IN /\ shell' = [shell EXCEPT ![s].left = @ \ {key}, ![s].rules[key] = adjusted]
                  /\ approved' = approved \cup {<<key, adjusted>>}
  BY DEF ReviewRule
<1>3. CASE /\ shell' = [shell EXCEPT ![s].left = @ \ {key}]
           /\ approved' = approved \cup {<<key, c.rules[key]>>}
  <2> DEFINE d == [c EXCEPT !.left = @ \ {key}]
  <2>1. shell' = [shell EXCEPT ![s] = d]
    BY <1>3 DEF ProfileInv
  <2>2. /\ DOMAIN d = DOMAIN c /\ d.command = c.command /\ d.repos = c.repos /\ d.existing = c.existing
        /\ d.rules = c.rules /\ d.left = c.left \ {key}
    BY <1>0 DEF CommandIn
  <2>3. FreshIn(d.rules, d.repos, d.left, approved')
    <3> HIDE DEF c, d
    <3> QED
      BY <1>0, <1>3, <2>2 DEF FreshIn
  <2> HIDE DEF d
  <2> QED
    BY <1>1, <1>3, <2>1, <2>2, <2>3
<1>4. CASE /\ shell' = [shell EXCEPT ![s].left = @ \ {key}, ![s].rules = Restrict(@, DOMAIN @ \ {key})]
           /\ UNCHANGED approved
  <2> DEFINE d == [c EXCEPT !.left = @ \ {key}, !.rules = Restrict(@, DOMAIN @ \ {key})]
  <2>1. shell' = [shell EXCEPT ![s] = d]
    BY <1>4 DEF ProfileInv
  <2>2. /\ DOMAIN d = DOMAIN c /\ d.command = c.command /\ d.repos = c.repos /\ d.existing = c.existing
        /\ d.rules = Restrict(c.rules, DOMAIN c.rules \ {key}) /\ d.left = c.left \ {key}
    BY <1>0 DEF CommandIn
  <2>3. FreshIn(d.rules, d.repos, d.left, approved')
    <3> HIDE DEF c, d
    <3> QED
      BY <1>0, <1>4, <2>2 DEF FreshIn, Restrict
  <2> HIDE DEF d
  <2> QED
    BY <1>1, <1>4, <2>1, <2>2, <2>3
<1>5. ASSUME NEW typed \in Adjusted,
             shell' = [shell EXCEPT ![s].left = @ \ {key},
                         ![s].rules[key] = [c.rules[key] EXCEPT !.convention = typed.convention, !.confidence = typed.confidence]],
             approved' = approved \cup
               {<<key, [c.rules[key] EXCEPT !.convention = typed.convention, !.confidence = typed.confidence]>>}
      PROVE  ProfileInv'
  <2> DEFINE adjusted == [c.rules[key] EXCEPT !.convention = typed.convention, !.confidence = typed.confidence]
             d == [c EXCEPT !.left = @ \ {key}, !.rules[key] = adjusted]
  <2>1. shell' = [shell EXCEPT ![s] = d]
    BY <1>5 DEF ProfileInv
  <2>2. /\ DOMAIN d = DOMAIN c /\ d.command = c.command /\ d.repos = c.repos /\ d.existing = c.existing
        /\ d.rules = [c.rules EXCEPT ![key] = adjusted] /\ d.left = c.left \ {key}
    BY <1>0 DEF CommandIn
  <2>3. key \in DOMAIN c.rules => DOMAIN adjusted = {"convention", "confidence", "of"} /\ adjusted.of = c.repos
    BY <1>0 DEF FreshIn
  <2>4. approved' = approved \cup {<<key, adjusted>>}
    BY <1>5
  <2>5. FreshIn(d.rules, d.repos, d.left, approved')
    <3> HIDE DEF c, d, adjusted
    <3> SUFFICES ASSUME NEW k \in DOMAIN c.rules
                 PROVE  /\ DOMAIN d.rules[k] = {"convention", "confidence", "of"} /\ d.rules[k].of = d.repos
                        /\ k \notin d.left => <<k, d.rules[k]>> \in approved'
      BY <2>2 DEF FreshIn
    <3>1. CASE k = key
      BY <2>2, <2>3, <2>4, <3>1
    <3>2. CASE k # key
      BY <1>0, <2>2, <2>4, <3>2 DEF FreshIn
    <3> QED
      BY <3>1, <3>2
  <2>6. approved \subseteq approved'
    BY <2>4
  <2> HIDE DEF d
  <2> QED
    BY <1>1, <2>1, <2>2, <2>5, <2>6
<1> QED
  BY <1>2, <1>3, <1>4, <1>5

LEMMA ProfileInitial == ProfileInit => ProfileInv
BY EarlierAssumption, RestingHolds DEF ProfileInit, ProfileInv, ReviewedIn

LEMMA ProfileInductive == ProfileInv /\ [ProfileNext]_profileVars => ProfileInv'
<1> SUFFICES ASSUME ProfileInv, [ProfileNext]_profileVars PROVE ProfileInv'
  OBVIOUS
<1>1. CASE Override
  BY <1>1 DEF Override, ProfileInv, ReviewedIn
<1>2. ASSUME NEW s \in Shells, StartInit(s) PROVE ProfileInv'
  BY <1>2, StartHolds DEF StartInit
<1>3. ASSUME NEW s \in Shells, StartUpdate(s) PROVE ProfileInv'
  BY <1>3, StartHolds DEF StartUpdate
<1>4. ASSUME NEW s \in Shells, ReviewRule(s) PROVE ProfileInv'
  BY <1>4, ReviewHolds
<1>5. ASSUME NEW s \in Shells, WriteProfile(s) PROVE ProfileInv'
  <2>1. ReviewedIn(profile', approved')
    BY <1>5, WrittenIsReviewed DEF WriteProfile, ProfileInv
  <2> QED
    BY <1>5, <2>1, RestingHolds, OneShellMoves DEF WriteProfile
<1>6. ASSUME NEW s \in Shells, Abort(s) PROVE ProfileInv'
  BY <1>6, RestingHolds, OneShellMoves DEF Abort, ProfileInv
<1>7. CASE UNCHANGED profileVars
  BY <1>7 DEF profileVars, ProfileInv
<1> QED
  BY <1>1, <1>2, <1>3, <1>4, <1>5, <1>6, <1>7 DEF ProfileNext

(* Whatever commands overlap, every stored rule is one the user let pass or    *)
(* typed, measured in repositories among the profile's sources (init.ts,       *)
(* update.ts, interactive/review.ts).                                          *)
THEOREM RulesAreReviewed == ProfileSpec => []ProfileIsReviewed
<1>1. ProfileInv => ProfileIsReviewed
  BY DEF ProfileInv, ReviewedIn, ProfileIsReviewed
<1> QED
  BY ProfileInitial, ProfileInductive, <1>1, PTL DEF ProfileSpec

(* Merged, a profile keeps every rule or has a more certain one, has the fresh *)
(* rules' keys, and keeps the overrides.                                       *)
LEMMA MergeOnlyAdds ==
  ASSUME NEW p, NEW rules, NEW repos, DOMAIN p = {"sources", "rules", "overrides"},
         NEW q, q = MergeProfiles(p, [sources |-> repos, rules |-> rules])
  PROVE  /\ \A d \in CompareProfiles(p, q) :
              d.type = "added" \/ (d.type = "changed" /\ q.rules[d.key].confidence > p.rules[d.key].confidence)
         /\ q.overrides = p.overrides
         /\ DOMAIN rules \subseteq DOMAIN q.rules
<1>1. q.rules = MergeCategory(p.rules, rules) /\ q.overrides = p.overrides
  BY DEF MergeProfiles
<1>2. DOMAIN q.rules = DOMAIN p.rules \cup DOMAIN rules
  BY <1>1 DEF MergeCategory
<1>3. ASSUME NEW key \in DOMAIN p.rules, q.rules[key] # p.rules[key]
      PROVE  q.rules[key].confidence > p.rules[key].confidence
  BY <1>1, <1>3 DEF MergeCategory
<1>4. ASSUME NEW d \in CompareProfiles(p, q)
      PROVE  d.type = "added" \/ (d.type = "changed" /\ q.rules[d.key].confidence > p.rules[d.key].confidence)
  BY <1>2, <1>3 DEF CompareProfiles
<1> QED
  BY <1>1, <1>2, <1>4

(* An update whose review is over: no rule it has read goes but for a more     *)
(* certain one, and no override, whatever other commands and the user wrote    *)
(* meanwhile (update.ts).                                                      *)
THEOREM UpdatesOnlyAdd == ProfileSpec => UpdateOnlyAdds
<1> DEFINE Adds ==
      \A s \in Shells :
        shell[s].command = "update" /\ shell'[s] = Resting /\ profile' # profile =>
          LET read == shell[s].existing
          IN /\ \A d \in CompareProfiles(read, profile') :
                  d.type = "added" \/ (d.type = "changed" /\ profile'.rules[d.key].confidence > read.rules[d.key].confidence)
             /\ read.overrides \subseteq profile'.overrides
             /\ \A key \in DOMAIN shell[s].rules : key \in DOMAIN profile'.rules
<1>1. ASSUME ProfileInv, [ProfileNext]_profileVars PROVE Adds
  <2> SUFFICES ASSUME NEW s \in Shells, shell[s].command = "update", shell'[s] = Resting, profile' # profile
               PROVE  LET read == shell[s].existing
                      IN /\ \A d \in CompareProfiles(read, profile') :
                              \/ d.type = "added"
                              \/ d.type = "changed" /\ profile'.rules[d.key].confidence > read.rules[d.key].confidence
                         /\ read.overrides \subseteq profile'.overrides
                         /\ \A key \in DOMAIN shell[s].rules : key \in DOMAIN profile'.rules
    OBVIOUS
  <2>1. shell'[s] # shell[s]
    BY DEF Resting
  <2>2. PICK t \in Shells : WriteProfile(t)
    BY <1>1, <2>1 DEF ProfileNext, profileVars, Override, StartInit, StartUpdate, ReviewRule, Abort
  <2>3. t = s
    BY <1>1, <2>1, <2>2 DEF WriteProfile, ProfileInv
  <2>4. profile' = MergeProfiles(shell[s].existing, [sources |-> shell[s].repos, rules |-> shell[s].rules])
    BY <2>2, <2>3 DEF WriteProfile, Written
  <2>5. DOMAIN shell[s].existing = {"sources", "rules", "overrides"}
    BY <1>1, <2>2, <2>3 DEF WriteProfile, ProfileInv, CommandIn, ReviewedIn
  <2>6. PICK read, rules, repos : read = shell[s].existing /\ rules = shell[s].rules /\ repos = shell[s].repos
    OBVIOUS
  <2>7. PICK q : q = MergeProfiles(read, [sources |-> repos, rules |-> rules])
    OBVIOUS
  <2>8. DOMAIN read = {"sources", "rules", "overrides"}
    BY <2>5, <2>6
  <2>9. /\ \A d \in CompareProfiles(read, q) :
             d.type = "added" \/ (d.type = "changed" /\ q.rules[d.key].confidence > read.rules[d.key].confidence)
        /\ q.overrides = read.overrides
        /\ DOMAIN rules \subseteq DOMAIN q.rules
    BY <2>7, <2>8, MergeOnlyAdds
  <2> QED
    BY <2>4, <2>6, <2>7, <2>9
<1> QED
  BY ProfileInitial, ProfileInductive, <1>1, PTL DEF ProfileSpec, UpdateOnlyAdds

(* -------------------------------------------------------------------------- *)
(* For any baked pages and whatever is clicked or typed, in any order: the     *)
(* page follows the view it shows.  PageInv says which view that is, at every  *)
(* moment, and that chips, filters and marks are of its elements.              *)
Groups    == {"node", "edge", "status", "role"}
MarkNames == {"faded", "highlight", "fanout", "fanin"}

Switched ==
  /\ page \in Pages /\ picker \in page.visible
  /\ shown = Picked(page, picker, barrels)
ChipsTyped ==
  /\ chips = [c \in DOMAIN chips |-> chips[c]]
  /\ \A c \in DOMAIN chips : c = <<c[1], c[2]>> /\ c[1] \in Groups \cup {"rule"}
FiltersTyped == hidden = [group \in Groups |-> hidden[group]]
MarksTyped == /\ DOMAIN marks = MarkNames
              /\ \A m \in MarkNames : marks[m] \subseteq Elements

PageInv == Switched /\ ChipsTyped /\ FiltersTyped /\ MarksTyped /\ PageTellsTheView

LEMMA NoFiltersIs ==
  NoFilters = [group \in Groups |-> {}] /\ DOMAIN NoFilters = Groups
BY DEF NoFilters, Groups

LEMMA NoMarksIs ==
  DOMAIN NoMarks = MarkNames /\ \A m \in MarkNames : NoMarks[m] = {}
BY DEF NoMarks, MarkNames

LEMMA HighlightedIs ==
  ASSUME NEW id
  PROVE  /\ DOMAIN Highlighted(id) = MarkNames
         /\ \A m \in MarkNames : Highlighted(id)[m] \subseteq Elements
<1>1. Outgoers(id) \subseteq Elements /\ Incomers(id) \subseteq Elements
  BY DEF Outgoers, Incomers, Elements, EdgeEls
<1>2. Neighbourhood(id) \cap NodeEls \subseteq Elements
  BY DEF Elements
<1> QED
  BY <1>1, <1>2 DEF Highlighted, MarkNames

(* The view that is picked is one of the page's.                               *)
LEMMA PickedIsBaked ==
  ASSUME NEW p \in Pages, NEW id \in p.visible, NEW through
  PROVE  Picked(p, id, through) \in DOMAIN p.views
BY PagesAssumption DEF IsBaked, Picked

(* The chips of a view name a group each.                                      *)
LEMMA RegenChipsTyped ==
  ASSUME NEW v, NEW c \in RegenChips(v)
  PROVE  c = <<c[1], c[2]>> /\ c[1] \in Groups
BY DEF RegenChips, Groups

(* Without filters every chip is on and nothing is dimmed.                     *)
LEMMA FreshFilters ==
  ASSUME NEW S, chips = [c \in S |-> TRUE], hidden = NoFilters, onlyRule = NoRule, dim = {},
         \A c \in S : c = <<c[1], c[2]>> /\ c[1] \in Groups \cup {"rule"}
  PROVE  ChipsTyped /\ FiltersTyped /\ FiltersCanBeUndone
<1>1. ChipsTyped
  BY DEF ChipsTyped
<1>2. FiltersTyped /\ \A group \in Groups : hidden[group] = {}
  BY NoFiltersIs DEF FiltersTyped
<1>3. \A n \in nodes : ~HiddenNode(n, hidden, onlyRule)
  BY <1>2 DEF HiddenNode, Groups
<1>4. \A e \in edges : ~HiddenEdge(e, hidden)
  BY <1>2 DEF HiddenEdge, Groups
<1>5. dim = ApplyKindVisibility(hidden, onlyRule)
  BY <1>3, <1>4 DEF ApplyKindVisibility
<1> QED
  BY <1>1, <1>2, <1>5, NoFiltersIs DEF FiltersCanBeUndone

LEMMA NoMarksTyped ==
  ASSUME marks = NoMarks
  PROVE  MarksTyped
BY NoMarksIs DEF MarksTyped

LEMMA TogglesAreMulti ==
  ASSUME NEW p \in Pages, HasBarrelToggle(p)
  PROVE  p.multi
<1> SUFFICES ASSUME ~p.multi PROVE FALSE
  OBVIOUS
<1>1. DOMAIN p.views = {<<"only", "base">>}
  BY PagesAssumption DEF IsBaked, Base
<1>2. PICK v \in DOMAIN p.views : v[2] = "resolved"
  BY DEF HasBarrelToggle
<1> QED
  BY <1>1, <1>2

LEMMA PageInitial == PageInit => PageInv
<1> SUFFICES ASSUME PageInit PROVE PageInv
  OBVIOUS
<1>1. Switched /\ shown \in DOMAIN page.views
  BY PickedIsBaked, PagesAssumption DEF PageInit, Switched, IsBaked
<1>2. PICK S : chips = [c \in S |-> TRUE] /\ (S = RegenChips(view) \/ S = view.chips)
  BY DEF PageInit
<1>3. \A c \in S : c = <<c[1], c[2]>> /\ c[1] \in Groups \cup {"rule"}
  BY <1>1, <1>2, RegenChipsTyped, PagesAssumption, NoFiltersIs DEF IsBaked, Switched, view
<1>4. ChipsTyped /\ FiltersTyped /\ FiltersCanBeUndone
  BY <1>2, <1>3, FreshFilters DEF PageInit
<1>5. MarksTyped /\ UNION {marks[m] : m \in DOMAIN marks} \subseteq Elements
  BY NoMarksTyped, NoMarksIs DEF PageInit
<1>6. view.routed <=> mode = "elk-preset"
  <2>1. view.routed <=> LayoutMode(view, view.elkCompound) = "elk-preset"
    BY <1>1, PagesAssumption DEF IsBaked, Switched, view
  <2>2. CASE barrels
    <3>1. page.multi
      BY <1>1, <2>2, TogglesAreMulti DEF PageInit, Switched
    <3>2. ~view.elkCompound
      BY <1>1, <3>1, PagesAssumption DEF IsBaked, Switched, view
    <3> QED
      BY <2>1, <2>2, <3>2 DEF PageInit, LayoutMode
  <2>3. CASE ~barrels
    BY <2>1, <2>3 DEF PageInit, LayoutMode
  <2> QED
    BY <2>2, <2>3
<1>7. PageFollowsView
  BY <1>1, <1>5, <1>6 DEF PageFollowsView, PageInit
<1> QED
  BY <1>1, <1>4, <1>5, <1>7 DEF PageInv, PageTellsTheView

(* Another view, or the same anew: nothing is left of the one before.          *)
LEMMA SwitchHolds ==
  ASSUME PageInv, page' = page, picker' \in page.visible, page.multi,
         SwitchView(Picked(page, picker', barrels'))
  PROVE  PageInv'
<1> DEFINE v == Picked(page, picker', barrels')
           w == page.views[v]
<1>1. page \in Pages /\ v \in DOMAIN page.views /\ shown' = v
  BY PickedIsBaked DEF PageInv, Switched, SwitchView
<1> HIDE DEF v
<1>2. Switched' /\ view' = w
  BY <1>1 DEF Switched, view, v
<1>3. (w.routed <=> LayoutMode(w, w.elkCompound) = "elk-preset") /\ ~w.elkCompound
  BY <1>1, PagesAssumption DEF IsBaked
<1>4. mode' = LayoutMode(w, FALSE)
  BY <1>1 DEF SwitchView, v
<1>5. view'.routed <=> mode' = "elk-preset"
  BY <1>2, <1>3, <1>4 DEF LayoutMode
<1>6. chips' = [c \in RegenChips(w) |-> TRUE] /\ hidden' = NoFilters /\ onlyRule' = NoRule /\ dim' = {}
  BY DEF SwitchView, ResetFilters, v
<1>7. \A c \in RegenChips(w) : c = <<c[1], c[2]>> /\ c[1] \in Groups \cup {"rule"}
  BY RegenChipsTyped
<1>8. (ChipsTyped /\ FiltersTyped /\ FiltersCanBeUndone)'
  <2>1. ChipsTyped'
    BY <1>6, <1>7 DEF ChipsTyped
  <2>2. FiltersTyped' /\ \A group \in Groups : hidden'[group] = {}
    BY <1>6, NoFiltersIs DEF FiltersTyped
  <2>3. \A n \in nodes' : ~HiddenNode(n, hidden', onlyRule')
    BY <1>6, <2>2 DEF HiddenNode, Groups
  <2>4. \A e \in edges' : ~HiddenEdge(e, hidden')
    BY <2>2 DEF HiddenEdge, Groups
  <2>5. dim' = ApplyKindVisibility(hidden, onlyRule)'
    BY <1>6, <2>3, <2>4 DEF ApplyKindVisibility, HiddenNode, HiddenEdge
  <2> QED
    BY <1>6, <1>7, <2>1, <2>2, <2>5, NoFiltersIs DEF FiltersCanBeUndone
<1>9. marks' = NoMarks /\ selected' = NoSelection /\ panel' = NoSelection /\ query' = NoSearch
  BY DEF SwitchView, ClearHighlights, ShowEmpty
<1>10. MarksTyped' /\ (UNION {marks[m] : m \in DOMAIN marks} \subseteq Elements)'
  BY <1>9, NoMarksIs DEF MarksTyped
<1>11. PageFollowsView'
  BY <1>1, <1>2, <1>5, <1>9, <1>10 DEF PageFollowsView, v
<1> QED
  BY <1>2, <1>8, <1>10, <1>11 DEF PageInv, PageTellsTheView

(* The page keeps its view.                                                    *)
Stays == UNCHANGED <<page, shown, picker, barrels, mode>>

LEMMA ViewStays ==
  ASSUME Stays
  PROVE  /\ view' = view /\ nodes' = nodes /\ edges' = edges
         /\ NodeEls' = NodeEls /\ EdgeEls' = EdgeEls /\ Elements' = Elements
BY DEF Stays, view, nodes, edges, NodeEls, EdgeEls, Elements

(* A click that leaves the filters alone.                                      *)
LEMMA ClickHolds ==
  ASSUME PageInv, Stays, UNCHANGED <<chips, hidden, onlyRule, dim>>,
         MarksTyped',
         panel' # NoSelection => NodeEl(panel') \in NodeEls,
         selected' # NoSelection => selected' = panel',
         panel' = NoSelection /\ query' = NoSearch => marks' = NoMarks
  PROVE  PageInv'
<1>1. (Switched /\ ChipsTyped /\ FiltersTyped)'
  BY DEF PageInv, Switched, ChipsTyped, FiltersTyped, Stays
<1>2. FiltersCanBeUndone'
  BY ViewStays DEF PageInv, PageTellsTheView, FiltersCanBeUndone, ApplyKindVisibility, HiddenNode, HiddenEdge
<1>3. (UNION {marks[m] : m \in DOMAIN marks} \subseteq Elements)'
  BY DEF MarksTyped
<1>4. PageFollowsView'
  BY <1>3, ViewStays DEF PageInv, PageTellsTheView, PageFollowsView, Stays
<1> QED
  BY <1>1, <1>2, <1>4 DEF PageInv, PageTellsTheView

(* A chip takes its own filter in or out.                                      *)
LEMMA ChipHolds ==
  ASSUME PageInv, ClickChip
  PROVE  PageInv'
<1>1. PICK c \in DOMAIN chips :
       IF c[1] = "rule"
       THEN /\ onlyRule' = IF onlyRule = c[2] THEN NoRule ELSE c[2]
            /\ chips' = [d \in DOMAIN chips |->
                           IF d[1] = "rule" THEN onlyRule' = NoRule \/ d = c ELSE chips[d]]
            /\ UNCHANGED hidden
       ELSE /\ hidden' = [hidden EXCEPT ![c[1]] = IF c[2] \in @ THEN @ \ {c[2]} ELSE @ \cup {c[2]}]
            /\ chips' = [chips EXCEPT ![c] = c[2] \in hidden[c[1]]]
            /\ UNCHANGED onlyRule
  BY DEF ClickChip
<1>2. Stays /\ dim' = ApplyKindVisibility(hidden', onlyRule') /\ UNCHANGED <<marks, selected, panel, query>>
  BY DEF ClickChip, Stays
<1>3. ChipsTyped /\ FiltersTyped /\ FiltersCanBeUndone
  BY DEF PageInv, PageTellsTheView
<1>4. DOMAIN chips' = DOMAIN chips /\ ChipsTyped' /\ FiltersTyped'
  <2>1. DOMAIN chips' = DOMAIN chips /\ chips' = [d \in DOMAIN chips |-> chips'[d]]
    BY <1>1, <1>3 DEF ChipsTyped
  <2>2. hidden' = [group \in Groups |-> hidden'[group]]
    BY <1>1, <1>3 DEF FiltersTyped
  <2> QED
    BY <1>3, <2>1, <2>2 DEF ChipsTyped, FiltersTyped
<1>5. /\ \A group \in Groups : \A x \in hidden'[group] : <<group, x>> \in DOMAIN chips
      /\ onlyRule' # NoRule => <<"rule", onlyRule'>> \in DOMAIN chips
      /\ \A d \in DOMAIN chips :
           chips'[d] <=> IF d[1] = "rule" THEN onlyRule' \in {NoRule, d[2]} ELSE d[2] \notin hidden'[d[1]]
  <2>1. /\ \A group \in Groups : \A x \in hidden[group] : <<group, x>> \in DOMAIN chips
        /\ onlyRule # NoRule => <<"rule", onlyRule>> \in DOMAIN chips
        /\ \A d \in DOMAIN chips :
             chips[d] <=> IF d[1] = "rule" THEN onlyRule \in {NoRule, d[2]} ELSE d[2] \notin hidden[d[1]]
        /\ \A d \in DOMAIN chips : d = <<d[1], d[2]>> /\ d[1] \in Groups \cup {"rule"}
        /\ "rule" \notin Groups
        /\ DOMAIN hidden = Groups
    BY <1>3 DEF ChipsTyped, FiltersTyped, FiltersCanBeUndone, Groups
  <2>2. CASE c[1] = "rule"
    <3>1. hidden' = hidden /\ \A d \in DOMAIN chips :
            chips'[d] = IF d[1] = "rule" THEN onlyRule' = NoRule \/ d = c ELSE chips[d]
      BY <1>1, <2>2
    <3>2. onlyRule' = NoRule \/ onlyRule' = c[2]
      BY <1>1, <2>2
    <3>3. c = <<"rule", c[2]>>
      BY <2>1, <2>2
    <3>4. ASSUME NEW d \in DOMAIN chips, d[1] = "rule"
          PROVE  chips'[d] <=> onlyRule' \in {NoRule, d[2]}
      <4>1. d = <<"rule", d[2]>>
        BY <2>1, <3>4
      <4> QED
        BY <3>1, <3>2, <3>3, <3>4, <4>1
    <3> QED
      BY <2>1, <3>1, <3>2, <3>3, <3>4
  <2>3. CASE c[1] # "rule"
    <3>1. c[1] \in Groups /\ c = <<c[1], c[2]>> /\ onlyRule' = onlyRule
      BY <1>1, <2>1, <2>3
    <3>2. /\ hidden'[c[1]] = IF c[2] \in hidden[c[1]] THEN hidden[c[1]] \ {c[2]} ELSE hidden[c[1]] \cup {c[2]}
          /\ \A group \in Groups : group # c[1] => hidden'[group] = hidden[group]
      BY <1>1, <2>1, <2>3, <3>1
    <3>3. /\ chips'[c] = (c[2] \in hidden[c[1]])
          /\ \A d \in DOMAIN chips : d # c => chips'[d] = chips[d]
      BY <1>1, <2>3
    <3>4. ASSUME NEW group \in Groups, NEW x \in hidden'[group] PROVE <<group, x>> \in DOMAIN chips
      <4>1. CASE group = c[1] /\ x = c[2]
        BY <3>1, <4>1
      <4>2. CASE ~(group = c[1] /\ x = c[2])
        BY <2>1, <3>2, <4>2
      <4> QED
        BY <4>1, <4>2
    <3>5. ASSUME NEW d \in DOMAIN chips, d[1] # "rule" PROVE chips'[d] <=> d[2] \notin hidden'[d[1]]
      <4>1. CASE d = c
        BY <3>2, <3>3, <4>1
      <4>2. CASE d # c
        <5>1. d[1] \in Groups /\ (d[1] # c[1] \/ d[2] # c[2])
          BY <2>1, <3>1, <3>5, <4>2
        <5>2. d[2] \in hidden'[d[1]] <=> d[2] \in hidden[d[1]]
          BY <3>2, <5>1
        <5> QED
          BY <2>1, <3>3, <3>5, <4>2, <5>2
      <4> QED
        BY <4>1, <4>2
    <3>6. ASSUME NEW d \in DOMAIN chips, d[1] = "rule" PROVE chips'[d] <=> onlyRule' \in {NoRule, d[2]}
      BY <2>1, <2>3, <3>1, <3>3, <3>6
    <3> QED
      BY <2>1, <3>1, <3>4, <3>5, <3>6
  <2> QED
    BY <2>2, <2>3
<1>7. FiltersCanBeUndone'
  <2>1. dim' = ApplyKindVisibility(hidden, onlyRule)'
    BY <1>2, ViewStays DEF ApplyKindVisibility, HiddenNode, HiddenEdge
  <2>2. DOMAIN hidden' = Groups
    BY <1>4 DEF FiltersTyped
  <2> QED
    BY <1>4, <1>5, <2>1, <2>2 DEF FiltersCanBeUndone
<1>8. (Switched /\ MarksTyped)'
  BY <1>2, ViewStays DEF PageInv, Switched, MarksTyped, Stays
<1>9. PageFollowsView'
  BY <1>2, ViewStays DEF PageInv, PageTellsTheView, PageFollowsView, Stays
<1> QED
  BY <1>4, <1>7, <1>8, <1>9 DEF PageInv, PageTellsTheView

LEMMA PageSteps == PageInv /\ [PageNext]_pageVars => PageInv'
<1> SUFFICES ASSUME PageInv, [PageNext]_pageVars PROVE PageInv'
  OBVIOUS
<1>1. /\ page \in Pages /\ MarksTyped
      /\ panel # NoSelection => NodeEl(panel) \in NodeEls
      /\ selected # NoSelection => selected = panel
      /\ panel = NoSelection /\ query = NoSearch => marks = NoMarks
  BY DEF PageInv, Switched, PageTellsTheView, PageFollowsView
<1>2. \A n \in nodes : n.id # NoSelection /\ NodeEl(n.id) \in NodeEls
  <2>1. shown \in DOMAIN page.views
    BY PickedIsBaked DEF PageInv, Switched
  <2> QED
    BY <1>1, <2>1, PagesAssumption DEF IsBaked, nodes, view, NodeEls, Ids
<1>3. CASE PickView
  <2>1. page' = page /\ barrels' = barrels /\ page.multi
    BY <1>3 DEF PickView, HasPicker
  <2> QED
    BY <1>3, <2>1, SwitchHolds DEF PickView
<1>4. CASE ToggleBarrels
  <2>1. page.multi
    BY <1>1, <1>4, TogglesAreMulti DEF ToggleBarrels
  <2>2. picker' \in page.visible /\ page' = page
    BY <1>4 DEF ToggleBarrels, PageInv, Switched
  <2> QED
    BY <1>4, <2>1, <2>2, SwitchHolds DEF ToggleBarrels
<1>5. ASSUME NEW n \in nodes, selected' = n.id, panel' = n.id, marks' = Highlighted(n.id),
             Stays, UNCHANGED <<chips, hidden, onlyRule, dim>>
      PROVE  PageInv'
  <2>1. MarksTyped'
    BY <1>5, HighlightedIs, ViewStays DEF MarksTyped
  <2> QED
    BY <1>2, <1>5, <2>1, ClickHolds
<1>6. CASE TapNode
  BY <1>5, <1>6 DEF TapNode, Stays
<1>7. CASE SelectNodeById
  BY <1>5, <1>7 DEF SelectNodeById, Stays
<1>8. CASE TapEdge
  <2>1. Stays /\ UNCHANGED <<chips, hidden, onlyRule, dim, marks, panel, query>> /\ selected' = NoSelection
    BY <1>8 DEF TapEdge, Stays
  <2>2. MarksTyped'
    BY <1>1, <2>1, ViewStays DEF MarksTyped
  <2> QED
    BY <1>1, <2>1, <2>2, ClickHolds
<1>9. CASE TapBackground \/ FitToViewport
  <2>1. /\ Stays /\ UNCHANGED <<chips, hidden, onlyRule, dim>>
        /\ selected' = NoSelection /\ panel' = NoSelection /\ marks' = NoMarks
    BY <1>9 DEF TapBackground, FitToViewport, ClearHighlights, ShowEmpty, Stays
  <2>2. MarksTyped'
    BY <2>1, NoMarksIs DEF MarksTyped
  <2> QED
    BY <2>1, <2>2, ClickHolds
<1>10. CASE ShowNeighbors
  <2>1. /\ Stays /\ UNCHANGED <<chips, hidden, onlyRule, dim, selected, panel, query>>
        /\ panel # NoSelection
    BY <1>10 DEF ShowNeighbors, Stays
  <2>2. MarksTyped'
    BY <1>1, <1>10, <2>1, HighlightedIs, ViewStays DEF ShowNeighbors, MarksTyped
  <2> QED
    BY <1>1, <2>1, <2>2, ClickHolds
<1>11. CASE Search
  <2>1. Stays /\ UNCHANGED <<chips, hidden, onlyRule, dim, selected, panel>>
    BY <1>11 DEF Search, Stays
  <2>2. PICK q \in Queries \cup {NoSearch} :
          /\ query' = q
          /\ marks' = IF q = NoSearch THEN NoMarks
                      ELSE [marks EXCEPT !.faded = {NodeEl(n.id) : n \in {m \in nodes : m.id \notin q}}
                                                   \cup EdgeEls]
    BY <1>11 DEF Search
  <2>3. {NodeEl(n.id) : n \in {m \in nodes : m.id \notin q}} \cup EdgeEls \subseteq Elements
    BY DEF Elements, NodeEls
  <2>4. MarksTyped'
    <3>1. CASE q = NoSearch
      BY <2>2, <3>1, NoMarksIs DEF MarksTyped
    <3>2. CASE q # NoSearch
      BY <1>1, <2>1, <2>2, <2>3, <3>2, ViewStays DEF MarksTyped
    <3> QED
      BY <3>1, <3>2
  <2>5. panel' = NoSelection /\ query' = NoSearch => marks' = NoMarks
    BY <2>2
  <2> QED
    BY <1>1, <2>1, <2>4, <2>5, ClickHolds
<1>12. CASE ClickChip
  BY <1>12, ChipHolds
<1>13. CASE UNCHANGED pageVars
  BY <1>13 DEF pageVars, PageInv, Switched, ChipsTyped, FiltersTyped, MarksTyped, PageTellsTheView,
       FiltersCanBeUndone, PageFollowsView, ApplyKindVisibility, HiddenNode, HiddenEdge, Elements,
       NodeEls, EdgeEls, nodes, edges, view
<1> QED
  BY <1>3, <1>4, <1>6, <1>7, <1>8, <1>9, <1>10, <1>11, <1>12, <1>13 DEF PageNext

(* The toolbar, the classes, the panel and the routes of a page are those of   *)
(* the view on screen, whatever views were opened before (template-script.ts,  *)
(* template-script-views.ts).                                                  *)
THEOREM PagesFollowTheirViews == PageSpec => []PageTellsTheView
<1>1. PageInv => PageTellsTheView
  BY DEF PageInv
<1> QED
  BY <1>1, PageInitial, PageSteps, PTL DEF PageSpec

(* -------------------------------------------------------------------------- *)
(* What the commands bake is a page as PagesAssumption has it, whatever the    *)
(* snapshots, as long as nothing is named as no selection or no box.           *)
NamesHold(g) ==
  \A n \in g.nodes :
    /\ NoSelection \notin {n.id, n.pkg, n.dir}
    /\ n.kind # "package" => PackageBox(n) # NoBox
    /\ \A nested \in BOOLEAN :
         {NoSelection, NoBox} \cap {GroupOf(n, nested)[i] : i \in DOMAIN GroupOf(n, nested)} = {}
OptionSet == [flat : BOOLEAN, compound : BOOLEAN, nested : BOOLEAN]

LEMMA PackagesHaveNone ==
  ASSUME NEW n, n.kind = "package", NEW nested \in BOOLEAN
  PROVE  GroupOf(n, nested) = <<>>
<1> DEFINE box == PackageBox(n)
           dir == "dir:" \o n.dir
<1>1. box = NoBox
  BY DEF PackageBox
<1>2. GroupOf(n, nested) = CASE box = NoBox -> <<>>
                             [] nested /\ n.kind = "file" /\ n.dir # n.root -> <<box, dir>>
                             [] OTHER -> <<box>>
  BY DEF GroupOf
<1> HIDE DEF box, dir
<1> QED
  BY <1>1, <1>2

(* A node has a box unless it is a package, which is one.                      *)
LEMMA BoxesAre ==
  ASSUME NEW g, NamesHold(g), NEW n \in g.nodes, NEW nested \in BOOLEAN
  PROVE  /\ n.kind = "package" => GroupOf(n, nested) = <<>>
         /\ Innermost(n, nested) = NoBox <=> n.kind = "package"
<1>1. CASE n.kind = "package"
  <2>1. GroupOf(n, nested) = <<>>
    BY <1>1, PackagesHaveNone
  <2> QED
    BY <1>1, <2>1 DEF Innermost
<1>2. CASE n.kind # "package"
  <2>1. PackageBox(n) # NoBox
    BY <1>2 DEF NamesHold
  <2>2. \/ GroupOf(n, nested) = <<PackageBox(n), "dir:" \o n.dir>>
        \/ GroupOf(n, nested) = <<PackageBox(n)>>
    <3> DEFINE box == PackageBox(n)
               dir == "dir:" \o n.dir
    <3>1. GroupOf(n, nested) = CASE box = NoBox -> <<>>
                                 [] nested /\ n.kind = "file" /\ n.dir # n.root -> <<box, dir>>
                                 [] OTHER -> <<box>>
      BY DEF GroupOf
    <3>2. box # NoBox
      BY <2>1
    <3> HIDE DEF box, dir
    <3>3. CASE nested /\ n.kind = "file" /\ n.dir # n.root
      <4>1. GroupOf(n, nested) = <<box, dir>>
        BY <3>1, <3>2, <3>3
      <4> QED
        BY <4>1 DEF box, dir
    <3>4. CASE ~(nested /\ n.kind = "file" /\ n.dir # n.root)
      <4>1. GroupOf(n, nested) = <<box>>
        BY <3>1, <3>2, <3>4
      <4> QED
        BY <4>1 DEF box
    <3> QED
      BY <3>3, <3>4
  <2>3. GroupOf(n, nested) # <<>> /\ Len(GroupOf(n, nested)) \in DOMAIN GroupOf(n, nested)
    BY <2>2
  <2>4. Innermost(n, nested) = GroupOf(n, nested)[Len(GroupOf(n, nested))]
    BY <2>3 DEF Innermost
  <2>5. Innermost(n, nested) # NoBox
    BY <2>3, <2>4 DEF NamesHold
  <2> QED
    BY <1>2, <2>5
<1> QED
  BY <1>1, <1>2

LEMMA DrawnIsBaked ==
  ASSUME NEW g, NamesHold(g), NEW status, NEW edgeStatus, NEW diffed, NEW violations,
         NEW opts \in OptionSet
  PROVE  LET w == Draw(g, status, edgeStatus, diffed, violations, opts)
         IN /\ NoSelection \notin Ids(w.els.nodes)
            /\ \A c \in w.chips : c = <<c[1], c[2]>> /\ c[1] \in DOMAIN NoFilters \cup {"rule"}
            /\ w.routed <=> LayoutMode(w, w.elkCompound) = "elk-preset"
            /\ w.elkCompound = opts.compound
<1> DEFINE w == Draw(g, status, edgeStatus, diffed, violations, opts)
           El(n) == [id |-> n.id, kind |-> n.kind, role |-> n.role, status |-> status[n.id],
                     rules |-> {v.rule : v \in {x \in violations : x.node = n.id}},
                     parent |-> IF opts.flat THEN NoBox ELSE Innermost(n, opts.nested)]
           own == {El(n) : n \in g.nodes}
           boxes == Boxes(g.nodes, opts.nested)
<1>1. /\ w.els.nodes = own \cup (IF opts.flat THEN {} ELSE boxes)
      /\ w.chips = ChipGroups(g, status, diffed, violations)
      /\ w.routed = ElkPresetCenters(g, opts) /\ w.elkCompound = opts.compound
  BY DEF Draw, BuildCyData
<1>2. opts.flat \in BOOLEAN /\ opts.compound \in BOOLEAN /\ opts.nested \in BOOLEAN
  BY DEF OptionSet
<1>3. ASSUME NEW b \in boxes
      PROVE  \E n \in g.nodes : \E i \in DOMAIN GroupOf(n, opts.nested) : b.id = GroupOf(n, opts.nested)[i]
  BY DEF Boxes
<1>4. NoSelection \notin Ids(w.els.nodes)
  <2>1. \A b \in boxes : b.id # NoSelection
    <3> HIDE DEF boxes
    <3> QED
      BY <1>2, <1>3 DEF NamesHold
  <2>2. \A m \in own : m.id # NoSelection
    BY DEF NamesHold
  <2> HIDE DEF own, boxes, w
  <2> QED
    BY <1>1, <2>1, <2>2 DEF Ids
<1>5. \A c \in w.chips : c = <<c[1], c[2]>> /\ c[1] \in DOMAIN NoFilters \cup {"rule"}
  <2>1. \A c \in ChipGroups(g, status, diffed, violations) :
          c = <<c[1], c[2]>> /\ c[1] \in Groups \cup {"rule"}
    BY DEF ChipGroups, Groups
  <2> QED
    BY <1>1, <2>1, NoFiltersIs
<1>6. w.els.nodes = {} <=> g.nodes = {}
  <2>1. own = {} <=> g.nodes = {}
    OBVIOUS
  <2>2. g.nodes = {} => boxes = {}
    BY DEF Boxes
  <2> HIDE DEF own, boxes, w
  <2> QED
    BY <1>1, <2>1, <2>2
<1>7. (\A m \in w.els.nodes : m.parent = NoBox) <=> (opts.flat \/ \A n \in g.nodes : n.kind = "package")
  <2>1. CASE opts.flat
    BY <1>1, <2>1
  <2>2. CASE ~opts.flat
    <3>1. (\A m \in own : m.parent = NoBox) <=> \A n \in g.nodes : n.kind = "package"
      <4>1. (\A m \in own : m.parent = NoBox) <=> \A n \in g.nodes : Innermost(n, opts.nested) = NoBox
        <5>1. \A n \in g.nodes : El(n).parent = Innermost(n, opts.nested)
          BY <2>2
        <5> HIDE DEF El
        <5> QED
          BY <5>1
      <4> HIDE DEF own
      <4> QED
        BY <1>2, <4>1, BoxesAre
    <3>2. (\A n \in g.nodes : n.kind = "package") => boxes = {}
      BY <1>2, BoxesAre DEF Boxes
    <3> HIDE DEF own, boxes, w
    <3> QED
      BY <1>1, <2>2, <3>1, <3>2
  <2> QED
    BY <2>1, <2>2
<1>8. w.routed <=> LayoutMode(w, w.elkCompound) = "elk-preset"
  <2>1. LayoutMode(w, w.elkCompound) = "elk-preset" <=>
          w.els.nodes # {} /\ ((\A m \in w.els.nodes : m.parent = NoBox) \/ w.elkCompound)
    BY DEF LayoutMode
  <2>2. w.routed <=> g.nodes # {} /\ (opts.flat \/ opts.compound \/ \A n \in g.nodes : n.kind = "package")
    BY <1>1 DEF ElkPresetCenters
  <2> HIDE DEF w
  <2> QED
    BY <1>1, <1>6, <1>7, <2>1, <2>2
<1> HIDE DEF w
<1>9. w.elkCompound = opts.compound
  BY <1>1
<1> QED
  BY <1>4, <1>5, <1>8, <1>9 DEF w

LEMMA PlainIsBaked ==
  ASSUME NEW g, NamesHold(g), NEW violations, NEW opts \in OptionSet
  PROVE  LET w == PlainView(g, violations, opts)
         IN /\ NoSelection \notin Ids(w.els.nodes)
            /\ \A c \in w.chips : c = <<c[1], c[2]>> /\ c[1] \in DOMAIN NoFilters \cup {"rule"}
            /\ w.routed <=> LayoutMode(w, w.elkCompound) = "elk-preset"
            /\ w.elkCompound = opts.compound
BY DrawnIsBaked DEF PlainView

LEMMA RenderedIsBaked ==
  ASSUME NEW g, NamesHold(g), NEW status, NEW edgeStatus, NEW diffed, NEW violations,
         NEW opts \in OptionSet
  PROVE  IsBaked(RenderHtml(Draw(g, status, edgeStatus, diffed, violations, opts)))
<1> DEFINE w == Draw(g, status, edgeStatus, diffed, violations, opts)
           p == RenderHtml(w)
<1>1. p.multi = FALSE /\ p.visible = {"only"} /\ p.first = "only" /\ DOMAIN p.views = {Base("only")}
      /\ p.views[Base("only")] = w
  BY DEF RenderHtml
<1>2. /\ NoSelection \notin Ids(w.els.nodes)
      /\ \A c \in w.chips : c = <<c[1], c[2]>> /\ c[1] \in DOMAIN NoFilters \cup {"rule"}
      /\ w.routed <=> LayoutMode(w, w.elkCompound) = "elk-preset"
  BY DrawnIsBaked
<1> HIDE DEF p, w
<1>3. {Base(id) : id \in p.visible} \subseteq DOMAIN p.views
  BY <1>1
<1> QED
  BY <1>1, <1>2, <1>3 DEF IsBaked, p, w

(* The nodes of a view that is made of another are packages or its own.        *)
LEMMA PackagesAreNamed ==
  ASSUME NEW g, NEW S, NoSelection \notin S,
         \A n \in g.nodes : \E d \in S : n = Package(d)
  PROVE  NamesHold(g)
<1>1. ASSUME NEW n \in g.nodes
      PROVE  /\ NoSelection \notin {n.id, n.pkg, n.dir} /\ n.kind = "package"
             /\ \A nested \in BOOLEAN : GroupOf(n, nested) = <<>>
  <2>1. NoSelection \notin {n.id, n.pkg, n.dir} /\ n.kind = "package"
    BY DEF Package
  <2> QED
    BY <2>1, PackagesHaveNone
<1> QED
  BY <1>1 DEF NamesHold

LEMMA NodesOfAreNamed ==
  ASSUME NEW g, NEW h, NEW k, NamesHold(g), NamesHold(k), h.nodes \subseteq g.nodes \cup k.nodes
  PROVE  NamesHold(h)
BY DEF NamesHold

(* What the code cuts out of an id.                                            *)
LEMMA NodeOfIs ==
  ASSUME NEW S, NEW id \in Ids(S)
  PROVE  NodeOf(S, id) \in S /\ NodeOf(S, id).id = id
BY DEF Ids, NodeOf

LEMMA EdgeIs ==
  ASSUME NEW src, NEW dst, NEW kind, NEW weight
  PROVE  LET e == Edge(src, dst, kind, weight)
         IN e.src = src /\ e.dst = dst /\ e.kind = kind /\ e.weight = weight
BY DEF Edge

(* An edge that others were folded into: where it comes from.                  *)
LEMMA FoldedFrom ==
  ASSUME NEW E, NEW box, NEW f \in FoldEdges(E, box)
  PROVE  /\ \E e \in E : f.src = box[e.src] /\ f.dst = box[e.dst]
         /\ f = Edge(f.src, f.dst, "imports", f.weight)
<1>1. PICK p \in {<<box[e.src], box[e.dst]>> : e \in E} : \E weight : f = Edge(p[1], p[2], "imports", weight)
  BY DEF FoldEdges
<1>2. PICK e \in E : p = <<box[e.src], box[e.dst]>>
  BY <1>1
<1>3. p[1] = box[e.src] /\ p[2] = box[e.dst]
  BY <1>2
<1>4. f.src = p[1] /\ f.dst = p[2] /\ f = Edge(p[1], p[2], "imports", f.weight)
  BY <1>1, EdgeIs
<1> QED
  BY <1>3, <1>4

Joining(E, box, src, dst) == {e \in E : box[e.src] = src /\ box[e.dst] = dst}

LEMMA FoldedWeighs ==
  ASSUME NEW E, NEW box, NEW f \in FoldEdges(E, box)
  PROVE  f.weight = WeightOf(Joining(E, box, f.src, f.dst))
<1>1. PICK p, weight : /\ p \in {<<box[e.src], box[e.dst]>> : e \in E}
                      /\ weight = WeightOf({e \in E : <<box[e.src], box[e.dst]>> = p})
                      /\ f = Edge(p[1], p[2], "imports", weight)
  BY DEF FoldEdges
<1>2. p = <<p[1], p[2]>>
  BY <1>1
<1>3. f.src = p[1] /\ f.dst = p[2] /\ f.weight = weight
  BY <1>1, EdgeIs
<1>4. {e \in E : <<box[e.src], box[e.dst]>> = p} = Joining(E, box, f.src, f.dst)
  BY <1>2, <1>3 DEF Joining
<1> QED
  BY <1>1, <1>3, <1>4

(* And every group of edges has one.                                           *)
LEMMA FoldedAll ==
  ASSUME NEW E, NEW box, NEW e \in E
  PROVE  \E f \in FoldEdges(E, box) : f.src = box[e.src] /\ f.dst = box[e.dst]
<1> DEFINE p == <<box[e.src], box[e.dst]>>
           weight == WeightOf({d \in E : <<box[d.src], box[d.dst]>> = p})
<1>1. Edge(p[1], p[2], "imports", weight) \in FoldEdges(E, box)
  BY DEF FoldEdges
<1> HIDE DEF weight
<1>2. Edge(p[1], p[2], "imports", weight).src = p[1] /\ Edge(p[1], p[2], "imports", weight).dst = p[2]
  BY EdgeIs
<1> QED
  BY <1>1, <1>2

LEMMA CollapsedAreNamed ==
  ASSUME NEW g, NamesHold(g), NEW resolve \in BOOLEAN
  PROVE  NamesHold(CollapseToPackages(g)) /\ NamesHold(CollapseToDirectories(g, resolve))
<1> DEFINE ids == Ids(Files(g))
           box == [id \in ids |-> NodeOf(Files(g), id).pkg]
           sources == {n \in Files(g) : n.role \notin SkipRoles}
           dirs == [id \in Ids(sources) |-> NodeOf(sources, id).dir]
           all == IF resolve THEN ResolveBarrelEdges(g) ELSE g.edges
           folded == FoldEdges(Crossing(all, dirs), dirs)
           edges1 == {[e EXCEPT !.weight = Rounded(e.weight)] : e \in folded}
<1>1. NoSelection \notin Range(box)
  BY NodeOfIs DEF Range, NamesHold, Files
<1>2. NoSelection \notin Range(dirs)
  BY NodeOfIs DEF Range, NamesHold, Files
<1>3. NamesHold(CollapseToPackages(g))
  <2>1. CollapseToPackages(g).nodes = {Package(p) : p \in Range(box)}
    BY DEF CollapseToPackages, Graph
  <2> HIDE DEF box
  <2> QED
    BY <1>1, <2>1, PackagesAreNamed
<1>4. NamesHold(CollapseToDirectories(g, resolve))
  <2>1. CollapseToDirectories(g, resolve).nodes = {Package(d) : d \in Ends(edges1)}
    BY DEF CollapseToDirectories, Graph
  <2>2. \A e \in folded : e.src \in Range(dirs) /\ e.dst \in Range(dirs)
    <3> HIDE DEF dirs, all
    <3>1. \A e \in Crossing(all, dirs) : dirs[e.src] \in Range(dirs) /\ dirs[e.dst] \in Range(dirs)
      BY DEF Crossing, Range
    <3> SUFFICES ASSUME NEW f \in folded PROVE f.src \in Range(dirs) /\ f.dst \in Range(dirs)
      OBVIOUS
    <3>2. PICK e \in Crossing(all, dirs) : f.src = dirs[e.src] /\ f.dst = dirs[e.dst]
      BY FoldedFrom
    <3> QED
      BY <3>1, <3>2
  <2>3. \A e \in folded : e = Edge(e.src, e.dst, "imports", e.weight)
    <3> HIDE DEF dirs, all
    <3> QED
      BY FoldedFrom
  <2>4. \A e \in edges1 : e.src \in Range(dirs) /\ e.dst \in Range(dirs)
    <3> HIDE DEF folded, dirs
    <3>1. ASSUME NEW e \in folded
          PROVE  [e EXCEPT !.weight = Rounded(e.weight)].src = e.src /\ [e EXCEPT !.weight = Rounded(e.weight)].dst = e.dst
      BY <2>3 DEF Edge
    <3> QED
      BY <2>2, <3>1
  <2> HIDE DEF edges1, dirs
  <2> QED
    BY <1>2, <2>1, <2>4, PackagesAreNamed DEF Ends
<1> QED
  BY <1>3, <1>4

LEMMA FocusedIsNamed ==
  ASSUME NEW g, NamesHold(g), NEW pkg, NEW tests \in BOOLEAN
  PROVE  NamesHold(FocusPackage(g, pkg, tests))
<1> DEFINE f == FocusPackage(g, pkg, tests)
           pkgs == PackagesInSnapshot(g)
           stubs == Graph({Package(p) : p \in pkgs}, {})
<1>1. NoSelection \notin pkgs
  BY DEF PackagesInSnapshot, NamesHold, Files
<1>2. NamesHold(stubs)
  <2>1. stubs.nodes = {Package(p) : p \in pkgs}
    BY DEF Graph
  <2> HIDE DEF pkgs, stubs
  <2> QED
    BY <1>1, <2>1, PackagesAreNamed
<1>3. f.nodes \subseteq g.nodes \cup stubs.nodes
  <2> DEFINE fileNodes == {n \in Files(g) : n.pkg = pkg /\ (tests \/ n.role # "test")}
             pkgOf == [id \in Ids(Files(g)) |-> NodeOf(Files(g), id).pkg]
             Drawn(e) == /\ {e.src, e.dst} \subseteq DOMAIN pkgOf
                         /\ {e.src, e.dst} \cap Ids(fileNodes) # {}
                         /\ \A id \in {e.src, e.dst} \ Ids(fileNodes) : pkgOf[id] # pkg
             drawn == {e \in g.edges : Drawn(e)}
             neighbours == {pkgOf[id] : id \in Ends(drawn) \ Ids(fileNodes)}
  <2>1. f.nodes = fileNodes \cup {Package(nb) : nb \in neighbours}
    BY DEF FocusPackage, Graph
  <2>2. neighbours \subseteq pkgs
    <3>1. \A id \in DOMAIN pkgOf : pkgOf[id] \in pkgs
      BY NodeOfIs DEF PackagesInSnapshot
    <3>2. \A e \in drawn : {e.src, e.dst} \subseteq DOMAIN pkgOf
      OBVIOUS
    <3> HIDE DEF drawn, pkgOf, pkgs, fileNodes
    <3> QED
      BY <3>1, <3>2 DEF Ends
  <2>3. fileNodes \subseteq g.nodes
    BY DEF Files
  <2>4. stubs.nodes = {Package(p) : p \in pkgs}
    BY DEF Graph
  <2> HIDE DEF f, fileNodes, neighbours, stubs, pkgs
  <2> QED
    BY <2>1, <2>2, <2>3, <2>4
<1> HIDE DEF f, stubs
<1>4. NamesHold(f)
  BY <1>2, <1>3, NodesOfAreNamed
<1> QED
  BY <1>4 DEF f

(* What PagesAssumption asks holds of every page that a command bakes: the one *)
(* of one snapshot, the dashboard's with its views, the one of two snapshots   *)
(* (graph-render.ts, graph-dashboard.ts, diff-snapshot.ts).                    *)
THEOREM CommandsBake ==
  ASSUME NEW g, NamesHold(g)
  PROVE  /\ \A violations : \A opts \in OptionSet : IsBaked(RenderHtml(PlainView(g, violations, opts)))
         /\ IsBaked(DashboardGraph(g))
         /\ \A old, renames : NamesHold(old) => IsBaked(RenderDiff(old, g, renames))
<1>0. Options \in OptionSet /\ Flat \in OptionSet /\ Options.compound = FALSE /\ Flat.compound = FALSE
  BY DEF Options, Flat, OptionSet
<1>1. ASSUME NEW violations, NEW opts \in OptionSet
      PROVE  IsBaked(RenderHtml(PlainView(g, violations, opts)))
  BY RenderedIsBaked DEF PlainView
<1>2. ASSUME NEW old, NEW renames, NamesHold(old) PROVE IsBaked(RenderDiff(old, g, renames))
  <2> DEFINE both == Graph(UnionNodes(old, g, renames), UnionEdges(old, g, renames))
  <2>1. both.nodes \subseteq old.nodes \cup g.nodes
    BY DEF Graph, UnionNodes
  <2> HIDE DEF both
  <2>2. NamesHold(both)
    BY <1>2, <2>1, NodesOfAreNamed
  <2>3. IsBaked(RenderHtml(Draw(both, ClassifyNodes(old, g, renames), ClassifyEdges(old, g, renames), TRUE, {}, Options)))
    BY <1>0, <2>2, RenderedIsBaked
  <2> QED
    BY <2>3 DEF RenderDiff, both
<1>3. IsBaked(DashboardGraph(g))
  <2> DEFINE pkgs == PackagesInSnapshot(g)
             Of(v) == CASE v = Base("__overview__")    -> PlainView(CollapseToPackages(g), {}, Options)
                        [] v = Base("__modules__")     -> PlainView(CollapseToDirectories(g, FALSE), {}, Options)
                        [] v = Resolved("__modules__") -> PlainView(CollapseToDirectories(g, TRUE), {}, Options)
                        [] v[1] \in pkgs /\ v[2] = "base" -> PlainView(FocusPackage(g, v[1], FALSE), {}, Flat)
                        [] OTHER -> PlainView(FocusPackage(ResolveBarrels(g), v[1], FALSE), {}, Flat)
             visible == {"__overview__", "__modules__"} \cup pkgs
             ids == {Base(i) : i \in visible} \cup {Resolved(i) : i \in visible \ {"__overview__"}}
             p == DashboardGraph(g)
  <2>1. p.multi = TRUE /\ p.visible = visible /\ p.first = "__overview__" /\ p.views = [v \in ids |-> Of(v)]
    BY DEF DashboardGraph, MultiView
  <2>2. NamesHold(ResolveBarrels(g))
    <3>1. ResolveBarrels(g).nodes \subseteq g.nodes \cup g.nodes
      BY DEF ResolveBarrels, Graph
    <3> QED
      BY <3>1, NodesOfAreNamed
  <2>3. ASSUME NEW v PROVE \E h : NamesHold(h) /\ \E opts \in {Options, Flat} : Of(v) = PlainView(h, {}, opts)
    <3>1. /\ NamesHold(CollapseToPackages(g)) /\ NamesHold(CollapseToDirectories(g, FALSE))
          /\ NamesHold(CollapseToDirectories(g, TRUE))
          /\ NamesHold(FocusPackage(g, v[1], FALSE)) /\ NamesHold(FocusPackage(ResolveBarrels(g), v[1], FALSE))
      BY <2>2, CollapsedAreNamed, FocusedIsNamed
    <3>2. \/ Of(v) = PlainView(CollapseToPackages(g), {}, Options)
          \/ Of(v) = PlainView(CollapseToDirectories(g, FALSE), {}, Options)
          \/ Of(v) = PlainView(CollapseToDirectories(g, TRUE), {}, Options)
          \/ Of(v) = PlainView(FocusPackage(g, v[1], FALSE), {}, Flat)
          \/ Of(v) = PlainView(FocusPackage(ResolveBarrels(g), v[1], FALSE), {}, Flat)
      <4> DEFINE c1 == v = Base("__overview__")
                 c2 == v = Base("__modules__")
                 c3 == v = Resolved("__modules__")
                 c4 == v[1] \in pkgs /\ v[2] = "base"
                 v1 == PlainView(CollapseToPackages(g), {}, Options)
                 v2 == PlainView(CollapseToDirectories(g, FALSE), {}, Options)
                 v3 == PlainView(CollapseToDirectories(g, TRUE), {}, Options)
                 v4 == PlainView(FocusPackage(g, v[1], FALSE), {}, Flat)
                 v5 == PlainView(FocusPackage(ResolveBarrels(g), v[1], FALSE), {}, Flat)
      <4>1. Of(v) = CASE c1 -> v1 [] c2 -> v2 [] c3 -> v3 [] c4 -> v4 [] OTHER -> v5
        OBVIOUS
      <4> HIDE DEF c1, c2, c3, c4, v1, v2, v3, v4, v5, Of
      <4>2. Of(v) \in {v1, v2, v3, v4, v5}
        BY <4>1
      <4> QED
        BY <4>2 DEF v1, v2, v3, v4, v5
    <3> HIDE DEF Of
    <3> QED
      BY <3>1, <3>2
  <2> HIDE DEF Of
  <2>4. ASSUME NEW v \in ids
        PROVE  LET w == p.views[v]
               IN /\ NoSelection \notin Ids(w.els.nodes)
                  /\ \A c \in w.chips : c = <<c[1], c[2]>> /\ c[1] \in DOMAIN NoFilters \cup {"rule"}
                  /\ w.routed <=> LayoutMode(w, w.elkCompound) = "elk-preset"
                  /\ ~w.elkCompound
    <3>1. p.views[v] = Of(v)
      BY <2>1
    <3>2. PICK h : NamesHold(h) /\ \E opts \in {Options, Flat} : Of(v) = PlainView(h, {}, opts)
      BY <2>3
    <3>4. PICK opts \in {Options, Flat} : Of(v) = PlainView(h, {}, opts)
      BY <3>2
    <3>3. opts \in OptionSet /\ opts.compound = FALSE
      BY <1>0
    <3> QED
      BY <3>1, <3>2, <3>3, <3>4, PlainIsBaked
  <2>5. p.first \in p.visible /\ {Base(id) : id \in p.visible} \subseteq DOMAIN p.views /\ DOMAIN p.views = ids
    BY <2>1
  <2> HIDE DEF p, ids, visible, pkgs
  <2> QED
    BY <2>1, <2>4, <2>5 DEF IsBaked, p
<1> QED
  BY <1>1, <1>2, <1>3

(* -------------------------------------------------------------------------- *)
(* The views of a snapshot, of any files and edges.  The weight of a set of    *)
(* edges is the number of their references, so edges that are folded into one  *)
(* keep their weight, and what two views say of two packages is the same       *)
(* references counted twice.                                                   *)

(* Two functions on the subsets of a finite set that agree on a set whenever   *)
(* they agree on its strict subsets are the same.                              *)
OnSubsets(f, S) == f = [s \in SUBSET S |-> f[s]]
AgreeBelow(f, g, s) == \A r \in SUBSET s : r # s => f[r] = g[r]

LEMMA SubsetsDetermine ==
  ASSUME NEW S, IsFiniteSet(S), NEW f, NEW g,
         OnSubsets(f, S), OnSubsets(g, S),
         \A s \in SUBSET S : AgreeBelow(f, g, s) => f[s] = g[s]
  PROVE  f = g
<1> DEFINE T == {s \in SUBSET S : f[s] # g[s]}
<1>1. T = {}
  <2> SUFFICES ASSUME T # {} PROVE FALSE
    OBVIOUS
  <2>1. T \subseteq FiniteSubsetsOf(S)
    BY FS_FiniteSubsetsOfFinite
  <2>2. PICK s \in T : \A r \in T : ~ (<<r, s>> \in StrictSubsetOrdering(S))
    <3> HIDE DEF T
    <3> QED
      BY <2>1, FS_StrictSubsetOrderingWellFounded, WFMin
  <2>3. AgreeBelow(f, g, s)
    <3> USE DEF AgreeBelow
    <3> SUFFICES ASSUME NEW r \in SUBSET s, r # s, f[r] # g[r] PROVE FALSE
      OBVIOUS
    <3>1. <<r, s>> \in StrictSubsetOrdering(S)
      BY DEF StrictSubsetOrdering
    <3> QED
      BY <2>2, <3>1
  <2> QED
    BY <2>3
<1>2. \A s \in SUBSET S : f[s] = g[s]
  BY <1>1
<1>3. [s \in SUBSET S |-> f[s]] = [s \in SUBSET S |-> g[s]]
  BY <1>2
<1> QED
  BY <1>3 DEF OnSubsets

(* A sum over a finite set is taken element by element; what grows by f[x]     *)
(* with each element x is the only one that can be.                            *)
AnyOf(s)          == CHOOSE x \in s : TRUE
SumRest(f, it, s) == f[AnyOf(s)] + it[s \ {AnyOf(s)}]
SumIter(f, it, S) == [s \in SUBSET S |-> IF s = {} THEN 0 ELSE SumRest(f, it, s)]

Sums(f, g, S) == /\ OnSubsets(g, S) /\ g[{}] = 0
                 /\ \A s \in SUBSET S : \A x \in s : g[s] = f[x] + g[s \ {x}]

LEMMA SumIs ==
  ASSUME NEW S, IsFiniteSet(S), NEW f, NEW g, Sums(f, g, S)
  PROVE  g = SumIter(f, g, S) /\ \A h : h = SumIter(f, h, S) => h = g
<1>1. \A s \in SUBSET S : g[s] = IF s = {} THEN 0 ELSE SumRest(f, g, s)
  BY DEF Sums, SumRest, AnyOf
<1>2. g = SumIter(f, g, S)
  BY <1>1 DEF Sums, OnSubsets, SumIter
<1>3. ASSUME NEW h, h = SumIter(f, h, S) PROVE h = g
  <2>1. ASSUME NEW s \in SUBSET S, AgreeBelow(h, g, s) PROVE h[s] = g[s]
    <3>1. h[s] = IF s = {} THEN 0 ELSE SumRest(f, h, s)
      BY <1>3 DEF SumIter
    <3>2. s # {} => SumRest(f, h, s) = SumRest(f, g, s)
      BY <2>1 DEF SumRest, AnyOf, AgreeBelow
    <3> QED
      BY <1>1, <3>1, <3>2
  <2>2. OnSubsets(h, S) /\ OnSubsets(g, S)
    BY <1>3 DEF SumIter, OnSubsets, Sums
  <2> QED
    BY <2>1, <2>2, SubsetsDetermine
<1> QED
  BY <1>2, <1>3

(* Separate sets count together.                                               *)
LEMMA CountsAdd ==
  ASSUME NEW A, NEW B, IsFiniteSet(A), IsFiniteSet(B), A \cap B = {}
  PROVE  /\ IsFiniteSet(A \cup B) /\ Cardinality(A \cup B) = Cardinality(A) + Cardinality(B)
         /\ Cardinality(A) \in Nat /\ Cardinality(B) \in Nat
<1>1. Cardinality(A \cap B) = 0
  BY FS_EmptySet
<1>2. Cardinality(A) \in Nat /\ Cardinality(B) \in Nat
  BY FS_CardinalityType
<1>3. IsFiniteSet(A \cup B) /\ Cardinality(A \cup B) = Cardinality(A) + Cardinality(B) - Cardinality(A \cap B)
  BY FS_Union
<1> QED
  BY <1>1, <1>2, <1>3

(* The references that edges stand for.                                        *)
Refs(E) == UNION {{e} \X (1..EdgeWeight(e)) : e \in E}

LEMMA EdgeWeightIs ==
  ASSUME NEW e, e.weight \in Int
  PROVE  EdgeWeight(e) \in Nat /\ EdgeWeight(e) >= 1 /\ (e.weight >= 1 => EdgeWeight(e) = e.weight)
BY PartsAssumption DEF EdgeWeight

LEMMA RefsAre ==
  ASSUME NEW E, IsFiniteSet(E), \A e \in E : e.weight \in Int
  PROVE  /\ IsFiniteSet(Refs(E))
         /\ \A u \in Refs(E) : u[1] \in E
         /\ \A e \in E : Cardinality({u \in Refs(E) : u[1] = e}) = EdgeWeight(e)
<1> DEFINE f == [e \in E |-> {e} \X (1..EdgeWeight(e))]
           T == {{e} \X (1..EdgeWeight(e)) : e \in E}
<1>1. f \in Surjection(E, T)
  BY DEF Surjection
<1>2. ASSUME NEW e \in E
      PROVE  IsFiniteSet({e} \X (1..EdgeWeight(e))) /\ Cardinality({e} \X (1..EdgeWeight(e))) = EdgeWeight(e)
  <2>1. EdgeWeight(e) \in Nat /\ EdgeWeight(e) >= 1
    BY EdgeWeightIs
  <2>2. IsFiniteSet(1..EdgeWeight(e)) /\ Cardinality(1..EdgeWeight(e)) = EdgeWeight(e)
    BY <2>1, FS_Interval
  <2>3. IsFiniteSet({e}) /\ Cardinality({e}) = 1
    BY FS_Singleton
  <2>4. /\ IsFiniteSet({e} \X (1..EdgeWeight(e)))
        /\ Cardinality({e} \X (1..EdgeWeight(e))) = Cardinality({e}) * Cardinality(1..EdgeWeight(e))
    BY <2>2, <2>3, FS_Product
  <2> QED
    BY <2>1, <2>2, <2>3, <2>4
<1>3. IsFiniteSet(T)
  <2> HIDE DEF f, T
  <2> QED
    BY <1>1, FS_Surjection
<1>4. \A t \in T : IsFiniteSet(t)
  BY <1>2
<1>5. IsFiniteSet(Refs(E))
  <2>1. IsFiniteSet(UNION T)
    <3> HIDE DEF T
    <3> QED
      BY <1>3, <1>4, FS_UNION
  <2> QED
    BY <2>1 DEF Refs
<1>6. \A u \in Refs(E) : u[1] \in E
  BY DEF Refs
<1>7. ASSUME NEW e \in E PROVE {u \in Refs(E) : u[1] = e} = {e} \X (1..EdgeWeight(e))
  BY DEF Refs
<1> QED
  BY <1>2, <1>5, <1>6, <1>7

OwnedBy(own, U, e)  == {u \in U : own[u] = e}
OwnedIn(own, U, E) == {u \in U : own[u] \in E}

(* If each edge weighs what belongs to it, a set of edges weighs what belongs  *)
(* to one of them.                                                             *)
LEMMA WeightsAdd ==
  ASSUME NEW E, IsFiniteSet(E), NEW U, IsFiniteSet(U), NEW own,
         \A e \in E : Cardinality(OwnedBy(own, U, e)) = EdgeWeight(e)
  PROVE  WeightOf(E) = Cardinality(OwnedIn(own, U, E))
<1> DEFINE Of(s) == OwnedIn(own, U, s)
           f == [e \in E |-> EdgeWeight(e)]
           g == [s \in SUBSET E |-> Cardinality(Of(s))]
           Rest(it, s) == EdgeWeight(CHOOSE x \in s : TRUE) + it[s \ {CHOOSE x \in s : TRUE}]
           Iter(it) == [s \in SUBSET E |-> IF s = {} THEN 0 ELSE Rest(it, s)]
           h == CHOOSE it : it = Iter(it)
<1>1. Sums(f, g, E)
  <2>1. OnSubsets(g, E)
    BY DEF OnSubsets
  <2>2. g[{}] = 0
    <3>1. Of({}) = {}
      BY DEF OwnedIn
    <3> QED
      BY <3>1, FS_EmptySet
  <2>3. ASSUME NEW s \in SUBSET E, NEW x \in s PROVE g[s] = f[x] + g[s \ {x}]
    <3> DEFINE A == OwnedBy(own, U, x)
               B == OwnedIn(own, U, s \ {x})
    <3>1. OwnedIn(own, U, s) = A \cup B /\ A \cap B = {} /\ A \subseteq U /\ B \subseteq U
      BY DEF OwnedIn, OwnedBy
    <3>2. IsFiniteSet(A) /\ IsFiniteSet(B)
      BY <3>1, FS_Subset
    <3>3. Cardinality(A) = f[x]
      OBVIOUS
    <3>4. s \ {x} \in SUBSET E
      OBVIOUS
    <3>5. g[s] = Cardinality(OwnedIn(own, U, s)) /\ g[s \ {x}] = Cardinality(B)
      BY <3>4
    <3> HIDE DEF A, B, f, g
    <3>6. Cardinality(A \cup B) = Cardinality(A) + Cardinality(B)
      BY <3>1, <3>2, CountsAdd
    <3> QED
      BY <3>1, <3>3, <3>5, <3>6
  <2> HIDE DEF f, g
  <2> QED
    BY <2>1, <2>2, <2>3 DEF Sums
<1>2. WeightOf(E) = h[E]
  BY DEF WeightOf, MapThenSumSet, MapThenFoldSet
<1>3. \A it : Iter(it) = SumIter(f, it, E)
  <2> SUFFICES ASSUME NEW it PROVE Iter(it) = SumIter(f, it, E)
    OBVIOUS
  <2>1. ASSUME NEW s \in SUBSET E, s # {} PROVE Rest(it, s) = SumRest(f, it, s)
    <3>1. AnyOf(s) \in E
      BY <2>1 DEF AnyOf
    <3> QED
      BY <3>1 DEF SumRest, AnyOf
  <2> HIDE DEF Rest, f
  <2> QED
    BY <2>1 DEF SumIter
<1>4. g = SumIter(f, g, E) /\ \A it : it = SumIter(f, it, E) => it = g
  <2> HIDE DEF f, g
  <2> QED
    BY <1>1, SumIs
<1>5. h = g
  <2> HIDE DEF f, g, Iter
  <2> QED
    BY <1>3, <1>4
<1> QED
  BY <1>2, <1>5

(* Edges that are folded keep their weight, whatever ends are looked at.       *)
Reaching(F, X, Y)     == {f \in F : f.src \in X /\ f.dst \in Y}
Landing(E, box, X, Y) == {e \in E : box[e.src] \in X /\ box[e.dst] \in Y}

LEMMA FoldKeepsWeight ==
  ASSUME NEW E, IsFiniteSet(E), \A e \in E : e.weight \in Int, NEW box, NEW X, NEW Y
  PROVE  WeightOf(Reaching(FoldEdges(E, box), X, Y)) = WeightOf(Landing(E, box, X, Y))
<1> DEFINE Joins(f, e) == box[e.src] = f.src /\ box[e.dst] = f.dst
           F == {f \in FoldEdges(E, box) : f.src \in X /\ f.dst \in Y}
           D == {e \in E : box[e.src] \in X /\ box[e.dst] \in Y}
           U == Refs(E)
           first == [u \in U |-> u[1]]
           Into(e) == CHOOSE f \in FoldEdges(E, box) : Joins(f, e)
           into == [u \in U |-> Into(u[1])]
<1>1. IsFiniteSet(U) /\ (\A u \in U : u[1] \in E) /\ \A e \in E : Cardinality({u \in U : u[1] = e}) = EdgeWeight(e)
  BY RefsAre
<1>2. ASSUME NEW C \in SUBSET E
      PROVE  WeightOf(C) = Cardinality({u \in U : u[1] \in C})
  <2>1. IsFiniteSet(C)
    BY FS_Subset
  <2>2. \A e \in C : Cardinality(OwnedBy(first, U, e)) = EdgeWeight(e)
    <3>1. \A e \in C : OwnedBy(first, U, e) = {u \in U : u[1] = e}
      BY DEF OwnedBy
    <3> QED
      BY <1>1, <3>1
  <2>3. WeightOf(C) = Cardinality(OwnedIn(first, U, C))
    <3> HIDE DEF first, U
    <3> QED
      BY <1>1, <2>1, <2>2, WeightsAdd
  <2>4. OwnedIn(first, U, C) = {u \in U : u[1] \in C}
    BY DEF OwnedIn
  <2> QED
    BY <2>3, <2>4
<1>3. ASSUME NEW e \in E
      PROVE  Into(e) \in FoldEdges(E, box) /\ Joins(Into(e), e)
  BY FoldedAll
<1>4. ASSUME NEW f \in FoldEdges(E, box), NEW e \in E, Joins(f, e)
      PROVE  Into(e) = f
  <2> DEFINE i == Into(e)
  <2>1. i \in FoldEdges(E, box) /\ i.src = f.src /\ i.dst = f.dst
    BY <1>3, <1>4
  <2> HIDE DEF i
  <2>3. i.weight = f.weight
    BY <1>4, <2>1, FoldedWeighs
  <2>4. i = f
    BY <2>1, <2>3, FoldedFrom
  <2> QED
    BY <2>4 DEF i
<1>5. ASSUME NEW f \in FoldEdges(E, box)
      PROVE  Cardinality(OwnedBy(into, U, f)) = EdgeWeight(f)
  <2> DEFINE C == Joining(E, box, f.src, f.dst)
             B == {u \in U : u[1] \in C}
  <2>1. f.weight = WeightOf(C)
    BY FoldedWeighs
  <2>8. C = {e \in E : Joins(f, e)}
    BY DEF Joining
  <2>2. f.weight = Cardinality(B)
    BY <1>2, <2>1, <2>8
  <2>3. PICK e \in E : Joins(f, e)
    BY FoldedFrom
  <2>4. <<e, 1>> \in B
    <3>1. EdgeWeight(e) \in Nat /\ EdgeWeight(e) >= 1
      BY EdgeWeightIs
    <3>2. <<e, 1>> \in {e} \X (1..EdgeWeight(e))
      BY <3>1
    <3> QED
      BY <2>3, <2>8, <3>2 DEF Refs
  <2>5. IsFiniteSet(B) /\ Cardinality(B) \in Nat /\ Cardinality(B) # 0
    <3>1. IsFiniteSet(B)
      BY <1>1, FS_Subset
    <3> HIDE DEF B
    <3> QED
      BY <2>4, <3>1, FS_CardinalityType, FS_EmptySet
  <2>6. EdgeWeight(f) = f.weight
    <3>1. f.weight \in Int /\ f.weight >= 1
      BY <2>2, <2>5
    <3> QED
      BY <3>1, EdgeWeightIs
  <2>7. OwnedBy(into, U, f) = B
    <3>1. ASSUME NEW u \in U, into[u] = f PROVE Joins(f, u[1])
      BY <1>1, <1>3, <3>1
    <3>2. ASSUME NEW u \in U, Joins(f, u[1]), u[1] \in E PROVE into[u] = f
      BY <1>4, <3>2
    <3> HIDE DEF into, U, Joins, C
    <3> QED
      BY <1>1, <2>8, <3>1, <3>2 DEF OwnedBy
  <2> QED
    BY <2>2, <2>6, <2>7
<1>6. IsFiniteSet(F)
  <2> DEFINE image == [e \in E |-> Into(e)]
  <2>1. image \in Surjection(E, FoldEdges(E, box))
    <3>1. \A e \in E : image[e] \in FoldEdges(E, box)
      BY <1>3
    <3>2. ASSUME NEW f \in FoldEdges(E, box) PROVE \E e \in E : image[e] = f
      <4>1. PICK e \in E : Joins(f, e)
        BY FoldedFrom
      <4>2. Into(e) = f
        BY <1>4, <4>1
      <4> HIDE DEF Into
      <4> QED
        BY <4>2
    <3>3. image = [e \in E |-> image[e]]
      OBVIOUS
    <3> HIDE DEF image
    <3> QED
      BY <3>1, <3>2, <3>3 DEF Surjection
  <2>2. IsFiniteSet(FoldEdges(E, box))
    <3> HIDE DEF image
    <3> QED
      BY <2>1, FS_Surjection
  <2> QED
    BY <2>2, FS_Subset
<1>7. WeightOf(F) = Cardinality(OwnedIn(into, U, F))
  <2>1. \A f \in F : Cardinality(OwnedBy(into, U, f)) = EdgeWeight(f)
    BY <1>5
  <2> HIDE DEF F, U, into
  <2> QED
    BY <1>1, <1>6, <2>1, WeightsAdd
<1>8. OwnedIn(into, U, F) = {u \in U : u[1] \in D}
  <2>1. ASSUME NEW u \in U PROVE into[u] \in F <=> u[1] \in D
    <3>1. u[1] \in E /\ into[u] = Into(u[1])
      BY <1>1
    <3>2. into[u] \in FoldEdges(E, box) /\ box[u[1].src] = into[u].src /\ box[u[1].dst] = into[u].dst
      BY <1>3, <3>1
    <3> HIDE DEF into, U
    <3> QED
      BY <3>1, <3>2
  <2> HIDE DEF into, U, F, D
  <2> QED
    BY <2>1 DEF OwnedIn
<1>9. WeightOf(D) = Cardinality({u \in U : u[1] \in D})
  <2>1. D \in SUBSET E
    OBVIOUS
  <2> HIDE DEF D, U
  <2> QED
    BY <1>2, <2>1
<1>10. F = Reaching(FoldEdges(E, box), X, Y) /\ D = Landing(E, box, X, Y)
  BY DEF Reaching, Landing
<1> QED
  <2> HIDE DEF F, D, U, into
  <2> QED
    BY <1>7, <1>8, <1>9, <1>10

(* -------------------------------------------------------------------------- *)
(* A package in full, part by part.                                            *)
PkgOf(g) == [id \in Ids(Files(g)) |-> NodeOf(Files(g), id).pkg]
Inside(g, p, tests) == {n \in Files(g) : n.pkg = p /\ (tests \/ n.role # "test")}
BoxIn(g, p, tests) == [id \in DOMAIN PkgOf(g) |-> IF id \in Ids(Inside(g, p, tests)) THEN id ELSE PkgOf(g)[id]]
IsDrawn(g, p, tests, e) ==
  /\ {e.src, e.dst} \subseteq DOMAIN PkgOf(g)
  /\ {e.src, e.dst} \cap Ids(Inside(g, p, tests)) # {}
  /\ \A id \in {e.src, e.dst} \ Ids(Inside(g, p, tests)) : PkgOf(g)[id] # p
DrawnOf(g, p, tests) == {e \in g.edges : IsDrawn(g, p, tests, e)}
Neighbours(g, p, tests) ==
  {PkgOf(g)[id] : id \in Ends(DrawnOf(g, p, tests)) \ Ids(Inside(g, p, tests))}

LEMMA FocusIs ==
  ASSUME NEW g, NEW p, NEW tests
  PROVE  /\ FocusPackage(g, p, tests).nodes = Inside(g, p, tests) \cup {Package(nb) : nb \in Neighbours(g, p, tests)}
         /\ FocusPackage(g, p, tests).edges = FoldEdges(DrawnOf(g, p, tests), BoxIn(g, p, tests))
BY DEF FocusPackage, Graph, Inside, Neighbours, DrawnOf, IsDrawn, BoxIn, PkgOf

LEMMA FocusFiles ==
  ASSUME NEW g, NEW p
  PROVE  Files(FocusPackage(g, p, TRUE)) = Inside(g, p, TRUE)
<1>1. \A nb : Package(nb).kind = "package"
  BY DEF Package
<1>2. \A n \in Inside(g, p, TRUE) : n.kind = "file"
  BY DEF Inside, Files
<1>3. FocusPackage(g, p, TRUE).nodes = Inside(g, p, TRUE) \cup {Package(nb) : nb \in Neighbours(g, p, TRUE)}
  BY FocusIs
<1> QED
  BY <1>1, <1>2, <1>3 DEF Files

(* The files of a snapshot, by their ids.                                      *)
LEMMA FilesAre ==
  ASSUME NEW g, IsSnapshot(g)
  PROVE  /\ \A n \in Files(g) : n.id \in Ids(Files(g)) /\ PkgOf(g)[n.id] = n.pkg
         /\ \A id \in Ids(Files(g)) : /\ NodeOf(Files(g), id) \in Files(g) /\ NodeOf(Files(g), id).id = id
                                      /\ PkgOf(g)[id] = NodeOf(Files(g), id).pkg
                                      /\ PkgOf(g)[id] \in PackagesInSnapshot(g)
         /\ \A id, other \in Ids(Files(g)) : PkgOf(g)[other] = id => PkgOf(g)[id] = id
         /\ DOMAIN PkgOf(g) = Ids(Files(g))
<1>1. \A m, n \in Files(g) : m.id = n.id => m = n
  BY DEF IsSnapshot, Files
<1>2. \A n \in Files(g) : n.id \in Ids(Files(g)) /\ NodeOf(Files(g), n.id) = n
  BY <1>1, NodeOfIs DEF Ids
<1>3. \A m, n \in Files(g) : m.id = n.pkg => m.pkg = m.id
  BY DEF IsSnapshot
<1>4. \A id \in Ids(Files(g)) : NodeOf(Files(g), id) \in Files(g) /\ NodeOf(Files(g), id).id = id
  BY NodeOfIs
<1>5. DOMAIN PkgOf(g) = Ids(Files(g)) /\ \A id \in Ids(Files(g)) : PkgOf(g)[id] = NodeOf(Files(g), id).pkg
  BY DEF PkgOf
<1>6. \A n \in Files(g) : n.pkg \in PackagesInSnapshot(g)
  BY DEF PackagesInSnapshot
<1>7. \A id, other \in Ids(Files(g)) : PkgOf(g)[other] = id => PkgOf(g)[id] = id
  BY <1>3, <1>4, <1>5
<1> QED
  BY <1>2, <1>4, <1>5, <1>6, <1>7

(* A file that is named as a package is lies in it.                            *)
LEMMA NamedAsPackage ==
  ASSUME NEW g, IsSnapshot(g), NEW r \in PackagesInSnapshot(g), NEW id \in Ids(Files(g)), id = r
  PROVE  PkgOf(g)[id] = r
<1>1. PICK n \in Files(g) : n.pkg = r
  BY DEF PackagesInSnapshot
<1>2. n.id \in Ids(Files(g)) /\ PkgOf(g)[n.id] = id
  BY <1>1, FilesAre
<1> QED
  BY <1>2, FilesAre

LEMMA InsideIs ==
  ASSUME NEW g, IsSnapshot(g), NEW p, NEW id \in Ids(Files(g))
  PROVE  /\ id \in Ids(Inside(g, p, TRUE)) <=> PkgOf(g)[id] = p
         /\ id \in Ids(Inside(g, p, FALSE)) <=> PkgOf(g)[id] = p /\ NodeOf(Files(g), id).role # "test"
<1>1. \A n \in Files(g) : n.id = id => n = NodeOf(Files(g), id)
  BY FilesAre DEF IsSnapshot, Files
<1>2. /\ id \in Ids(Inside(g, p, TRUE)) <=> \E n \in Files(g) : n.id = id /\ n.pkg = p
      /\ id \in Ids(Inside(g, p, FALSE)) <=> \E n \in Files(g) : n.id = id /\ n.pkg = p /\ n.role # "test"
  BY DEF Ids, Inside
<1>3. NodeOf(Files(g), id) \in Files(g) /\ NodeOf(Files(g), id).id = id /\ PkgOf(g)[id] = NodeOf(Files(g), id).pkg
  BY FilesAre
<1> QED
  BY <1>1, <1>2, <1>3

(* A file inside a package that is itself named as one is named as this one.   *)
LEMMA InsideAndNamed ==
  ASSUME NEW g, IsSnapshot(g), NEW p, NEW id \in Ids(Files(g)), PkgOf(g)[id] \in Ids(Inside(g, p, TRUE))
  PROVE  PkgOf(g)[id] = p
<1>1. PkgOf(g)[id] \in Ids(Files(g))
  BY DEF Ids, Inside
<1>2. PkgOf(g)[PkgOf(g)[id]] = p
  BY <1>1, InsideIs
<1>3. PkgOf(g)[PkgOf(g)[id]] = PkgOf(g)[id]
  BY <1>1, FilesAre
<1> QED
  BY <1>2, <1>3

LEMMA BoxIs ==
  ASSUME NEW g, IsSnapshot(g), NEW p, NEW id \in Ids(Files(g))
  PROVE  /\ BoxIn(g, p, TRUE)[id] = IF id \in Ids(Inside(g, p, TRUE)) THEN id ELSE PkgOf(g)[id]
         /\ BoxIn(g, p, FALSE)[id] = IF id \in Ids(Inside(g, p, FALSE)) THEN id ELSE PkgOf(g)[id]
BY FilesAre DEF BoxIn

(* The references of one package to another.                                   *)
From(g, p, q) ==
  {e \in g.edges : /\ {e.src, e.dst} \subseteq Ids(Files(g))
                   /\ PkgOf(g)[e.src] = p /\ PkgOf(g)[e.dst] = q}

LEMMA EdgesWeigh ==
  ASSUME NEW g, IsSnapshot(g), NEW E \in SUBSET g.edges
  PROVE  IsFiniteSet(E) /\ \A e \in E : e.weight \in Int
BY FS_Subset DEF IsSnapshot

LEMMA OverviewWeighs ==
  ASSUME NEW g, IsSnapshot(g), NEW p, NEW q, p # q
  PROVE  WeightOf(Between(CollapseToPackages(g), {p}, {q})) = WeightOf(From(g, p, q))
<1> DEFINE box == PkgOf(g)
           E == Crossing(g.edges, box)
<1>1. CollapseToPackages(g).edges = FoldEdges(E, box)
  BY DEF CollapseToPackages, Graph, PkgOf
<1>2. IsFiniteSet(E) /\ \A e \in E : e.weight \in Int
  <2>1. E \in SUBSET g.edges
    BY DEF Crossing
  <2> QED
    BY <2>1, EdgesWeigh
<1>3. Between(CollapseToPackages(g), {p}, {q}) = Reaching(FoldEdges(E, box), {p}, {q})
  BY <1>1 DEF Between, Reaching
<1>4. Landing(E, box, {p}, {q}) = From(g, p, q)
  BY FilesAre DEF Crossing, From, Landing
<1> HIDE DEF E, box
<1> QED
  BY <1>2, <1>3, <1>4, FoldKeepsWeight

LEMMA FocusWeighs ==
  ASSUME NEW g, IsSnapshot(g), NEW p, NEW X, NEW Y
  PROVE  WeightOf(Between(FocusPackage(g, p, TRUE), X, Y))
           = WeightOf(Landing(DrawnOf(g, p, TRUE), BoxIn(g, p, TRUE), X, Y))
<1> DEFINE box == BoxIn(g, p, TRUE)
           E == DrawnOf(g, p, TRUE)
<1>1. Between(FocusPackage(g, p, TRUE), X, Y) = Reaching(FoldEdges(E, box), X, Y)
  BY FocusIs DEF Between, Reaching
<1>2. IsFiniteSet(E) /\ \A e \in E : e.weight \in Int
  <2>1. E \in SUBSET g.edges
    BY DEF DrawnOf
  <2> QED
    BY <2>1, EdgesWeigh
<1> HIDE DEF E, box
<1>3. WeightOf(Reaching(FoldEdges(E, box), X, Y)) = WeightOf(Landing(E, box, X, Y))
  BY <1>2, FoldKeepsWeight
<1> QED
  BY <1>1, <1>3 DEF E, box

LEMMA PackagesWeighTheSame ==
  ASSUME NEW g, IsSnapshot(g), NEW p \in PackagesInSnapshot(g), NEW q \in PackagesInSnapshot(g), p # q
  PROVE  LET all == CollapseToPackages(g)
             Close(r) == FocusPackage(g, r, TRUE)
         IN /\ WeightOf(Between(all, {p}, {q})) = WeightOf(Between(Close(p), Ids(Files(Close(p))), {q}))
            /\ WeightOf(Between(all, {p}, {q})) = WeightOf(Between(Close(q), {p}, Ids(Files(Close(q)))))
<1>0. \A r \in {p, q}, id \in Ids(Files(g)) : id = r => PkgOf(g)[id] = r
  BY NamedAsPackage
<1>1. ASSUME NEW r \in {p, q}, NEW id \in Ids(Files(g))
      PROVE  /\ id \in Ids(Inside(g, r, TRUE)) <=> PkgOf(g)[id] = r
             /\ BoxIn(g, r, TRUE)[id] = IF PkgOf(g)[id] = r THEN id ELSE PkgOf(g)[id]
  <2>1. id \in Ids(Inside(g, r, TRUE)) <=> PkgOf(g)[id] = r
    BY InsideIs
  <2>2. BoxIn(g, r, TRUE)[id] = IF id \in Ids(Inside(g, r, TRUE)) THEN id ELSE PkgOf(g)[id]
    BY BoxIs
  <2> QED
    BY <2>1, <2>2
<1>2. ASSUME NEW r \in {p, q} PROVE Ids(Inside(g, r, TRUE)) \subseteq Ids(Files(g))
  BY DEF Ids, Inside
<1>3. ASSUME NEW r \in {p, q}, NEW e
      PROVE  e \in DrawnOf(g, r, TRUE) <=>
               /\ e \in g.edges /\ {e.src, e.dst} \subseteq Ids(Files(g))
               /\ r \in {PkgOf(g)[e.src], PkgOf(g)[e.dst]}
  <2> DEFINE P == Ids(Inside(g, r, TRUE))
  <2>1. DOMAIN PkgOf(g) = Ids(Files(g))
    BY FilesAre
  <2>2. e \in DrawnOf(g, r, TRUE) <=>
          /\ e \in g.edges /\ {e.src, e.dst} \subseteq Ids(Files(g))
          /\ {e.src, e.dst} \cap P # {} /\ \A id \in {e.src, e.dst} \ P : PkgOf(g)[id] # r
    BY <2>1 DEF DrawnOf, IsDrawn
  <2>3. \A id \in Ids(Files(g)) : id \in P <=> PkgOf(g)[id] = r
    BY <1>1
  <2> HIDE DEF P
  <2> QED
    BY <2>2, <2>3
<1>4. Landing(DrawnOf(g, p, TRUE), BoxIn(g, p, TRUE), Ids(Inside(g, p, TRUE)), {q}) = From(g, p, q)
  <2>1. ASSUME NEW e \in DrawnOf(g, p, TRUE)
        PROVE  BoxIn(g, p, TRUE)[e.src] \in Ids(Inside(g, p, TRUE)) /\ BoxIn(g, p, TRUE)[e.dst] \in {q}
                 <=> PkgOf(g)[e.src] = p /\ PkgOf(g)[e.dst] = q
    <3>1. e.src \in Ids(Files(g)) /\ e.dst \in Ids(Files(g))
      BY <1>3
    <3>2. BoxIn(g, p, TRUE)[e.src] \in Ids(Inside(g, p, TRUE)) <=> PkgOf(g)[e.src] = p
      <4>1. /\ e.src \in Ids(Inside(g, p, TRUE)) <=> PkgOf(g)[e.src] = p
            /\ BoxIn(g, p, TRUE)[e.src] = IF PkgOf(g)[e.src] = p THEN e.src ELSE PkgOf(g)[e.src]
        BY <1>1, <3>1
      <4>2. PkgOf(g)[e.src] \in Ids(Inside(g, p, TRUE)) => PkgOf(g)[e.src] = p
        BY <3>1, InsideAndNamed
      <4> QED
        BY <4>1, <4>2
    <3>3. BoxIn(g, p, TRUE)[e.dst] = q <=> PkgOf(g)[e.dst] = q
      <4>1. BoxIn(g, p, TRUE)[e.dst] = IF PkgOf(g)[e.dst] = p THEN e.dst ELSE PkgOf(g)[e.dst]
        BY <1>1, <3>1
      <4>2. e.dst = q => PkgOf(g)[e.dst] # p
        BY <1>0, <3>1
      <4> QED
        BY <4>1, <4>2
    <3> QED
      BY <3>2, <3>3
  <2> QED
    BY <1>3, <2>1 DEF From, Landing
<1>5. Landing(DrawnOf(g, q, TRUE), BoxIn(g, q, TRUE), {p}, Ids(Inside(g, q, TRUE))) = From(g, p, q)
  <2>1. ASSUME NEW e \in DrawnOf(g, q, TRUE)
        PROVE  BoxIn(g, q, TRUE)[e.src] \in {p} /\ BoxIn(g, q, TRUE)[e.dst] \in Ids(Inside(g, q, TRUE))
                 <=> PkgOf(g)[e.src] = p /\ PkgOf(g)[e.dst] = q
    <3>1. e.src \in Ids(Files(g)) /\ e.dst \in Ids(Files(g))
      BY <1>3
    <3>2. BoxIn(g, q, TRUE)[e.dst] \in Ids(Inside(g, q, TRUE)) <=> PkgOf(g)[e.dst] = q
      <4>1. /\ e.dst \in Ids(Inside(g, q, TRUE)) <=> PkgOf(g)[e.dst] = q
            /\ BoxIn(g, q, TRUE)[e.dst] = IF PkgOf(g)[e.dst] = q THEN e.dst ELSE PkgOf(g)[e.dst]
        BY <1>1, <3>1
      <4>2. PkgOf(g)[e.dst] \in Ids(Inside(g, q, TRUE)) => PkgOf(g)[e.dst] = q
        BY <3>1, InsideAndNamed
      <4> QED
        BY <4>1, <4>2
    <3>3. BoxIn(g, q, TRUE)[e.src] = p <=> PkgOf(g)[e.src] = p
      <4>1. BoxIn(g, q, TRUE)[e.src] = IF PkgOf(g)[e.src] = q THEN e.src ELSE PkgOf(g)[e.src]
        BY <1>1, <3>1
      <4>2. e.src = p => PkgOf(g)[e.src] # q
        BY <1>0, <3>1
      <4> QED
        BY <4>1, <4>2
    <3> QED
      BY <3>2, <3>3
  <2> QED
    BY <1>3, <2>1 DEF From, Landing
<1>6. WeightOf(Between(FocusPackage(g, p, TRUE), Ids(Files(FocusPackage(g, p, TRUE))), {q})) = WeightOf(From(g, p, q))
  BY <1>4, FocusWeighs, FocusFiles
<1>7. WeightOf(Between(FocusPackage(g, q, TRUE), {p}, Ids(Files(FocusPackage(g, q, TRUE))))) = WeightOf(From(g, p, q))
  BY <1>5, FocusWeighs, FocusFiles
<1> QED
  BY <1>6, <1>7, OverviewWeighs

(* Leaving the tests of a package out takes away their edges, no other's.      *)
LEMMA FoldedIff ==
  ASSUME NEW E, NEW box, NEW f
  PROVE  f \in FoldEdges(E, box) <=>
           /\ Joining(E, box, f.src, f.dst) # {}
           /\ f = Edge(f.src, f.dst, "imports", WeightOf(Joining(E, box, f.src, f.dst)))
<1>1. ASSUME f \in FoldEdges(E, box)
      PROVE  /\ Joining(E, box, f.src, f.dst) # {}
             /\ f = Edge(f.src, f.dst, "imports", WeightOf(Joining(E, box, f.src, f.dst)))
  <2>1. f.weight = WeightOf(Joining(E, box, f.src, f.dst))
    BY <1>1, FoldedWeighs
  <2>2. f = Edge(f.src, f.dst, "imports", f.weight)
    BY <1>1, FoldedFrom
  <2>3. PICK e \in E : f.src = box[e.src] /\ f.dst = box[e.dst]
    BY <1>1, FoldedFrom
  <2>4. Joining(E, box, f.src, f.dst) # {}
    BY <2>3 DEF Joining
  <2> QED
    BY <2>1, <2>2, <2>4
<1>2. ASSUME Joining(E, box, f.src, f.dst) # {},
             f = Edge(f.src, f.dst, "imports", WeightOf(Joining(E, box, f.src, f.dst)))
      PROVE  f \in FoldEdges(E, box)
  <2>1. PICK e \in E : f.src = box[e.src] /\ f.dst = box[e.dst]
    BY <1>2 DEF Joining
  <2>2. PICK i \in FoldEdges(E, box) : i.src = box[e.src] /\ i.dst = box[e.dst]
    BY FoldedAll
  <2>3. i.src = f.src /\ i.dst = f.dst
    BY <2>1, <2>2
  <2>4. i.weight = WeightOf(Joining(E, box, f.src, f.dst))
    BY <2>3, FoldedWeighs
  <2>5. i = Edge(f.src, f.dst, "imports", i.weight)
    BY <2>3, FoldedFrom
  <2> QED
    BY <1>2, <2>2, <2>4, <2>5
<1> QED
  BY <1>1, <1>2

LEMMA QuietIsKept ==
  ASSUME NEW g, IsSnapshot(g), NEW p \in PackagesInSnapshot(g)
  PROVE  LET close == FocusPackage(g, p, TRUE)
             tests == {n.id : n \in {m \in Files(g) : m.role = "test"}}
         IN FocusPackage(g, p, FALSE).edges
              = {e \in close.edges : {e.src, e.dst} \cap (tests \cap Ids(Files(close))) = {}}
<1> DEFINE tests == {n.id : n \in {m \in Files(g) : m.role = "test"}}
           P == Ids(Inside(g, p, TRUE))
           Q == Ids(Inside(g, p, FALSE))
           T == tests \cap P
           near == BoxIn(g, p, TRUE)
           far == BoxIn(g, p, FALSE)
           N == DrawnOf(g, p, TRUE)
           F == DrawnOf(g, p, FALSE)
<1>1. P \subseteq Ids(Files(g)) /\ Q \subseteq Ids(Files(g))
  BY DEF Ids, Inside
<1>2. \A id \in Ids(Files(g)) : id \in tests <=> NodeOf(Files(g), id).role = "test"
  <2>1. \A m, n \in Files(g) : m.id = n.id => m = n
    BY DEF IsSnapshot, Files
  <2> QED
    BY <2>1, FilesAre
<1>3. ASSUME NEW id \in Ids(Files(g))
      PROVE  /\ id \in P <=> PkgOf(g)[id] = p
             /\ id \in Q <=> id \in P /\ id \notin T
             /\ near[id] = IF id \in P THEN id ELSE PkgOf(g)[id]
             /\ far[id] = IF id \in Q THEN id ELSE PkgOf(g)[id]
             /\ id \notin P => PkgOf(g)[id] \notin P
  <2>1. /\ id \in P <=> PkgOf(g)[id] = p
        /\ id \in Q <=> PkgOf(g)[id] = p /\ NodeOf(Files(g), id).role # "test"
        /\ near[id] = IF id \in P THEN id ELSE PkgOf(g)[id]
        /\ far[id] = IF id \in Q THEN id ELSE PkgOf(g)[id]
    BY InsideIs, BoxIs
  <2>2. PkgOf(g)[id] \in P => PkgOf(g)[id] = p
    BY InsideAndNamed
  <2>3. id \in tests <=> NodeOf(Files(g), id).role = "test"
    BY <1>2
  <2> HIDE DEF P, Q, near, far, tests
  <2> QED
    BY <2>1, <2>2, <2>3
<1>4. ASSUME NEW e
      PROVE  /\ e \in N <=> /\ e \in g.edges /\ {e.src, e.dst} \subseteq Ids(Files(g))
                            /\ {e.src, e.dst} \cap P # {}
             /\ e \in F <=> /\ e \in g.edges /\ {e.src, e.dst} \subseteq Ids(Files(g))
                            /\ {e.src, e.dst} \cap P # {} /\ {e.src, e.dst} \cap T = {}
  <2>1. DOMAIN PkgOf(g) = Ids(Files(g))
    BY FilesAre
  <2>2. e \in N <=> /\ e \in g.edges /\ {e.src, e.dst} \subseteq Ids(Files(g))
                    /\ {e.src, e.dst} \cap P # {} /\ \A id \in {e.src, e.dst} \ P : PkgOf(g)[id] # p
    BY <2>1 DEF DrawnOf, IsDrawn
  <2>3. e \in F <=> /\ e \in g.edges /\ {e.src, e.dst} \subseteq Ids(Files(g))
                    /\ {e.src, e.dst} \cap Q # {} /\ \A id \in {e.src, e.dst} \ Q : PkgOf(g)[id] # p
    BY <2>1 DEF DrawnOf, IsDrawn
  <2>4. \A id \in Ids(Files(g)) : (id \in P <=> PkgOf(g)[id] = p) /\ (id \in Q <=> id \in P /\ id \notin T)
    BY <1>3
  <2> HIDE DEF N, F, P, Q, T, near, far
  <2>5. ASSUME e.src \in Ids(Files(g)), e.dst \in Ids(Files(g)) 
        PROVE  /\ \A id \in {e.src, e.dst} \ P : PkgOf(g)[id] # p
               /\ ({e.src, e.dst} \cap Q # {} /\ \A id \in {e.src, e.dst} \ Q : PkgOf(g)[id] # p)
                    <=> ({e.src, e.dst} \cap P # {} /\ {e.src, e.dst} \cap T = {})
    <3>1. T \subseteq P
      BY DEF T
    <3> QED
      BY <2>4, <2>5, <3>1
  <2>6. e \in N <=> /\ e \in g.edges /\ {e.src, e.dst} \subseteq Ids(Files(g))
                    /\ {e.src, e.dst} \cap P # {}
    BY <2>2, <2>5
  <2>7. e \in F <=> /\ e \in g.edges /\ {e.src, e.dst} \subseteq Ids(Files(g))
                    /\ {e.src, e.dst} \cap P # {} /\ {e.src, e.dst} \cap T = {}
    BY <2>3, <2>5
  <2> QED
    BY <2>6, <2>7
<1> HIDE DEF N, F, P, Q, T, near, far
<1>5. T \subseteq P
  BY DEF T
<1>6. ASSUME NEW src, NEW dst, {src, dst} \cap T = {}
      PROVE  Joining(F, far, src, dst) = Joining(N, near, src, dst)
  <2>1. ASSUME NEW e \in F PROVE e \in N /\ near[e.src] = far[e.src] /\ near[e.dst] = far[e.dst]
    BY <1>3, <1>4
  <2>2. ASSUME NEW e \in N, near[e.src] = src, near[e.dst] = dst PROVE e \in F
    <3>1. e \in g.edges /\ e.src \in Ids(Files(g)) /\ e.dst \in Ids(Files(g)) /\ {e.src, e.dst} \cap P # {}
      BY <1>4
    <3>2. e.src \in P => src = e.src
      BY <1>3, <2>2, <3>1
    <3>3. e.dst \in P => dst = e.dst
      BY <1>3, <2>2, <3>1
    <3>4. {e.src, e.dst} \cap T = {}
      BY <1>5, <1>6, <3>2, <3>3
    <3> QED
      BY <1>4, <3>1, <3>4
  <2> QED
    BY <2>1, <2>2 DEF Joining
<1>7. ASSUME NEW f \in FoldEdges(F, far) PROVE {f.src, f.dst} \cap T = {}
  <2>1. PICK e \in F : f.src = far[e.src] /\ f.dst = far[e.dst]
    BY FoldedFrom
  <2>2. e.src \in Ids(Files(g)) /\ e.dst \in Ids(Files(g)) /\ {e.src, e.dst} \cap T = {}
    BY <1>4
  <2>3. \A id \in Ids(Files(g)) \ T : far[id] \notin T
    BY <1>1, <1>3, <1>5
  <2> QED
    BY <2>1, <2>2, <2>3
<1>8. FocusPackage(g, p, FALSE).edges = FoldEdges(F, far) /\ FocusPackage(g, p, TRUE).edges = FoldEdges(N, near)
  BY FocusIs DEF F, far, N, near
<1>9. Ids(Files(FocusPackage(g, p, TRUE))) = P
  BY FocusFiles DEF P
<1>10. FoldEdges(F, far) = {f \in FoldEdges(N, near) : {f.src, f.dst} \cap T = {}}
  <2>1. ASSUME NEW f, {f.src, f.dst} \cap T = {}
        PROVE  f \in FoldEdges(F, far) <=> f \in FoldEdges(N, near)
    BY <1>6, <2>1, FoldedIff
  <2> QED
    BY <1>7, <2>1
<1> QED
  BY <1>8, <1>9, <1>10 DEF T

(* No drawn edge ends in nothing.                                              *)
LEMMA FocusIsClosed ==
  ASSUME NEW g, NEW p, NEW tests
  PROVE  IsClosed(FocusPackage(g, p, tests))
<1> DEFINE f == FocusPackage(g, p, tests)
           P == Ids(Inside(g, p, tests))
           E == DrawnOf(g, p, tests)
           box == BoxIn(g, p, tests)
<1>1. ASSUME NEW e \in E, NEW id \in {e.src, e.dst}
      PROVE  box[id] \in Ids(f.nodes)
  <2>1. id \in DOMAIN PkgOf(g)
    BY DEF DrawnOf, IsDrawn
  <2>2. box[id] = IF id \in P THEN id ELSE PkgOf(g)[id]
    BY <2>1 DEF BoxIn
  <2>3. id \notin P => PkgOf(g)[id] \in Neighbours(g, p, tests)
    <3>1. id \in Ends(DrawnOf(g, p, tests))
      BY DEF Ends
    <3> QED
      BY <3>1 DEF Neighbours
  <2>4. P \subseteq Ids(f.nodes)
    BY FocusIs DEF Ids
  <2>5. \A nb \in Neighbours(g, p, tests) : nb \in Ids(f.nodes)
    <3>1. \A nb : Package(nb).id = nb
      BY DEF Package
    <3>2. \A nb \in Neighbours(g, p, tests) : Package(nb) \in f.nodes
      BY FocusIs
    <3> HIDE DEF f
    <3> QED
      BY <3>1, <3>2 DEF Ids
  <2> HIDE DEF f, P, box
  <2> QED
    BY <2>2, <2>3, <2>4, <2>5
<1>2. f.edges = FoldEdges(E, box)
  BY FocusIs
<1> HIDE DEF f, E, box
<1>3. \A e \in f.edges : {e.src, e.dst} \subseteq Ids(f.nodes)
  BY <1>1, <1>2, FoldedFrom
<1> QED
  BY <1>3 DEF IsClosed, f

LEMMA OverviewIsClosed ==
  ASSUME NEW g
  PROVE  IsClosed(CollapseToPackages(g))
<1> DEFINE all == CollapseToPackages(g)
           box == PkgOf(g)
           E == Crossing(g.edges, box)
<1>1. all.edges = FoldEdges(E, box) /\ all.nodes = {Package(p) : p \in Range(box)}
  BY DEF CollapseToPackages, Graph, PkgOf
<1>2. \A e \in E : box[e.src] \in Range(box) /\ box[e.dst] \in Range(box)
  BY DEF Crossing, Range
<1>3. Ids(all.nodes) = Range(box)
  <2>1. \A p : Package(p).id = p
    BY DEF Package
  <2> HIDE DEF all, box
  <2> QED
    BY <1>1, <2>1 DEF Ids
<1> HIDE DEF all, E, box
<1>4. \A e \in all.edges : {e.src, e.dst} \subseteq Ids(all.nodes)
  BY <1>1, <1>2, <1>3, FoldedFrom
<1> QED
  BY <1>4 DEF IsClosed, all

LEMMA DirectoriesAreClosed ==
  ASSUME NEW g, NEW resolve
  PROVE  IsClosed(CollapseToDirectories(g, resolve))
<1> DEFINE v == CollapseToDirectories(g, resolve)
<1>1. PICK E : v.edges = E /\ v.nodes = {Package(d) : d \in Ends(E)}
  BY DEF CollapseToDirectories, Graph
<1>2. \A d : Package(d).id = d
  BY DEF Package
<1> HIDE DEF v
<1>3. \A e \in v.edges : {e.src, e.dst} \subseteq Ids(v.nodes)
  <2>1. \A d : Package(d) \in v.nodes => d \in Ids(v.nodes)
    BY <1>2 DEF Ids
  <2>2. \A e \in v.edges : Package(e.src) \in v.nodes /\ Package(e.dst) \in v.nodes
    BY <1>1 DEF Ends
  <2> QED
    BY <2>1, <2>2
<1> QED
  BY <1>3 DEF IsClosed, v

LEMMA ResolvedIsClosed ==
  ASSUME NEW g, IsSnapshot(g)
  PROVE  IsClosed(ResolveBarrels(g))
<1> DEFINE E == ResolveBarrelEdges(g)
           v == ResolveBarrels(g)
<1>1. v.edges = E /\ v.nodes = {n \in g.nodes : n.role # "barrel" \/ \E e \in E : n.id \in {e.src, e.dst}}
  BY DEF ResolveBarrels, Graph
<1>2. ASSUME NEW e \in E PROVE e.src \in Ids(g.nodes) /\ e.dst \in Ids(g.nodes)
  <2>1. CASE e \in g.edges
    BY <2>1 DEF IsSnapshot
  <2>2. CASE e \notin g.edges
    <3>0. PICK d \in g.edges : \E r \in Forwards(g, d.dst) : \E w :
            e = [d EXCEPT !.dst = r.dst, !.via = d.dst, !.weight = w]
      <4> DEFINE New(d, r) == [d EXCEPT !.dst = r.dst, !.via = d.dst,
                                 !.weight = (EdgeWeight(d) * EdgeWeight(r)) \div WeightOf(Forwards(g, d.dst))]
      <4>1. e \in UNION {{New(d, r) : r \in Forwards(g, d.dst)} : d \in {d \in g.edges : d.dst \in SeenThrough(g)}}
        BY <1>2, <2>2 DEF ResolveBarrelEdges
      <4>2. PICK d \in g.edges : e \in {New(d, r) : r \in Forwards(g, d.dst)}
        <5> HIDE DEF New
        <5> QED
          BY <4>1
      <4>3. PICK r \in Forwards(g, d.dst) : e = New(d, r)
        <5> HIDE DEF New
        <5> QED
          BY <4>2
      <4> QED
        BY <4>3
    <3>1. PICK r \in Forwards(g, d.dst) : \E w : e = [d EXCEPT !.dst = r.dst, !.via = d.dst, !.weight = w]
      BY <3>0
    <3>2. d = Edge(d.src, d.dst, d.kind, d.weight) /\ d.src \in Ids(g.nodes)
      BY DEF IsSnapshot
    <3>3. e.src = d.src /\ e.dst = r.dst
      BY <3>1, <3>2 DEF Edge
    <3>4. r \in g.edges
      BY DEF Forwards
    <3> QED
      BY <3>2, <3>3, <3>4 DEF IsSnapshot
  <2> QED
    BY <2>1, <2>2
<1> HIDE DEF E, v
<1>3. \A e \in v.edges : {e.src, e.dst} \subseteq Ids(v.nodes)
  BY <1>1, <1>2 DEF Ids
<1> QED
  BY <1>3 DEF IsClosed, v

(* However a snapshot is looked at, its views agree: the overview and the two  *)
(* close views weigh the references of two packages the same, leaving tests    *)
(* out drops their edges alone, no edge is left without an end                 *)
(* (collapse-packages.ts, focus-package.ts, barrel-resolve.ts).                *)
THEOREM EverySnapshotAgrees ==
  ASSUME NEW g, IsSnapshot(g)
  PROVE  ViewsOfOneSnapshotAgree(g)
<1>1. \A p \in PackagesInSnapshot(g) : \A q \in PackagesInSnapshot(g) \ {p} :
        LET all == CollapseToPackages(g)
            Close(r) == FocusPackage(g, r, TRUE)
        IN /\ WeightOf(Between(all, {p}, {q})) = WeightOf(Between(Close(p), Ids(Files(Close(p))), {q}))
           /\ WeightOf(Between(all, {p}, {q})) = WeightOf(Between(Close(q), {p}, Ids(Files(Close(q)))))
  BY PackagesWeighTheSame
<1>2. \A p \in PackagesInSnapshot(g) :
        LET close == FocusPackage(g, p, TRUE)
            tests == {n.id : n \in {m \in Files(g) : m.role = "test"}}
        IN FocusPackage(g, p, FALSE).edges
             = {e \in close.edges : {e.src, e.dst} \cap (tests \cap Ids(Files(close))) = {}}
  BY QuietIsKept
<1>3. \A v \in {CollapseToPackages(g), ResolveBarrels(g), CollapseToDirectories(g, TRUE), CollapseToDirectories(g, FALSE)} :
        IsClosed(v)
  <2>1. IsClosed(CollapseToPackages(g)) /\ IsClosed(ResolveBarrels(g))
    BY OverviewIsClosed, ResolvedIsClosed
  <2>2. IsClosed(CollapseToDirectories(g, TRUE)) /\ IsClosed(CollapseToDirectories(g, FALSE))
    BY DirectoriesAreClosed
  <2> QED
    BY <2>1, <2>2
<1>4. \A h \in {g, ResolveBarrels(g)}, p \in PackagesInSnapshot(g), tests \in BOOLEAN :
        IsClosed(FocusPackage(h, p, tests))
  BY FocusIsClosed
<1> QED
  BY <1>1, <1>2, <1>3, <1>4, Zenon DEF ViewsOfOneSnapshotAgree

(* -------------------------------------------------------------------------- *)
(* A page of two snapshots shows every node once and every edge with a status, *)
(* and as removed exactly the edges with no heir (diff-snapshot.ts).           *)
THEOREM EveryDiffShowsBoth ==
  ASSUME NEW from, NEW to, NEW renames, IsSnapshot(from), IsSnapshot(to), IsRenaming(from, to, renames)
  PROVE  DiffShowsBoth(from, to, renames)
<1> DEFINE drawn == UnionNodes(from, to, renames)
           status == ClassifyEdges(from, to, renames)
           kept == {Key(e) : e \in to.edges}
           lost == {Key(e) : e \in {f \in from.edges : RemappedKey(f, renames) \notin kept}}
           added == DiffSnapshots(from, to, renames).addedEdges
<1>1. \A n \in from.nodes : Remapped(n.id, renames) \in Ids(drawn)
  <2> SUFFICES ASSUME NEW n \in from.nodes PROVE Remapped(n.id, renames) \in Ids(drawn)
    OBVIOUS
  <2>1. Ids(to.nodes) \subseteq Ids(drawn)
    BY DEF UnionNodes, Ids
  <2>2. CASE n.id \in DOMAIN renames
    BY <2>1, <2>2 DEF Remapped, IsRenaming, Range
  <2>3. CASE n.id \notin DOMAIN renames
    <3>1. Remapped(n.id, renames) = n.id
      BY <2>3 DEF Remapped
    <3>2. n.id \notin Ids(to.nodes) => n \in drawn
      BY <3>1 DEF UnionNodes
    <3> HIDE DEF drawn
    <3> QED
      BY <2>1, <3>1, <3>2 DEF Ids
  <2> QED
    BY <2>2, <2>3
<1>2. \A n \in drawn : Cardinality({m \in drawn : m.id = n.id}) = 1
  <2> SUFFICES ASSUME NEW n \in drawn PROVE Cardinality({m \in drawn : m.id = n.id}) = 1
    OBVIOUS
  <2>1. \A m \in drawn : m.id = n.id => m = n
    BY DEF UnionNodes, IsSnapshot, Ids
  <2>2. {m \in drawn : m.id = n.id} = {n}
    <3> HIDE DEF drawn
    <3> QED
      BY <2>1
  <2> QED
    BY <2>2, FS_Singleton
<1>3. DOMAIN status = kept \cup lost
      /\ \A k \in kept \cup lost :
           status[k] = IF k \in kept THEN (IF k \in added THEN "added" ELSE "unchanged") ELSE "removed"
  BY DEF ClassifyEdges
<1>4. {Key(e) : e \in UnionEdges(from, to, renames)} = kept \cup lost
  BY DEF UnionEdges
<1>5. kept \cap lost = {}
  <2> SUFFICES ASSUME NEW e \in from.edges, RemappedKey(e, renames) \notin kept, Key(e) \in kept PROVE FALSE
    OBVIOUS
  <2>1. PICK t \in to.edges : Key(e) = Key(t)
    OBVIOUS
  <2>2. e.src = t.src /\ e.dst = t.dst
    BY <2>1 DEF Key
  <2>3. e.src \notin DOMAIN renames /\ e.dst \notin DOMAIN renames
    BY <2>2 DEF IsSnapshot, IsRenaming
  <2>4. RemappedKey(e, renames) = Key(e)
    BY <2>3 DEF RemappedKey, Remapped, Key
  <2> QED
    BY <2>4
<1>6. {k \in DOMAIN status : status[k] = "removed"} = lost
  <2> HIDE DEF status, kept, lost, added
  <2> QED
    BY <1>3, <1>5
<1> QED
  BY <1>1, <1>2, <1>3, <1>4, <1>6 DEF DiffShowsBoth

(* The pages tell the truth, however they are used: about their view, and, of  *)
(* every snapshot and every two, what these hold (collapse-packages.ts,        *)
(* focus-package.ts, diff-snapshot.ts and template-script.ts).                 *)
THEOREM PagesStayTrue == PageSpec => []PagesTellTheTruth
<1>1. ViewsAgree
  BY DrawnAssumption, EverySnapshotAgrees, EveryDiffShowsBoth DEF ViewsAgree
<1>2. PageTellsTheView => PagesTellTheTruth
  BY <1>1 DEF PagesTellTheTruth
<1> QED
  BY <1>2, PagesFollowTheirViews, PTL
=============================================================================
