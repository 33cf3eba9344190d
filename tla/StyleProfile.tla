----------------------------- MODULE StyleProfile -----------------------------
(* The style profile of the user's home directory: `init` builds it from the   *)
(* repositories, `update` merges a fresh one into it, and in both the user     *)
(* goes through the fresh rules first (init.ts, update.ts, review.ts,          *)
(* profile-from-aggregation.ts, config.ts, compare.ts).  Commands may run at   *)
(* the same time: each reads the file when it starts and writes it whole when  *)
(* its review is over.  What is measured in the code is an input.              *)
EXTENDS Naturals, Sequences, FiniteSets, Functions

CONSTANTS
  Shells,               \* where commands run
  Repos, Tokens, Overrides,
  SectionByCategory,    \* the section of each category of features that has one
  Analyzed,             \* sequences of features: [category, name, convention, confidence]
  Adjusted,             \* what a user can type for a rule: [convention, confidence]
  NoProfile, NoToken,
  Earlier,              \* profiles that reviewed commands may have left before
  MaxCommands

ASSUME EarlierAssumption ==
  \A p \in Earlier :
    /\ DOMAIN p = {"sources", "rules", "overrides"}
    /\ \A key \in DOMAIN p.rules : p.rules[key].of \subseteq p.sources

VARIABLES
  profile,    \* profile.json: [sources, rules, overrides]
  config,     \* config.json: [token, repos]
  shell,      \* each shell's command
  approved,   \* history: the rules the user let pass or typed
  commands    \* how many have been started

profileVars == <<profile, config, shell, approved, commands>>

NoRules == <<>>
Resting == [command |-> "none", stage |-> "idle", repos |-> {}, existing |-> NoProfile, rules |-> NoRules, left |-> {}]

(* A rule is stored under its section and the feature's name; of two features  *)
(* of one key the later is kept, and a category without a section is left out. *)
RuleKey(f) == <<SectionByCategory[f.category], f.name>>
ProfileFromAggregation(features, repos) ==
  LET ruled == {i \in DOMAIN features : features[i].category \in DOMAIN SectionByCategory}
      last(key) == CHOOSE i \in ruled : RuleKey(features[i]) = key /\ \A j \in ruled : RuleKey(features[j]) = key => j <= i
  IN [key \in {RuleKey(features[i]) : i \in ruled} |->
        [convention |-> features[last(key)].convention, confidence |-> features[last(key)].confidence, of |-> repos]]

(* A mutant: the fresh rule always replaces the stored one.                    *)
MergeCategory_Fresh(existing, incoming) ==
  [key \in DOMAIN existing \cup DOMAIN incoming |-> IF key \in DOMAIN incoming THEN incoming[key] ELSE existing[key]]

MergeCategory(existing, incoming) ==
  [key \in DOMAIN existing \cup DOMAIN incoming |->
     IF key \notin DOMAIN existing \/ (key \in DOMAIN incoming /\ incoming[key].confidence > existing[key].confidence)
     THEN incoming[key] ELSE existing[key]]

(* A mutant: the repositories just read are not noted.                         *)
MergeProfiles_OldSources(existing, incoming) ==
  [existing EXCEPT !.rules = MergeCategory(@, incoming.rules)]

MergeProfiles(existing, incoming) ==
  [existing EXCEPT !.rules = MergeCategory(@, incoming.rules), !.sources = @ \cup incoming.sources]

(* compare: what is told of two profiles.                                      *)
CompareProfiles(left, right) ==
  LET told(type, keys) == {[type |-> type, key |-> key] : key \in keys}
  IN told("added", DOMAIN right.rules \ DOMAIN left.rules) \cup told("removed", DOMAIN left.rules \ DOMAIN right.rules)
     \cup told("changed", {key \in DOMAIN left.rules \cap DOMAIN right.rules :
                             \/ left.rules[key].convention # right.rules[key].convention
                             \/ left.rules[key].confidence # right.rules[key].confidence})

(* -------------------------------------------------------------------------- *)
ProfileInit ==
  /\ profile \in Earlier \cup {NoProfile} /\ config = [token |-> NoToken, repos |-> {}]
  /\ approved = IF profile = NoProfile THEN {} ELSE {<<key, profile.rules[key]>> : key \in DOMAIN profile.rules}
  /\ shell = [s \in Shells |-> Resting] /\ commands = 0

Start(s, command, repos) ==
  /\ shell[s].stage = "idle" /\ commands < MaxCommands /\ commands' = commands + 1
  /\ \E features \in Analyzed :
       LET rules == ProfileFromAggregation(features, repos)
       IN shell' = [shell EXCEPT ![s] =
            [command |-> command, stage |-> "review", repos |-> repos, existing |-> profile, rules |-> rules, left |-> DOMAIN rules]]

(* Repositories and token are those of the options, else of the configuration, *)
(* else asked for; then both are saved, if the user wants.                     *)
StartInit(s) ==
  \E given \in SUBSET Repos \ {{}}, token \in Tokens, optional, save \in BOOLEAN :
    LET repos == IF optional \/ config.repos = {} THEN given ELSE config.repos
        used  == IF optional \/ config.token = NoToken THEN token ELSE config.token
    IN /\ config' = IF save THEN [token |-> used, repos |-> repos] ELSE config
       /\ Start(s, "init", repos)
       /\ UNCHANGED <<profile, approved>>

(* Without a profile update ends, and without a token: one of its options, of  *)
(* its environment, or the configuration's.                                    *)
StartUpdate(s) ==
  /\ profile # NoProfile
  /\ Tokens \cup {config.token} # {NoToken}
  /\ \E repos \in (SUBSET Repos \ {{}}) \cup {profile.sources} : Start(s, "update", repos)
  /\ UNCHANGED <<profile, config, approved>>

(* The review: each fresh rule is confirmed, rejected or typed anew.           *)
ReviewRule(s) ==
  /\ shell[s].stage = "review"
  /\ \E key \in shell[s].left :
       LET rule == shell[s].rules[key]
       IN \/ /\ shell' = [shell EXCEPT ![s].left = @ \ {key}]
             /\ approved' = approved \cup {<<key, rule>>}
          \/ /\ shell' = [shell EXCEPT ![s].left = @ \ {key}, ![s].rules = Restrict(@, DOMAIN @ \ {key})]
             /\ UNCHANGED approved
          \/ \E typed \in Adjusted :
               LET adjusted == [rule EXCEPT !.convention = typed.convention, !.confidence = typed.confidence]
               IN /\ shell' = [shell EXCEPT ![s].left = @ \ {key}, ![s].rules[key] = adjusted]
                  /\ approved' = approved \cup {<<key, adjusted>>}
  /\ UNCHANGED <<profile, config, commands>>

(* What the command writes.                                                    *)
Written(c) ==
  IF c.command = "init" THEN [sources |-> c.repos, rules |-> c.rules, overrides |-> {}]
  ELSE MergeProfiles(c.existing, [sources |-> c.repos, rules |-> c.rules])

WriteProfile(s) ==
  /\ shell[s].stage = "review" /\ shell[s].left = {}
  /\ profile' = Written(shell[s]) /\ shell' = [shell EXCEPT ![s] = Resting]
  /\ UNCHANGED <<config, approved, commands>>

(* A download fails, or the user leaves: nothing is written.                   *)
Abort(s) ==
  /\ shell[s].stage = "review" /\ shell' = [shell EXCEPT ![s] = Resting]
  /\ UNCHANGED <<profile, config, approved, commands>>

(* The user's own edit of the file.                                            *)
Override ==
  /\ profile # NoProfile
  /\ \E o \in Overrides \ profile.overrides : profile' = [profile EXCEPT !.overrides = @ \cup {o}]
  /\ UNCHANGED <<config, shell, approved, commands>>

ProfileNext ==
  Override \/ \E s \in Shells : StartInit(s) \/ StartUpdate(s) \/ ReviewRule(s) \/ WriteProfile(s) \/ Abort(s)

ProfileSpec == ProfileInit /\ [][ProfileNext]_profileVars

(* -------------------------------------------------------------------------- *)
(* Whatever commands overlap, every stored rule is one the user let pass or    *)
(* typed, as it is stored, and the repositories it was measured in are among   *)
(* the profile's sources.                                                      *)
ProfileIsReviewed ==
  profile # NoProfile =>
    \A key \in DOMAIN profile.rules :
      <<key, profile.rules[key]>> \in approved /\ profile.rules[key].of \subseteq profile.sources

(* An update takes nothing away that it has read: a rule stays, or gives way   *)
(* to one that is more certain, and the user's overrides stay.  What another   *)
(* command, or the user, wrote during its review is all that can be lost.      *)
UpdateOnlyAdds ==
  [][\A s \in Shells :
       shell[s].command = "update" /\ shell'[s] = Resting /\ profile' # profile =>
         LET read == shell[s].existing
         IN /\ \A d \in CompareProfiles(read, profile') :
                 d.type = "added" \/ (d.type = "changed" /\ profile'.rules[d.key].confidence > read.rules[d.key].confidence)
            /\ read.overrides \subseteq profile'.overrides
            /\ \A key \in DOMAIN shell[s].rules : key \in DOMAIN profile'.rules]_profileVars
=============================================================================
