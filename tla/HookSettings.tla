------------------------------ MODULE HookSettings ------------------------------
(***************************************************************************)
(* What one tool call is sent under (hooks/threefold_hook.py: config_root, *)
(* resolve_settings, _read_include, _paired): the walk up from the agent's *)
(* folder, then the environment, the repository's .threefold.json and      *)
(* THREEFOLD_HOME/config.json, first one wins; and whether a file may      *)
(* leave the machine under them (held_back_category).                      *)
(***************************************************************************)
EXTENDS Integers, FiniteSets, Functions

CONSTANTS
  Folders,
  Parent,         \* the folder above each; Top has none
  Layouts,        \* what the folders hold: for each its config and whether it is a checkout
  Environments, Homes,
  KeyFiles,       \* the files that do hold a key
  Default,        \* DEFAULT_ENDPOINT
  MaxWalkUp       \* MAX_WALK_UP

Unset == "none"
Top   == "top"
Bad   == "bad"     \* a value of the wrong type, or not one of those that mean anything

(* What the constants must be: an endpoint of the environment is taken as  *)
(* it stands.                                                              *)
SettingsFit ==
  /\ Parent \in [Folders -> Folders \cup {Top}] /\ {Top, Unset} \cap Folders = {}
  /\ MaxWalkUp \in Nat /\ \A e \in Environments : e.endpoint # Bad

(* A file that cannot be used may still name an include list.  A list is    *)
(* the set of folders its globs cover: a glob that means nothing covers     *)
(* none, and NoList is an absent, null or empty one.                        *)
NoList   == {Unset}
NoConfig == [state |-> "absent", project |-> Unset, endpoint |-> Unset, mode |-> Unset, key |-> Unset, include |-> NoList]
Broken(names) == [NoConfig EXCEPT !.state = "broken", !.include = IF names THEN {} ELSE NoList]

VARIABLES
  tree, env, home,
  agentIn, fileIn,   \* where the agent stands, and the folder of the file it changes
  doing, look, ups,  \* the walk
  checkout,          \* the checkout it met, or Unset
  root,              \* config_root
  settings, keyFile

settingsVars == <<tree, env, home, agentIn, fileIn, doing, look, ups, checkout, root, settings, keyFile>>

NoSettings ==
  [project |-> Unset, endpoint |-> Default, source |-> "default", mode |-> Unset,
   key |-> Unset, include |-> NoList, sent |-> FALSE]

SettingsInit ==
  /\ tree \in Layouts /\ env \in Environments /\ home \in Homes
  /\ agentIn \in Folders /\ fileIn \in Folders
  /\ doing = "find" /\ look = agentIn /\ ups = 0 /\ checkout = Unset /\ root = Unset
  /\ settings = NoSettings /\ keyFile = Unset

Chosen == UNCHANGED <<tree, env, home, agentIn, fileIn>>
Walks(place) == doing = place /\ Chosen /\ UNCHANGED <<settings, keyFile>>

HasFile(f) == tree[f].config.state # "absent"

(* The folders at and above f.                                             *)
Climb(f, far) ==
  LET up[k \in 0..far] == IF k = 0 THEN f ELSE IF up[k - 1] = Top THEN Top ELSE Parent[up[k - 1]]
  IN  up
Under(f, g) == g \in Range(Climb(f, Cardinality(Folders)))

(* _directories_up yields no more than MaxWalkUp.                          *)
Ended == look = Top \/ ups = MaxWalkUp

-----------------------------------------------------------------------------
(* config_root: the nearest folder with a configuration file or a checkout. *)
Find ==
  /\ Walks("find")
  /\ IF Ended THEN doing' = "project" /\ UNCHANGED <<look, ups, checkout, root>>
     ELSE IF HasFile(look) THEN doing' = "project" /\ root' = look /\ UNCHANGED <<look, ups, checkout>>
     ELSE IF tree[look].git
          THEN doing' = "above" /\ checkout' = look /\ look' = Parent[look] /\ ups' = 0 /\ UNCHANGED root
          ELSE look' = Parent[look] /\ ups' = ups + 1 /\ UNCHANGED <<doing, checkout, root>>

(* Slip: the next checkout ends the walk for a workspace.                  *)
AboveToCheckout ==
  /\ Walks("above")
  /\ IF Ended THEN doing' = "project" /\ root' = checkout /\ UNCHANGED <<look, ups, checkout>>
     ELSE IF HasFile(look)
          THEN /\ doing' = "project" /\ UNCHANGED <<look, ups, checkout>>
               /\ root' = IF tree[look].config.include # NoList THEN look ELSE checkout
     ELSE IF tree[look].git THEN doing' = "project" /\ root' = checkout /\ UNCHANGED <<look, ups, checkout>>
     ELSE look' = Parent[look] /\ ups' = ups + 1 /\ UNCHANGED <<doing, checkout, root>>

(* _workspace_above: only a configuration file ends this walk, and it is a *)
(* workspace's when it has an include list.                                *)
AboveCheckout ==
  /\ Walks("above")
  /\ IF Ended THEN doing' = "project" /\ root' = checkout /\ UNCHANGED <<look, ups, checkout>>
     ELSE IF HasFile(look)
          THEN /\ doing' = "project" /\ UNCHANGED <<look, ups, checkout>>
               /\ root' = IF tree[look].config.include # NoList THEN look ELSE checkout
     ELSE look' = Parent[look] /\ ups' = ups + 1 /\ UNCHANGED <<doing, checkout, root>>

-----------------------------------------------------------------------------
(* resolve_settings: the environment, the repository's file, the owner's.  *)
Repo == IF root = Unset THEN NoConfig ELSE tree[root].config

Resolves(place, next) == doing = place /\ doing' = next /\ Chosen /\ UNCHANGED <<look, ups, checkout, root>>

Otherwise(value, next)        == IF value \in {Unset, Bad} THEN next ELSE value
FirstOf(of, repos, homes, or) == Otherwise(of, Otherwise(repos, Otherwise(homes, or)))

NameProject ==
  /\ Resolves("project", "endpoint")
  /\ settings' = [settings EXCEPT !.project = FirstOf(env.project, Repo.project, home.project, Unset)]
  /\ UNCHANGED keyFile

Endpoint ==
  /\ Resolves("endpoint", "mode") /\ UNCHANGED keyFile
  /\ settings' = [settings EXCEPT
       !.endpoint = FirstOf(env.endpoint, Repo.endpoint, home.endpoint, Default),
       !.source   = IF env.endpoint # Unset THEN "env"
                    ELSE IF Repo.endpoint \notin {Unset, Bad} THEN "repo"
                    ELSE IF home.endpoint \notin {Unset, Bad} THEN "home" ELSE "default"]

Mode ==
  /\ Resolves("mode", "key") /\ UNCHANGED keyFile
  /\ settings' = [settings EXCEPT
       !.mode = FirstOf(Otherwise(env.mode, IF env.dry THEN "observe" ELSE Unset), Repo.mode, home.mode, "enforce")]

(* A key from the environment, or the first file that is named.            *)
Key ==
  /\ Resolves("key", "pair")
  /\ settings' = [settings EXCEPT !.key = env.key]
  /\ keyFile' = IF env.key # Unset THEN Unset ELSE FirstOf(env.keyFile, Repo.key, home.key, Unset)

HomeEndpoint == Otherwise(home.endpoint, Default)
Paired       == <<settings.endpoint, keyFile>> \in home.trusted

Withholds(from) ==
  IF from /\ ~(keyFile # Unset /\ Paired)
  THEN settings' = [settings EXCEPT !.key = Unset] /\ keyFile' = Unset
  ELSE UNCHANGED <<settings, keyFile>>

(* Slip: only a key of the environment is withheld.                        *)
PairEnvironment ==
  /\ Resolves("pair", "read")
  /\ Withholds(settings.source = "repo" /\ settings.endpoint # HomeEndpoint /\ settings.key # Unset)

(* An endpoint the repository chose, and nobody else did, gets no key but  *)
(* the one the owner has paired it with.                                   *)
Pair ==
  /\ Resolves("pair", "read")
  /\ Withholds(settings.source = "repo" /\ settings.endpoint # HomeEndpoint /\ (settings.key # Unset \/ keyFile # Unset))

ReadKey ==
  /\ Resolves("read", "send") /\ UNCHANGED keyFile
  /\ settings' = [settings EXCEPT
       !.key = IF keyFile = Unset THEN settings.key ELSE IF keyFile \in KeyFiles THEN keyFile ELSE Unset,
       !.include = Repo.include]

GovernedRoot == IF root # Unset /\ HasFile(root) THEN root ELSE agentIn

(* held_back_category, for one file, and handle for a project nobody named. *)
SendIt ==
  /\ Resolves("send", "done") /\ UNCHANGED keyFile
  /\ settings' = [settings EXCEPT
       !.sent = /\ settings.project # Unset
                /\ Under(fileIn, GovernedRoot)
                /\ settings.include = NoList \/ \E f \in settings.include : Under(fileIn, f)]

SettingsNext ==
  Find \/ AboveCheckout \/ NameProject \/ Endpoint \/ Mode \/ Key \/ Pair \/ ReadKey \/ SendIt

SettingsSpec == SettingsInit /\ [][SettingsNext]_settingsVars

-----------------------------------------------------------------------------
(* PROPERTIES                                                              *)

(* However many checkouts lie between, the nearest configuration file at   *)
(* or above the agent decides: what its include list leaves out, or a file *)
(* that may hold one and cannot be read, stays on the machine.             *)
NearestListHolds ==
  doing = "done" /\ settings.sent =>
    LET up == Climb(agentIn, MaxWalkUp) IN
      \A k \in 0..MaxWalkUp - 1 :
        up[k] # Top /\ HasFile(up[k]) /\ (\A j \in 0..k - 1 : ~HasFile(up[j])) =>
          \/ tree[up[k]].config.include = NoList
          \/ \E f \in tree[up[k]].config.include : Under(fileIn, f)

(* A key goes to an endpoint the owner chose, in the environment, at home  *)
(* or by leaving the default, and to no other unless the owner has paired  *)
(* that endpoint with the file the key was read from.                      *)
KeyStaysWithOwner ==
  doing = "done" /\ settings.key # Unset =>
    \/ settings.endpoint \in {env.endpoint, HomeEndpoint}
    \/ <<settings.endpoint, settings.key>> \in home.trusted

(* Both: what a call is sent under is its owner's to say.                  *)
SettingsHold == NearestListHolds /\ KeyStaysWithOwner
=============================================================================
