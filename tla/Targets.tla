-------------------------------- MODULE Targets --------------------------------
(***************************************************************************)
(* What a client's text resolves to: resolve_session_id, resolve_window_id *)
(* and resolve_pane_id of server.rs, over the hierarchies SessionTree      *)
(* reaches.  A target is a text, like a name: <<"", n>> is the numeral n   *)
(* and <<"0", n>> the numeral with a leading zero, which u64's parser      *)
(* accepts too and which is equal to no index.                             *)
(***************************************************************************)
EXTENDS SessionTree

Unresolved == -1              \* the handler fails; 0 is an id a text can name

IsId(target) == target[1] \in {"", "0"}

\* BTreeMap::values().find(..): the matching thing with the smallest id
Find(ids, Matches(_)) ==
  LET found == {k \in ids : Matches(k)}
  IN  IF found = {} THEN Unresolved ELSE Min(found)

\* Mutant: indexes are not looked at.
MatchesOnlyName(thing, target) == thing.name = target

\* Window::matches_target and Pane::matches_target
MatchesTarget(thing, target) ==
  thing.name = target \/ target = <<"", thing.index>>

\* A number is taken as an id, live or not.
ResolveSession(target) ==
  IF IsId(target) THEN target[2]
  ELSE Find(SessionIds, LAMBDA s : sessions[s].name = target)

\* Mutant: names and indexes come before ids.
ResolveMatching(map, target) ==
  Find(DOMAIN map, LAMBDA k : MatchesTarget(map[k], target) \/ target = <<"", k>>)

\* A number is first an id among the siblings, then a name or an index.
ResolveAmong(map, target) ==
  IF IsId(target) /\ target[2] \in DOMAIN map THEN target[2]
  ELSE Find(DOMAIN map, LAMBDA k : MatchesTarget(map[k], target))

ResolveWindow(s, target) ==
  IF s \notin SessionIds THEN Unresolved
  ELSE ResolveAmong(sessions[s].windows, target)

ResolvePane(s, w, target) ==
  IF s \notin SessionIds \/ w \notin WindowsOf(s) THEN Unresolved
  ELSE ResolveAmong(sessions[s].windows[w].panes, target)

-------------------------------------------------------------------------------
EveryFamily(P(_)) ==
  \A s \in SessionIds :
    /\ P(sessions[s].windows)
    /\ \A w \in WindowsOf(s) : P(sessions[s].windows[w].panes)

\* A live id, given as a number, finds what it belongs to, whatever the names
\* and indexes around it are.
FoundById ==
  /\ \A s \in SessionIds : ResolveSession(<<"", s>>) = s
  /\ EveryFamily(LAMBDA map :
       \A k \in DOMAIN map : ResolveAmong(map, <<"", k>>) = k)

\* A name that is no number finds what bears it, generated names included.
FoundByName ==
  /\ \A s \in SessionIds :
       ~IsId(sessions[s].name) => ResolveSession(sessions[s].name) = s
  /\ EveryFamily(LAMBDA map :
       \A k \in DOMAIN map :
         ~IsId(map[k].name) => ResolveAmong(map, map[k].name) = k)

\* The numbers list shows first, the indexes, find their window or pane
\* unless a sibling has that number for an id or bears it as a name.
FoundByIndex ==
  EveryFamily(LAMBDA map :
    \A k \in DOMAIN map :
      \/ map[k].index \in DOMAIN map
      \/ NameTakenByOther(map, k, <<"", map[k].index>>)
      \/ ResolveAmong(map, <<"", map[k].index>>) = k)

(***************************************************************************)
(* What a client is shown finds what it was shown for: ids always, names   *)
(* that are no number, and indexes that no sibling hides, whatever was     *)
(* created, renamed, deleted and restored before.                          *)
(***************************************************************************)
TargetsFound == FoundById /\ FoundByName /\ FoundByIndex

(***************************************************************************)
(* caterm/src/main.rs:677-679, "Delete a session by id or name" and the    *)
(* same of a window and a pane: the name of a live thing finds it.         *)
(* Violated: a name that is a number is taken for an id first, for a       *)
(* session always, and so kills another one or none.                       *)
(***************************************************************************)
DeletedByName ==
  /\ \A s \in SessionIds : ResolveSession(sessions[s].name) = s
  /\ EveryFamily(LAMBDA map :
       \A k \in DOMAIN map : ResolveAmong(map, map[k].name) = k)
===============================================================================
