--------------------------- MODULE TargetBindings ---------------------------
(***************************************************************************)
(* The A2A endpoints an agent is bound to: endpoints ticked in the         *)
(* registry and targets entered by hand live together in one list, the     *)
(* snapshot a2a_targets, which is all the agent runs from.  MCP servers    *)
(* are bound by the same code, with the name in the place of the url.      *)
(*                                                                         *)
(* Requests do not overlap here (SkillBindings has the interleavings of    *)
(* the same steps): the subject is what a sequence of requests makes of    *)
(* the list.  A request of the registry commits twice, its row and the     *)
(* lists of the agents, and may die in between.                            *)
(***************************************************************************)
EXTENDS FiniteSets

CONSTANTS
    Endpoints,  \* rows of the endpoint registry
    Agents,     \* rows of the agent table
    Default,    \* the agent every start ensures
    Urls,       \* addresses
    Tokens,     \* credentials for them
    None,       \* no row
    Unset       \* a field that a request leaves out

ASSUME TargetAssumption == Default \in Agents

VARIABLES
    endpoint,  \* endpoint[e]: row of the registry, or None
    agent,     \* agent[a]: a2a_target_ids and a2a_targets of the row, or None
    todo,      \* the second commit of a request of the registry, or None
    behind     \* agents whose list was not resolved although their ticks, or the
               \* rows of these, changed: a request died, or a restart ticked (history)

vars == <<endpoint, agent, todo, behind>>

Target == [url : Urls, token : Tokens]
Row == [target : Target, enabled : BOOLEAN]
Binding == [ids : SUBSET Endpoints, targets : SUBSET Target]

\* The lists are to be refreshed, or the row to be removed; the row before that.
Rest == [op : {"refresh", "remove"}, of : Endpoints, before : Row]

ASSUME NoneAssumption == None \notin Rest

TypeOK ==
    /\ endpoint \in [Endpoints -> Row \cup {None}]
    /\ agent \in [Agents -> Binding \cup {None}]
    /\ todo \in Rest \cup {None}
    /\ behind \subseteq Agents

Known == {e \in Endpoints : endpoint[e] # None}
Live == {a \in Agents : agent[a] # None}

\* Ids are not used again: the row of a deleted endpoint may be ticked still.
Fresh(e) == endpoint[e] = None /\ \A a \in Live : e \notin agent[a].ids

-----------------------------------------------------------------------------
(* Resolving and merging. *)

\* Of the ticked endpoints, those that exist and are enabled.
Resolve(ids, rows) ==
    {rows[e].target : e \in {i \in ids : rows[i] # None /\ rows[i].enabled}}

UrlsOf(targets) == {t.url : t \in targets}

\* The ways to keep one target for each url.
OnePerUrl(targets) ==
    {kept \in SUBSET targets : /\ UrlsOf(kept) = UrlsOf(targets)
                               /\ \A t, u \in kept : t.url = u.url => t = u}

\* Mutant: a url of the registry may be entered by hand as well.
MergeShadowed(resolved, manual, existing) ==
    {resolved \cup extras : extras \in OnePerUrl(IF manual = Unset THEN existing
                                                                  ELSE manual)}

(***************************************************************************)
(* The resolved targets, and the first of each other url that was entered  *)
(* by hand.  A request without the field keeps what the list held besides  *)
(* the resolved ones.                                                      *)
(***************************************************************************)
Merge(resolved, manual, existing) ==
    LET base == IF manual = Unset THEN existing ELSE manual
        others == {t \in base : t.url \notin UrlsOf(resolved)}
    IN  {resolved \cup extras : extras \in OnePerUrl(others)}

-----------------------------------------------------------------------------
(* The registry. *)

Users(e) == {a \in Live : e \in agent[a].ids}

\* The agents that use e, without these ticks, with what the others resolve to.
Resolved(e, dropped) ==
    [a \in Agents |->
        IF a \in Users(e)
        THEN LET ids == agent[a].ids \ dropped
             IN  [ids |-> ids, targets |-> Resolve(ids, endpoint)]
        ELSE agent[a]]

CreateEndpoint(e, row) ==
    /\ todo = None
    /\ Fresh(e)
    /\ endpoint' = [endpoint EXCEPT ![e] = row]
    /\ UNCHANGED <<agent, todo, behind>>

\* The first commit of an update: the row.
UpdateEndpoint(e, row) ==
    /\ todo = None
    /\ e \in Known
    /\ endpoint' = [endpoint EXCEPT ![e] = row]
    /\ todo' = [op |-> "refresh", of |-> e, before |-> endpoint[e]]
    /\ UNCHANGED <<agent, behind>>

\* The second one: every agent that ticks e gets the list its ticks resolve to.
RefreshAgents(e) ==
    /\ todo # None
    /\ todo.op = "refresh" /\ todo.of = e
    /\ agent' = Resolved(e, {})
    /\ behind' = behind \ Users(e)
    /\ todo' = None
    /\ UNCHANGED endpoint

\* An endpoint in use is deleted by force, which unticks it everywhere first.
DetachEndpoint(e, force) ==
    /\ todo = None
    /\ e \in Known
    /\ force \/ Users(e) = {}
    /\ agent' = Resolved(e, {e})
    /\ behind' = behind \ Users(e)
    /\ todo' = [op |-> "remove", of |-> e, before |-> endpoint[e]]
    /\ UNCHANGED endpoint

DeleteEndpoint(e) ==
    /\ todo # None
    /\ todo.op = "remove" /\ todo.of = e
    /\ endpoint' = [endpoint EXCEPT ![e] = None]
    /\ todo' = None
    /\ UNCHANGED <<agent, behind>>

\* The database or the process fails before the second commit.
RequestDies ==
    /\ todo # None
    /\ behind' = IF todo.op = "refresh" THEN behind \cup Users(todo.of) ELSE behind
    /\ todo' = None
    /\ UNCHANGED <<endpoint, agent>>

-----------------------------------------------------------------------------
(* Agents. *)

CreateAgent(a, ids, manual) ==
    /\ todo = None
    /\ a \notin Live
    /\ a # Default
    /\ \E targets \in Merge(Resolve(ids, endpoint), manual, {}) :
          agent' = [agent EXCEPT ![a] = [ids |-> ids, targets |-> targets]]
    /\ UNCHANGED <<endpoint, todo, behind>>

\* A request may leave out either field; without both the list stays.
UpdateAgent(a, ids, manual) ==
    LET newIds == IF ids = Unset THEN agent[a].ids ELSE ids IN
    /\ todo = None
    /\ a \in Live
    /\ ids # Unset \/ manual # Unset
    /\ \E targets \in Merge(Resolve(newIds, endpoint), manual, agent[a].targets) :
          agent' = [agent EXCEPT ![a] = [ids |-> newIds, targets |-> targets]]
    /\ behind' = behind \ {a}
    /\ UNCHANGED <<endpoint, todo>>

DeleteAgent(a) ==
    /\ todo = None
    /\ a \in Live
    /\ a # Default
    /\ agent' = [agent EXCEPT ![a] = None]
    /\ behind' = behind \ {a}
    /\ UNCHANGED <<endpoint, todo>>

-----------------------------------------------------------------------------
(* Starting. *)

\* A row that a start registers.
Row0(target) == [target |-> target, enabled |-> TRUE]

\* Mutant: every start resolves the list again.
BackfillResolves(found) ==
    /\ agent' = [agent EXCEPT ![Default] =
                   [ids |-> {found[u] : u \in DOMAIN found},
                    targets |-> Resolve({found[u] : u \in DOMAIN found}, endpoint)]]
    /\ behind' = behind \cup {Default}

Backfill(found) ==
    /\ agent' = [agent EXCEPT ![Default] =
                   [ids |-> {found[u] : u \in DOMAIN found}, targets |-> agent[Default].targets]]
    /\ behind' = behind \cup {Default}

(***************************************************************************)
(* A restart ticks, for a default agent with targets but no ticks, the     *)
(* endpoints of these urls, and registers those that are missing.  (Two    *)
(* endpoints of one url make the lookup, and so the start, fail.)          *)
(***************************************************************************)
Restart(found) ==
    /\ todo = None
    /\ agent[Default].ids = {}
    /\ agent[Default].targets # {}
    /\ DOMAIN found = UrlsOf(agent[Default].targets)
    /\ \A u, v \in DOMAIN found : found[u] = found[v] => u = v
    /\ \A u \in DOMAIN found :
          LET same == {e \in Known : endpoint[e].target.url = u}
          IN  IF same = {} THEN Fresh(found[u]) ELSE same = {found[u]}
    /\ \E first \in OnePerUrl(agent[Default].targets) :
          endpoint' = [e \in Endpoints |->
              IF e \in Known \/ \A u \in DOMAIN found : found[u] # e THEN endpoint[e]
              ELSE Row0(CHOOSE t \in first : found[t.url] = e)]
    /\ Backfill(found)
    /\ UNCHANGED todo

-----------------------------------------------------------------------------
\* The first start registers the address of the environment and ticks it.
Init ==
    /\ \E e \in Endpoints, t \in Target :
          /\ endpoint = [f \in Endpoints |-> IF f = e THEN Row0(t) ELSE None]
          /\ agent = [a \in Agents |-> IF a = Default THEN [ids |-> {e}, targets |-> {t}]
                                                    ELSE None]
    /\ todo = None
    /\ behind = {}

RegistryNext ==
    \/ \E e \in Endpoints, row \in Row : CreateEndpoint(e, row)
    \/ \E e \in Endpoints, row \in Row : UpdateEndpoint(e, row)
    \/ \E e \in Endpoints, force \in BOOLEAN : DetachEndpoint(e, force)
    \/ \E e \in Endpoints : RefreshAgents(e) \/ DeleteEndpoint(e)
    \/ RequestDies

AgentNext ==
    \/ \E a \in Agents, ids \in SUBSET Endpoints, manual \in SUBSET Target :
          CreateAgent(a, ids, manual)
    \/ \E a \in Agents, ids \in (SUBSET Endpoints) \cup {Unset},
          manual \in (SUBSET Target) \cup {Unset} : UpdateAgent(a, ids, manual)
    \/ \E a \in Agents : DeleteAgent(a)

Next ==
    \/ RegistryNext
    \/ AgentNext
    \/ \E urls \in SUBSET Urls : \E found \in [urls -> Endpoints] : Restart(found)

Spec == Init /\ [][Next]_vars

-----------------------------------------------------------------------------
(* Correctness. *)

\* Agents whose list has been resolved since their ticks or the rows of these
\* changed: not those that a request in between its commits, or one that died
\* there, has still to refresh, nor a default agent that a restart ticked for.
UpToDate == {a \in Live \ behind : todo # None /\ todo.op = "refresh" => a \notin Users(todo.of)}

\* The calls an agent can make through its ticks follow the registry, however
\* ticks, hand-written targets and changes of the registry came about.
TickedIsBound == \A a \in UpToDate : Resolve(agent[a].ids, endpoint) \subseteq agent[a].targets

\* A target entered by hand never stands in for a ticked endpoint: the list
\* holds nothing for the url of one but what the registry says.
RegistryWins ==
    \A a \in UpToDate : \A t \in agent[a].targets :
        t.url \in UrlsOf(Resolve(agent[a].ids, endpoint))
            => t \in Resolve(agent[a].ids, endpoint)

\* For the url of a ticked endpoint, an agent's list holds what the registry
\* says, all of it and nothing else, unless it is left behind: by the request
\* that is at it, by one that died between its commits, or by a restart.  It
\* catches up with the next request that resolves it.
ListsFollowRegistry == TickedIsBound /\ RegistryWins

\* A restart makes no agent reach another address, or stop reaching one.
RestartKeepsReach ==
    [][(\E urls \in SUBSET Urls : \E found \in [urls -> Endpoints] : Restart(found))
          => \A a \in Live : UrlsOf(agent'[a].targets) = UrlsOf(agent[a].targets)]_vars

\* The registry as the lists know it.
Before == IF todo = None THEN endpoint ELSE [endpoint EXCEPT ![todo.of] = todo.before]

\* Targets entered by hand live beside the ticks: a request of the registry
\* takes from a list that was not behind only what the ticks account for.
ManualKept ==
    [][todo' # todo =>
         \A a \in Live \ behind :
            agent[a].targets \ Resolve(agent[a].ids, Before) \subseteq agent'[a].targets]_vars

=============================================================================
