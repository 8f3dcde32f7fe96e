------------------------- MODULE TargetBindingsProofs -------------------------
(***************************************************************************)
(* The lists of targets are right after any sequence of requests, of which *)
(* any may die between its commits, for any number of endpoints, agents,   *)
(* urls and tokens.                                                        *)
(***************************************************************************)
EXTENDS TargetBindings, TLAPS

\* What resolve_a2a_targets returns depends on the ticked rows only.
LEMMA ResolveAgrees ==
    ASSUME NEW ids, NEW rows, NEW others, \A e \in ids : rows[e] = others[e]
    PROVE  Resolve(ids, rows) = Resolve(ids, others)
BY DEF Resolve

\* Resolving rows of the registry gives targets.
LEMMA ResolveType ==
    ASSUME NEW ids \in SUBSET Endpoints, NEW rows \in [Endpoints -> Row \cup {None}]
    PROVE  \A e \in ids : rows[e] # None => rows[e].target \in Target
BY DEF Row

LEMMA ResolveTargets ==
    ASSUME NEW ids \in SUBSET Endpoints, NEW rows \in [Endpoints -> Row \cup {None}]
    PROVE  Resolve(ids, rows) \in SUBSET Target
BY ResolveType DEF Resolve

\* _merge_bindings returns the resolved targets, and besides them only targets
\* of other urls that the request or the old list holds.
LEMMA MergeParts ==
    ASSUME NEW resolved, NEW manual, NEW existing,
           NEW merged \in Merge(resolved, manual, existing)
    PROVE  /\ resolved \subseteq merged
           /\ \A t \in merged \ resolved :
                 /\ t \in IF manual = Unset THEN existing ELSE manual
                 /\ t.url \notin UrlsOf(resolved)
BY DEF Merge, OnePerUrl

LEMMA MergeType ==
    ASSUME NEW resolved \in SUBSET Target, NEW manual \in (SUBSET Target) \cup {Unset},
           NEW existing \in SUBSET Target,
           NEW merged \in Merge(resolved, manual, existing)
    PROVE  merged \in SUBSET Target
BY MergeParts

LEMMA BindingType ==
    ASSUME NEW ids \in SUBSET Endpoints, NEW targets \in SUBSET Target
    PROVE  [ids |-> ids, targets |-> targets] \in Binding
BY DEF Binding

-----------------------------------------------------------------------------
(* Type correctness. *)

\* The default agent is never deleted.
TypeInv == TypeOK /\ agent[Default] \in Binding

LEMMA TypeInit == Init => TypeInv
<1>  SUFFICES ASSUME Init PROVE TypeInv
     OBVIOUS
<1>1. PICK e \in Endpoints, t \in Target :
        /\ endpoint = [f \in Endpoints |-> IF f = e THEN Row0(t) ELSE None]
        /\ agent = [a \in Agents |-> IF a = Default THEN [ids |-> {e}, targets |-> {t}]
                                                  ELSE None]
      BY DEF Init
<1>2. Row0(t) \in Row
      BY DEF Row0, Row
<1>3. [ids |-> {e}, targets |-> {t}] \in Binding
      BY DEF Binding
<1>   QED BY <1>1, <1>2, <1>3, TargetAssumption DEF Init, TypeInv, TypeOK

\* Re-resolving the agents that use an endpoint.
LEMMA ResolvedType ==
    ASSUME TypeInv, NEW e \in Endpoints, NEW dropped, agent' = Resolved(e, dropped)
    PROVE  /\ agent' \in [Agents -> Binding \cup {None}]
           /\ agent'[Default] \in Binding
<1>  USE TargetAssumption DEF TypeInv, TypeOK
<1>1. ASSUME NEW a \in Users(e)
      PROVE  agent[a].ids \ dropped \in SUBSET Endpoints
      BY <1>1 DEF Users, Live, Binding
<1>2. ASSUME NEW a \in Users(e)
      PROVE  agent'[a] \in Binding
  <2>   DEFINE ids == agent[a].ids \ dropped
  <2>1. a \in Agents
        BY <1>2 DEF Users, Live
  <2>2. agent'[a] = [ids |-> ids, targets |-> Resolve(ids, endpoint)]
        BY <1>2, <2>1 DEF Resolved
  <2>3. ids \in SUBSET Endpoints
        BY <1>1, <1>2
  <2>   HIDE DEF ids
  <2>4. Resolve(ids, endpoint) \in SUBSET Target
        BY <2>3, ResolveTargets
  <2>   QED BY <2>2, <2>3, <2>4, BindingType
<1>3. ASSUME NEW a \in Agents, a \notin Users(e) PROVE agent'[a] = agent[a]
      BY <1>3 DEF Resolved
<1>4. agent' = [a \in Agents |-> agent'[a]]
      BY DEF Resolved
<1>   QED BY <1>2, <1>3, <1>4

LEMMA TypeStep == TypeInv /\ [Next]_vars => TypeInv'
<1>  SUFFICES ASSUME TypeInv, [Next]_vars PROVE TypeInv'
     OBVIOUS
<1>  USE TargetAssumption DEF TypeInv, TypeOK
<1>1. ASSUME NEW a \in Live PROVE agent[a] \in Binding
      BY <1>1 DEF Live
<1>2. ASSUME NEW e \in Endpoints, NEW row \in Row, CreateEndpoint(e, row) PROVE TypeInv'
      BY <1>2 DEF CreateEndpoint
<1>3. ASSUME NEW e \in Endpoints, NEW row \in Row, UpdateEndpoint(e, row) PROVE TypeInv'
  <2>1. endpoint[e] \in Row
        BY <1>3 DEF UpdateEndpoint, Known
  <2>2. [op |-> "refresh", of |-> e, before |-> endpoint[e]] \in Rest
        BY <2>1 DEF Rest
  <2>   QED BY <1>3, <2>2 DEF UpdateEndpoint
<1>4. ASSUME NEW e \in Endpoints, NEW force \in BOOLEAN, DetachEndpoint(e, force)
      PROVE  TypeInv'
  <2>1. endpoint[e] \in Row
        BY <1>4 DEF DetachEndpoint, Known
  <2>2. [op |-> "remove", of |-> e, before |-> endpoint[e]] \in Rest
        BY <2>1 DEF Rest
  <2>3. agent' \in [Agents -> Binding \cup {None}] /\ agent'[Default] \in Binding
        BY <1>4, ResolvedType DEF DetachEndpoint
  <2>4. endpoint' = endpoint /\ behind' \subseteq Agents /\ todo' \in Rest
        BY <1>4, <2>2 DEF DetachEndpoint
  <2>   QED BY <2>3, <2>4
<1>12. ASSUME NEW e \in Endpoints, RefreshAgents(e) PROVE TypeInv'
  <2>1. agent' \in [Agents -> Binding \cup {None}] /\ agent'[Default] \in Binding
        BY <1>12, ResolvedType DEF RefreshAgents
  <2>2. endpoint' = endpoint /\ behind' \subseteq Agents /\ todo' = None
        BY <1>12 DEF RefreshAgents
  <2>   QED BY <2>1, <2>2
<1>13. ASSUME NEW e \in Endpoints, DeleteEndpoint(e) PROVE TypeInv'
      BY <1>13 DEF DeleteEndpoint
<1>14. ASSUME RequestDies PROVE TypeInv'
      BY <1>14 DEF RequestDies, Users, Live
<1>5. ASSUME NEW a \in Agents, NEW ids \in SUBSET Endpoints, NEW manual \in SUBSET Target,
             CreateAgent(a, ids, manual)
      PROVE  TypeInv'
  <2>1. PICK targets \in Merge(Resolve(ids, endpoint), manual, {}) :
               agent' = [agent EXCEPT ![a] = [ids |-> ids, targets |-> targets]]
        BY <1>5 DEF CreateAgent
  <2>2. Resolve(ids, endpoint) \in SUBSET Target
        BY ResolveTargets
  <2>3. targets \in SUBSET Target
        BY <2>2, MergeType
  <2>4. [ids |-> ids, targets |-> targets] \in Binding
        BY <2>3, BindingType
  <2>   QED BY <1>5, <2>1, <2>4 DEF CreateAgent
<1>6. ASSUME NEW a \in Agents, NEW ids \in (SUBSET Endpoints) \cup {Unset},
             NEW manual \in (SUBSET Target) \cup {Unset}, UpdateAgent(a, ids, manual)
      PROVE  TypeInv'
  <2>   DEFINE newIds == IF ids = Unset THEN agent[a].ids ELSE ids
  <2>1. PICK targets \in Merge(Resolve(newIds, endpoint), manual, agent[a].targets) :
               agent' = [agent EXCEPT ![a] = [ids |-> newIds, targets |-> targets]]
        BY <1>6 DEF UpdateAgent
  <2>2. a \in Live /\ behind' \subseteq Agents /\ UNCHANGED <<endpoint, todo>>
        BY <1>6 DEF UpdateAgent
  <2>3. newIds \in SUBSET Endpoints /\ agent[a].targets \in SUBSET Target
        BY <1>1, <2>2 DEF Binding
  <2>   HIDE DEF newIds
  <2>4. Resolve(newIds, endpoint) \in SUBSET Target
        BY <2>3, ResolveTargets
  <2>5. targets \in SUBSET Target
        BY <2>3, <2>4, MergeType
  <2>6. [ids |-> newIds, targets |-> targets] \in Binding
        BY <2>3, <2>5, BindingType
  <2>   QED BY <2>1, <2>2, <2>6
<1>7. ASSUME NEW a \in Agents, DeleteAgent(a) PROVE TypeInv'
      BY <1>7 DEF DeleteAgent
<1>8. ASSUME NEW urls \in SUBSET Urls, NEW found \in [urls -> Endpoints], Restart(found)
      PROVE  TypeInv'
  <2>1. endpoint' \in [Endpoints -> Row \cup {None}]
    <3>1. PICK first \in OnePerUrl(agent[Default].targets) :
            endpoint' = [e \in Endpoints |->
                IF e \in Known \/ \A u \in DOMAIN found : found[u] # e THEN endpoint[e]
                ELSE Row0(CHOOSE t \in first : found[t.url] = e)]
          BY <1>8 DEF Restart
    <3>2. ASSUME NEW e \in Endpoints PROVE endpoint'[e] \in Row \cup {None}
      <4>1. CASE e \in Known \/ \A u \in DOMAIN found : found[u] # e
            BY <3>1, <4>1
      <4>2. CASE ~(e \in Known \/ \A u \in DOMAIN found : found[u] # e)
        <5>1. PICK u \in DOMAIN found : found[u] = e
              BY <4>2
        <5>2. u \in UrlsOf(agent[Default].targets)
              BY <1>8, <5>1 DEF Restart
        <5>3. \E t \in first : t.url = u
              BY <5>2, <3>1 DEF OnePerUrl, UrlsOf
        <5>4. (CHOOSE t \in first : found[t.url] = e) \in first
              BY <5>1, <5>3
        <5>5. first \subseteq Target
              BY <3>1 DEF Binding, OnePerUrl
        <5>6. Row0(CHOOSE t \in first : found[t.url] = e) \in Row
              BY <5>4, <5>5 DEF Row0, Row
        <5>   QED BY <3>1, <4>2, <5>6
      <4>   QED BY <4>1, <4>2
    <3>   QED BY <3>1, <3>2
  <2>2. [ids |-> {found[u] : u \in DOMAIN found}, targets |-> agent[Default].targets]
            \in Binding
        BY DEF Binding
  <2>   QED BY <1>8, <2>1, <2>2 DEF Restart, Backfill
<1>9. CASE UNCHANGED vars
      BY <1>9 DEF vars
<1>10. RegistryNext => TypeInv'
       BY <1>2, <1>3, <1>4, <1>12, <1>13, <1>14 DEF RegistryNext
<1>11. AgentNext => TypeInv'
       BY <1>5, <1>6, <1>7 DEF AgentNext
<1>    QED BY <1>8, <1>9, <1>10, <1>11 DEF Next

\* Rows are well formed: whatever requests and restarts do, ticks are
\* ids of the registry and lists hold targets.
THEOREM TypeOKAlways == Spec => []TypeOK
<1>1. TypeInv => TypeOK
      BY DEF TypeInv
<1>   QED BY TypeInit, TypeStep, <1>1, PTL DEF Spec

-----------------------------------------------------------------------------
(* The lists follow the registry. *)

\* A list of an agent whose ticks resolve to the given targets.
Follows(targets, resolved) ==
    /\ resolved \subseteq targets
    /\ \A t \in targets : t.url \in UrlsOf(resolved) => t \in resolved

\* Nobody ticks an endpoint that is about to be removed.
ListInv ==
    /\ \A a \in UpToDate : Follows(agent[a].targets, Resolve(agent[a].ids, endpoint))
    /\ todo # None /\ todo.op = "remove" => Users(todo.of) = {}

LEMMA FollowsSelf == ASSUME NEW resolved PROVE Follows(resolved, resolved)
BY DEF Follows

LEMMA FollowsMerge ==
    ASSUME NEW resolved, NEW manual, NEW existing,
           NEW merged \in Merge(resolved, manual, existing)
    PROVE  Follows(merged, resolved)
BY MergeParts DEF Follows

\* An agent that a step leaves alone, and whose ticked rows it leaves alone.
LEMMA Untouched ==
    ASSUME ListInv, NEW a \in UpToDate, agent'[a] = agent[a],
           \A e \in agent[a].ids : endpoint'[e] = endpoint[e]
    PROVE  Follows(agent'[a].targets, Resolve(agent'[a].ids, endpoint'))
<1>1. Resolve(agent[a].ids, endpoint') = Resolve(agent[a].ids, endpoint)
      BY ResolveAgrees
<1>   QED BY <1>1 DEF ListInv

LEMMA ListInit == Init => ListInv
<1>  SUFFICES ASSUME Init PROVE ListInv
     OBVIOUS
<1>1. PICK e \in Endpoints, t \in Target :
        /\ endpoint = [f \in Endpoints |-> IF f = e THEN Row0(t) ELSE None]
        /\ agent = [a \in Agents |-> IF a = Default THEN [ids |-> {e}, targets |-> {t}]
                                                  ELSE None]
      BY DEF Init
<1>2. endpoint[e].target = t
      BY <1>1 DEF Row0
<1>3. Resolve({e}, endpoint) \in {{}, {t}}
      BY <1>2 DEF Resolve
<1>4. Follows({t}, Resolve({e}, endpoint))
      BY <1>3 DEF Follows, UrlsOf
<1>5. \A a \in Live : agent[a].ids = {e} /\ agent[a].targets = {t}
      BY <1>1 DEF Live
<1>6. todo = None
      BY DEF Init
<1>   QED BY <1>4, <1>5, <1>6 DEF ListInv, UpToDate

\* Nobody ticks an endpoint that is about to be removed: it was detached, and
\* no other request comes in between.
LEMMA NobodyTicks ==
    ASSUME TypeInv, ListInv, [Next]_vars, todo' # None, todo'.op = "remove"
    PROVE  Users(todo.of)' = {}
<1>  USE DEF TypeInv, TypeOK
<1>1. ASSUME NEW e \in Endpoints, NEW force \in BOOLEAN, DetachEndpoint(e, force)
      PROVE  Users(todo.of)' = {}
  <2>1. todo'.of = e /\ agent' = Resolved(e, {e})
        BY <1>1 DEF DetachEndpoint
  <2>2. ASSUME NEW a \in Agents, agent'[a] # None PROVE e \notin agent'[a].ids
    <3>1. CASE a \in Users(e)
      <4>1. agent'[a].ids = agent[a].ids \ {e}
            BY <2>1, <3>1 DEF Resolved
      <4>   QED BY <4>1
    <3>2. CASE a \notin Users(e)
      <4>1. agent'[a] = agent[a]
            BY <2>1, <3>2 DEF Resolved
      <4>   QED BY <2>2, <3>2, <4>1 DEF Users, Live
    <3>   QED BY <3>1, <3>2
  <2>   QED BY <2>1, <2>2 DEF Users, Live
<1>2. CASE UNCHANGED vars
      BY <1>2 DEF vars, ListInv, Users, Live
<1>3. ASSUME NEW e \in Endpoints, NEW row \in Row, CreateEndpoint(e, row) \/ UpdateEndpoint(e, row)
      PROVE  FALSE
      BY <1>3 DEF CreateEndpoint, UpdateEndpoint
<1>4. ASSUME NEW e \in Endpoints, RefreshAgents(e) \/ DeleteEndpoint(e) \/ RequestDies PROVE FALSE
      BY <1>4 DEF RefreshAgents, DeleteEndpoint, RequestDies
<1>5. ASSUME AgentNext PROVE FALSE
      BY <1>5 DEF AgentNext, CreateAgent, UpdateAgent, DeleteAgent
<1>6. ASSUME NEW urls \in SUBSET Urls, NEW found \in [urls -> Endpoints], Restart(found)
      PROVE  FALSE
      BY <1>6 DEF Restart
<1>7. RequestDies => FALSE
      BY DEF RequestDies
<1>   QED BY <1>1, <1>2, <1>3, <1>4, <1>5, <1>6, <1>7 DEF Next, RegistryNext

LEMMA ListStep == TypeInv /\ ListInv /\ [Next]_vars => ListInv'
<1>  SUFFICES ASSUME TypeInv, ListInv, [Next]_vars, NEW a \in UpToDate'
              PROVE  Follows(agent'[a].targets, Resolve(agent'[a].ids, endpoint'))
     BY NobodyTicks DEF ListInv
<1>  DEFINE Goal == Follows(agent'[a].targets, Resolve(agent'[a].ids, endpoint'))
<1>  USE TargetAssumption DEF TypeInv, TypeOK
<1>1. a \in Agents /\ agent'[a] # None /\ a \notin behind'
      BY DEF UpToDate, Live
<1>2. ASSUME NEW e \in Endpoints, NEW row \in Row, CreateEndpoint(e, row) PROVE Goal
  <2>1. agent' = agent /\ a \in UpToDate /\ a \in Live
        BY <1>1, <1>2 DEF CreateEndpoint, UpToDate, Live
  <2>2. \A f \in agent[a].ids : endpoint'[f] = endpoint[f]
    <3>1. e \notin agent[a].ids
          BY <1>2, <2>1 DEF CreateEndpoint, Fresh
    <3>2. endpoint' = [endpoint EXCEPT ![e] = row]
          BY <1>2 DEF CreateEndpoint
    <3>   QED BY <3>1, <3>2
  <2>   QED BY <2>1, <2>2, Untouched
<1>3. ASSUME NEW e \in Endpoints, NEW row \in Row, UpdateEndpoint(e, row) PROVE Goal
  <2>1. agent' = agent /\ todo = None /\ behind' = behind /\ a \in Live
        BY <1>1, <1>3 DEF UpdateEndpoint, Live
  <2>2. a \in UpToDate
        BY <1>1, <2>1 DEF UpToDate
  <2>3. todo' = [op |-> "refresh", of |-> e, before |-> endpoint[e]]
        BY <1>3 DEF UpdateEndpoint
  <2>4. todo' # None
    <3>1. endpoint[e] \in Row
          BY <1>3 DEF UpdateEndpoint, Known
    <3>2. todo' \in Rest
          BY <2>3, <3>1 DEF Rest
    <3>   QED BY <3>2, NoneAssumption
  <2>5. a \notin Users(e)
        BY <2>1, <2>3, <2>4 DEF UpToDate, Users, Live
  <2>6. \A f \in agent[a].ids : endpoint'[f] = endpoint[f]
    <3>1. e \notin agent[a].ids
          BY <2>1, <2>5 DEF Users
    <3>2. endpoint' = [endpoint EXCEPT ![e] = row]
          BY <1>3 DEF UpdateEndpoint
    <3>   QED BY <3>1, <3>2
  <2>   QED BY <2>1, <2>2, <2>6, Untouched
<1>4. ASSUME NEW e \in Endpoints, NEW dropped, agent' = Resolved(e, dropped),
             endpoint' = endpoint, a \notin Users(e) => a \in UpToDate
      PROVE  Goal
  <2>1. CASE a \in Users(e)
    <3>1. agent'[a] = [ids |-> agent[a].ids \ dropped,
                       targets |-> Resolve(agent[a].ids \ dropped, endpoint)]
          BY <1>1, <1>4, <2>1 DEF Resolved
    <3>   QED BY <1>4, <3>1, FollowsSelf
  <2>2. CASE a \notin Users(e)
    <3>1. agent'[a] = agent[a]
          BY <1>1, <1>4, <2>2 DEF Resolved
    <3>   QED BY <1>4, <2>2, <3>1, Untouched
  <2>   QED BY <2>1, <2>2
<1>5. ASSUME NEW e \in Endpoints, agent' = Resolved(e, {}) \/ agent' = Resolved(e, {e}),
             behind' = behind \ Users(e), todo # None => todo.of = e, a \notin Users(e)
      PROVE  a \in UpToDate
  <2>1. agent'[a] = agent[a]
        BY <1>1, <1>5 DEF Resolved
  <2>   QED BY <1>1, <1>5, <2>1 DEF UpToDate, Live
<1>6. ASSUME NEW e \in Endpoints, RefreshAgents(e) PROVE Goal
  <2>1. agent' = Resolved(e, {}) /\ endpoint' = endpoint
        BY <1>6 DEF RefreshAgents
  <2>2. a \notin Users(e) => a \in UpToDate
        BY <1>5, <1>6 DEF RefreshAgents
  <2>   QED BY <1>4, <2>1, <2>2
<1>7. ASSUME NEW e \in Endpoints, NEW force \in BOOLEAN, DetachEndpoint(e, force) PROVE Goal
  <2>1. agent' = Resolved(e, {e}) /\ endpoint' = endpoint
        BY <1>7 DEF DetachEndpoint
  <2>2. a \notin Users(e) => a \in UpToDate
        BY <1>5, <1>7 DEF DetachEndpoint
  <2>   QED BY <1>4, <2>1, <2>2
<1>8. ASSUME NEW e \in Endpoints, DeleteEndpoint(e) PROVE Goal
  <2>1. /\ agent' = agent /\ behind' = behind
        /\ todo # None /\ todo.op = "remove" /\ todo.of = e
        /\ endpoint' = [endpoint EXCEPT ![e] = None]
        BY <1>8 DEF DeleteEndpoint
  <2>2. a \in Live
        BY <1>1, <2>1 DEF Live
  <2>3. a \in UpToDate
        BY <1>1, <2>1, <2>2 DEF UpToDate
  <2>4. e \notin agent[a].ids
        BY <2>1, <2>2 DEF ListInv, Users
  <2>5. \A f \in agent[a].ids : endpoint'[f] = endpoint[f]
        BY <2>1, <2>4
  <2>   QED BY <2>1, <2>3, <2>5, Untouched
<1>9. CASE RequestDies
  <2>1. /\ agent' = agent /\ endpoint' = endpoint /\ behind \subseteq behind'
        /\ todo.op = "refresh" => Users(todo.of) \subseteq behind'
        BY <1>9 DEF RequestDies
  <2>2. a \in UpToDate
        BY <1>1, <2>1 DEF UpToDate, Live
  <2>   QED BY <2>1, <2>2, Untouched
<1>10. ASSUME NEW b \in Agents, agent'[a] = agent[a], endpoint' = endpoint, todo = None,
              behind \ {b} \subseteq behind', a # b
       PROVE  Goal
  <2>1. a \in UpToDate
        BY <1>1, <1>10 DEF UpToDate, Live
  <2>   QED BY <1>10, <2>1, Untouched
<1>11. ASSUME NEW b \in Agents, NEW ids \in SUBSET Endpoints, NEW manual \in SUBSET Target,
              CreateAgent(b, ids, manual)
       PROVE  Goal
  <2>1. PICK targets \in Merge(Resolve(ids, endpoint), manual, {}) :
               agent' = [agent EXCEPT ![b] = [ids |-> ids, targets |-> targets]]
        BY <1>11 DEF CreateAgent
  <2>2. endpoint' = endpoint /\ behind' = behind /\ todo = None
        BY <1>11 DEF CreateAgent
  <2>3. CASE a = b
    <3>1. agent'[a] = [ids |-> ids, targets |-> targets]
          BY <1>1, <2>1, <2>3
    <3>   QED BY <2>1, <2>2, <3>1, FollowsMerge
  <2>4. CASE a # b
    <3>1. agent'[a] = agent[a]
          BY <1>1, <2>1, <2>4
    <3>   QED BY <1>10, <2>2, <2>4, <3>1
  <2>   QED BY <2>3, <2>4
<1>12. ASSUME NEW b \in Agents, NEW ids \in (SUBSET Endpoints) \cup {Unset},
              NEW manual \in (SUBSET Target) \cup {Unset}, UpdateAgent(b, ids, manual)
       PROVE  Goal
  <2>   DEFINE newIds == IF ids = Unset THEN agent[b].ids ELSE ids
  <2>1. PICK targets \in Merge(Resolve(newIds, endpoint), manual, agent[b].targets) :
               agent' = [agent EXCEPT ![b] = [ids |-> newIds, targets |-> targets]]
        BY <1>12 DEF UpdateAgent
  <2>2. endpoint' = endpoint /\ behind' = behind \ {b} /\ todo = None
        BY <1>12 DEF UpdateAgent
  <2>   HIDE DEF newIds
  <2>3. CASE a = b
    <3>1. agent'[a] = [ids |-> newIds, targets |-> targets]
          BY <1>1, <2>1, <2>3
    <3>   QED BY <2>1, <2>2, <3>1, FollowsMerge
  <2>4. CASE a # b
    <3>1. agent'[a] = agent[a]
          BY <1>1, <2>1, <2>4
    <3>   QED BY <1>10, <2>2, <2>4, <3>1
  <2>   QED BY <2>3, <2>4
<1>13. ASSUME NEW b \in Agents, DeleteAgent(b) PROVE Goal
  <2>1. a # b /\ agent'[a] = agent[a]
        BY <1>1, <1>13 DEF DeleteAgent
  <2>2. endpoint' = endpoint /\ behind' = behind \ {b} /\ todo = None
        BY <1>13 DEF DeleteAgent
  <2>   QED BY <1>10, <2>1, <2>2
<1>14. ASSUME NEW urls \in SUBSET Urls, NEW found \in [urls -> Endpoints], Restart(found)
      PROVE  Goal
  <2>1. a # Default /\ agent'[a] = agent[a] /\ a \in Live
        BY <1>1, <1>14 DEF Restart, Backfill, Live
  <2>2. a \in UpToDate
        BY <1>1, <1>14, <2>1 DEF Restart, Backfill, UpToDate
  <2>3. ASSUME NEW e \in agent[a].ids PROVE endpoint'[e] = endpoint[e]
    <3>1. e \in Endpoints
          BY <2>1 DEF Live, Binding
    <3>2. CASE e \in Known \/ \A u \in DOMAIN found : found[u] # e
          BY <1>14, <3>1, <3>2 DEF Restart
    <3>3. ASSUME e \notin Known, NEW u \in DOMAIN found, found[u] = e PROVE FALSE
      <4>1. Fresh(e)
            BY <1>14, <3>3 DEF Restart
      <4>   QED BY <2>1, <4>1 DEF Fresh
    <3>   QED BY <3>2, <3>3
  <2>   QED BY <2>1, <2>2, <2>3, Untouched
<1>15. CASE UNCHANGED vars
  <2>1. agent' = agent /\ endpoint' = endpoint /\ behind' = behind /\ todo' = todo
        BY <1>15 DEF vars
  <2>2. a \in UpToDate
        BY <1>1, <2>1 DEF UpToDate, Live, Users
  <2>   QED BY <2>1, <2>2, Untouched
<1>16. RegistryNext => Goal
       BY <1>2, <1>3, <1>6, <1>7, <1>8, <1>9 DEF RegistryNext
<1>17. AgentNext => Goal
       BY <1>11, <1>12, <1>13 DEF AgentNext
<1>    QED BY <1>14, <1>15, <1>16, <1>17 DEF Next

\* What an agent ticks it can call, as the registry has it, and nothing that was
\* entered by hand stands in for it: no sequence of merges, refreshes,
\* detachments, dying requests and restarts leaves a ticked endpoint out or lets
\* _merge_bindings prefer another target of the same url, for an agent whose
\* list was resolved since its ticks or their rows changed.
THEOREM ListsFollowRegistryAlways == Spec => []ListsFollowRegistry
<1>1. ListInv => ListsFollowRegistry
      BY DEF ListInv, ListsFollowRegistry, TickedIsBound, RegistryWins, Follows
<1>   QED BY TypeInit, TypeStep, ListInit, ListStep, <1>1, PTL DEF Spec

-----------------------------------------------------------------------------
(* What a restart does to the agents. *)

\* A restart that ticks for the default agent leaves every list as it was: the
\* agents go on reaching the addresses they reached, and no other.
THEOREM RestartKeepsReachAlways == Spec => RestartKeepsReach
<1>1. ASSUME TypeInv, NEW urls \in SUBSET Urls, NEW found \in [urls -> Endpoints],
             Restart(found), NEW a \in Live
      PROVE  UrlsOf(agent'[a].targets) = UrlsOf(agent[a].targets)
  <2>1. agent'[a].targets = agent[a].targets
        BY <1>1, TargetAssumption DEF Restart, Backfill, TypeInv, TypeOK, Live
  <2>   QED BY <2>1 DEF UrlsOf
<1>2. TypeInv =>
        [(\E urls \in SUBSET Urls : \E found \in [urls -> Endpoints] : Restart(found))
            => \A a \in Live : UrlsOf(agent'[a].targets) = UrlsOf(agent[a].targets)]_vars
      BY <1>1
<1>   QED BY TypeInit, TypeStep, <1>2, PTL DEF Spec, RestartKeepsReach

=============================================================================
