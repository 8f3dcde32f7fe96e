---------------------------- MODULE SkillBindings ----------------------------
(***************************************************************************)
(* The skill registry and the snapshots of skills in agent rows: edits,    *)
(* reviews, imports and deletions of skills, and the agents that bind      *)
(* them.  Agents run what their snapshot says and read no skill row.       *)
(*                                                                         *)
(* A request is a coroutine with an ORM session: every SELECT and every    *)
(* commit is a step.  Sessions keep the objects that the request still     *)
(* refers to and do not read them again (expire_on_commit=False), and an   *)
(* UPDATE holds the columns that differ from what was loaded, so a request *)
(* acts on copies.                                                         *)
(***************************************************************************)
EXTENDS FiniteSets

CONSTANTS
    Skills,    \* rows of the skill registry
    Contents,  \* texts and attachments a skill may have
    Agents,    \* rows of the agent table
    Requests,  \* administrative requests that run at the same time
    None       \* no row

VARIABLES
    skill,     \* skill[s]: row of the registry, or None
    agent,     \* agent[a]: skill_ids and skills of the agent row, or None
    req,       \* req[r]: state of a request
    reviewed,  \* <<skill, content>> an approving request had before it (history)
    broken     \* skills whose change was committed by a request that then failed (history)

vars == <<skill, agent, req, reviewed, broken>>

Status == {"pending", "approved", "rejected"}
Row == [content : Contents, status : Status, enabled : BOOLEAN]

\* An entry of a snapshot: the content at the time it was resolved.
Entry == [skill : Skills, content : Contents]
Binding == [ids : SUBSET Skills, snapshot : SUBSET Entry]

ASSUME NoneAssumption == None \notin Skills \cup Agents \cup Row \cup Binding

(***************************************************************************)
(* own, new: the skill row as the session holds it, and as the request     *)
(* wants it; mine: the agent rows the session holds; todo: agents still to *)
(* resolve; result: what their rows shall become.                          *)
(***************************************************************************)
RequestState ==
    [pc : {"idle", "users", "save", "reread", "agents", "resolve", "commit", "drop",
           "gate", "bind", "insert"},
     kind : {"none", "edit", "review", "import", "delete", "agent"},
     skill : Skills \cup {None}, agent : Agents \cup {None},
     own : Row \cup {None}, new : Row \cup {None},
     mine : [Agents -> Binding \cup {None}], todo : SUBSET Agents,
     result : [Agents -> Binding \cup {None}]]

NoRows == [a \in Agents |-> None]

Idle == [pc |-> "idle", kind |-> "none", skill |-> None, agent |-> None, own |-> None,
         new |-> None, mine |-> NoRows, todo |-> {}, result |-> NoRows]

TypeOK ==
    /\ skill \in [Skills -> Row \cup {None}]
    /\ agent \in [Agents -> Binding \cup {None}]
    /\ req \in [Requests -> RequestState]
    /\ reviewed \subseteq Skills \X Contents
    /\ broken \subseteq Skills

Init ==
    /\ skill = [s \in Skills |-> None]
    /\ agent = NoRows
    /\ req = [r \in Requests |-> Idle]
    /\ reviewed = {}
    /\ broken = {}

Goto(r, pc) == req' = [req EXCEPT ![r].pc = pc]
Done(r) == req' = [req EXCEPT ![r] = Idle]

\* Ids are never used again: a row can be created where nothing refers to it.
FreshSkill(s) ==
    /\ skill[s] = None
    /\ \A a \in Agents : agent[a] # None => s \notin agent[a].ids
    /\ \A r \in Requests :
          /\ req[r].skill # s
          /\ \A a \in Agents :
                /\ req[r].mine[a] # None => s \notin req[r].mine[a].ids
                /\ req[r].result[a] # None => s \notin req[r].result[a].ids

FreshAgent(a) ==
    /\ agent[a] = None
    /\ \A r \in Requests : /\ req[r].agent # a
                           /\ req[r].mine[a] = None
                           /\ req[r].result[a] = None

-----------------------------------------------------------------------------
(* Resolving. *)

\* Mutant: the review status is not looked at.
ResolveUnreviewed(ids, rows) ==
    {[skill |-> s, content |-> rows[s].content] :
        s \in {t \in ids : rows[t] # None /\ rows[t].enabled}}

\* Of the ids, those that exist, are enabled and are approved.
Resolve(ids, rows) ==
    {[skill |-> s, content |-> rows[s].content] :
        s \in {t \in ids : /\ rows[t] # None
                           /\ rows[t].enabled
                           /\ rows[t].status = "approved"}}

\* The rows a SELECT returns in r's session: its own skill is not read again.
Seen(r) == [s \in Skills |-> IF s = req[r].skill /\ skill[s] # None
                             THEN req[r].own ELSE skill[s]]

\* The columns of an UPDATE are those that differ from the loaded ones.
Column(old, new, current) == IF new = old THEN current ELSE new

-----------------------------------------------------------------------------
(* Requests about a skill. *)

CreateSkill(s, c) ==
    /\ FreshSkill(s)
    /\ skill' = [skill EXCEPT ![s] = [content |-> c, status |-> "pending",
                                      enabled |-> TRUE]]
    /\ reviewed' = {p \in reviewed : p[1] # s}
    /\ broken' = broken \ {s}
    /\ UNCHANGED <<agent, req>>

\* Mutant: an edit leaves the review status alone.
EditedUnreviewed(row, c, enabled) ==
    [content |-> c, status |-> row.status, enabled |-> enabled]

\* A changed content must be reviewed again.
Edited(row, c, enabled) ==
    [content |-> c, status |-> IF c = row.content THEN row.status ELSE "pending",
     enabled |-> enabled]

\* The request loads the row it is about and knows what it wants it to be.
Load(r, kind, s, new, pc) ==
    /\ req[r].pc = "idle"
    /\ skill[s] # None
    /\ req' = [req EXCEPT ![r] = [Idle EXCEPT !.pc = pc, !.kind = kind, !.skill = s,
                                              !.own = skill[s], !.new = new]]
    /\ UNCHANGED <<skill, agent, broken>>

EditSkill(r, s, c, enabled) ==
    /\ Load(r, "edit", s, Edited(skill[s], c, enabled), "users")
    /\ UNCHANGED reviewed

ReviewSkill(r, s, status) ==
    /\ Load(r, "review", s, [skill[s] EXCEPT !.status = status], "users")
    /\ reviewed' = IF status = "approved" THEN reviewed \cup {<<s, skill[s].content>>}
                                          ELSE reviewed

\* An import that overwrites; without overwrite it only reads.
ImportSkill(r, s, c) ==
    /\ Load(r, "import", s, [skill[s] EXCEPT !.content = c, !.status = "pending"], "save")
    /\ UNCHANGED reviewed

DeleteSkill(r, s) ==
    /\ Load(r, "delete", s, None, "users")
    /\ UNCHANGED reviewed

\* The agents that bind the skill stay in the session from here on.
LoadUsers(r) ==
    LET me == req[r]
        users == {a \in Agents : agent[a] # None /\ me.skill \in agent[a].ids}
    IN  /\ me.pc = "users"
        /\ req' = [req EXCEPT
              ![r].mine = [a \in Agents |-> IF a \in users THEN agent[a] ELSE None],
              ![r].pc = IF me.kind # "delete" THEN "save"
                        ELSE IF users = {} THEN "drop" ELSE "agents"]
        /\ UNCHANGED <<skill, agent, reviewed, broken>>

\* Without force, a skill that is in use is not deleted.
RefuseDelete(r) ==
    /\ req[r].pc = "agents"
    /\ req[r].kind = "delete"
    /\ Done(r)
    /\ UNCHANGED <<skill, agent, reviewed, broken>>

\* Mutant: a review is committed without the refresh of the agents.
SaveSkillNoRefresh(r) ==
    LET me == req[r] row == skill[me.skill] IN
    /\ me.pc = "save"
    /\ row # None
    /\ skill' = [skill EXCEPT ![me.skill] =
                   [content |-> Column(me.own.content, me.new.content, row.content),
                    status |-> Column(me.own.status, me.new.status, row.status),
                    enabled |-> Column(me.own.enabled, me.new.enabled, row.enabled)]]
    /\ IF me.kind = "review" THEN Done(r) ELSE Goto(r, "reread")
    /\ UNCHANGED <<agent, reviewed, broken>>

\* The UPDATE of a row that is gone raises: the request stays and is aborted.
SaveSkill(r) ==
    LET me == req[r] row == skill[me.skill] IN
    /\ me.pc = "save"
    /\ row # None
    /\ skill' = [skill EXCEPT ![me.skill] =
                   [content |-> Column(me.own.content, me.new.content, row.content),
                    status |-> Column(me.own.status, me.new.status, row.status),
                    enabled |-> Column(me.own.enabled, me.new.enabled, row.enabled)]]
    /\ Goto(r, "reread")
    /\ UNCHANGED <<agent, reviewed, broken>>

Reread(r) ==
    /\ req[r].pc = "reread"
    /\ skill[req[r].skill] # None
    /\ req' = [req EXCEPT ![r].own = skill[req[r].skill], ![r].pc = "agents"]
    /\ UNCHANGED <<skill, agent, reviewed, broken>>

\* The agents are listed again; those the session holds are not read again.
ListAgents(r) ==
    LET me == req[r]
        held == [a \in Agents |-> IF agent[a] # None /\ me.mine[a] # None
                                  THEN me.mine[a] ELSE agent[a]]
        todo == {a \in Agents : held[a] # None /\ me.skill \in held[a].ids}
    IN  /\ me.pc = "agents"
        /\ req' = [req EXCEPT
              ![r].mine = [a \in Agents |-> IF a \in todo THEN held[a] ELSE None],
              ![r].todo = todo,
              ![r].pc = IF todo # {} THEN "resolve"
                        ELSE IF me.kind = "delete" THEN "drop" ELSE "commit"]
        /\ UNCHANGED <<skill, agent, reviewed, broken>>

\* A refresh keeps the ids, a detach before a deletion removes the skill.
ResolveAgent(r, a) ==
    LET me == req[r]
        ids == IF me.kind = "delete" THEN me.mine[a].ids \ {me.skill} ELSE me.mine[a].ids
    IN  /\ me.pc = "resolve"
        /\ a \in me.todo
        /\ req' = [req EXCEPT
              ![r].todo = @ \ {a},
              ![r].result[a] = [ids |-> ids, snapshot |-> Resolve(ids, Seen(r))],
              ![r].pc = IF me.todo = {a} THEN "commit" ELSE "resolve"]
        /\ UNCHANGED <<skill, agent, reviewed, broken>>

DropSkill(r) ==
    /\ req[r].pc = "drop"
    /\ req[r].kind = "delete"
    /\ skill' = [skill EXCEPT ![req[r].skill] = None]
    /\ broken' = broken \ {req[r].skill}
    /\ Done(r)
    /\ UNCHANGED <<agent, reviewed>>

-----------------------------------------------------------------------------
(* Requests about an agent. *)

\* A new agent has no row to load.
SaveAgent(r, a, ids) ==
    /\ req[r].pc = "idle"
    /\ agent[a] # None \/ FreshAgent(a)
    /\ req' = [req EXCEPT ![r] =
                 [Idle EXCEPT !.pc = "gate", !.kind = "agent", !.agent = a,
                              !.mine[a] = agent[a],
                              !.result[a] = [ids |-> ids, snapshot |-> {}]]]
    /\ UNCHANGED <<skill, agent, reviewed, broken>>

Approved(s) == skill[s] # None /\ skill[s].status = "approved"

\* Mutant: only pending skills are refused.
GateForgetsMissing(r) ==
    LET me == req[r] IN
    /\ me.pc = "gate"
    /\ \A s \in me.result[me.agent].ids : skill[s] # None => skill[s].status = "approved"
    /\ Goto(r, "bind")
    /\ UNCHANGED <<skill, agent, reviewed, broken>>

\* Every skill must exist and be approved; enabled or not is not asked.
Gate(r) ==
    LET me == req[r] IN
    /\ me.pc = "gate"
    /\ \A s \in me.result[me.agent].ids : Approved(s)
    /\ Goto(r, "bind")
    /\ UNCHANGED <<skill, agent, reviewed, broken>>

\* The gate refuses, for the review or for the total size of the contents.
Refuse(r) ==
    /\ req[r].pc = "gate"
    /\ Done(r)
    /\ UNCHANGED <<skill, agent, reviewed, broken>>

Bind(r) ==
    LET me == req[r] ids == me.result[me.agent].ids IN
    /\ me.pc = "bind"
    /\ req' = [req EXCEPT ![r].result[me.agent].snapshot = Resolve(ids, skill),
                          ![r].pc = IF me.mine[me.agent] = None THEN "insert" ELSE "commit"]
    /\ UNCHANGED <<skill, agent, reviewed, broken>>

InsertAgent(r) ==
    LET a == req[r].agent IN
    /\ req[r].pc = "insert"
    /\ agent' = [agent EXCEPT ![a] = req[r].result[a]]
    /\ Done(r)
    /\ UNCHANGED <<skill, reviewed, broken>>

DeleteAgent(r, a) ==
    /\ req[r].pc = "idle"
    /\ agent[a] # None
    /\ req' = [req EXCEPT ![r] = [Idle EXCEPT !.pc = "drop", !.kind = "agent", !.agent = a]]
    /\ UNCHANGED <<skill, agent, reviewed, broken>>

DropAgent(r) ==
    /\ req[r].pc = "drop"
    /\ req[r].kind = "agent"
    /\ agent' = [agent EXCEPT ![req[r].agent] = None]
    /\ Done(r)
    /\ UNCHANGED <<skill, reviewed, broken>>

-----------------------------------------------------------------------------
(* Agent rows are written, and requests end. *)

\* Rows to write; one that is gone raises, and the request is aborted.
Changed(r) == {a \in Agents : /\ req[r].result[a] # None
                              /\ req[r].result[a] # req[r].mine[a]}

\* The cached graphs of the agents are dropped afterwards, see AgentCache.
CommitAgents(r) ==
    LET me == req[r] IN
    /\ me.pc = "commit"
    /\ \A a \in Changed(r) : agent[a] # None
    /\ agent' = [a \in Agents |->
          IF a \in Changed(r)
          THEN [ids |-> Column(me.mine[a].ids, me.result[a].ids, agent[a].ids),
                snapshot |-> Column(me.mine[a].snapshot, me.result[a].snapshot,
                                    agent[a].snapshot)]
          ELSE agent[a]]
    /\ broken' = IF me.kind \in {"edit", "review", "import"} THEN broken \ {me.skill}
                                                             ELSE broken
    /\ IF me.kind = "delete" THEN Goto(r, "drop") ELSE Done(r)
    /\ UNCHANGED <<skill, reviewed>>

\* A request fails at any step (database, disconnect, restart).
Abort(r) ==
    /\ req[r].pc # "idle"
    /\ broken' = IF /\ req[r].kind \in {"edit", "review", "import"}
                    /\ req[r].pc \in {"reread", "agents", "resolve", "commit"}
                 THEN broken \cup {req[r].skill} ELSE broken
    /\ Done(r)
    /\ UNCHANGED <<skill, agent, reviewed>>

SkillNext(r) ==
    \/ \E s \in Skills :
          \/ \E c \in Contents, enabled \in BOOLEAN : EditSkill(r, s, c, enabled)
          \/ \E status \in Status : ReviewSkill(r, s, status)
          \/ \E c \in Contents : ImportSkill(r, s, c)
          \/ DeleteSkill(r, s)
    \/ LoadUsers(r) \/ RefuseDelete(r) \/ SaveSkill(r) \/ Reread(r) \/ ListAgents(r)
    \/ \E a \in Agents : ResolveAgent(r, a)
    \/ DropSkill(r)

AgentNext(r) ==
    \/ \E a \in Agents : DeleteAgent(r, a) \/ \E ids \in SUBSET Skills : SaveAgent(r, a, ids)
    \/ Gate(r) \/ Refuse(r) \/ Bind(r) \/ InsertAgent(r) \/ DropAgent(r)

Next ==
    \/ \E s \in Skills, c \in Contents : CreateSkill(s, c)
    \/ \E r \in Requests : SkillNext(r) \/ AgentNext(r) \/ CommitAgents(r) \/ Abort(r)

Spec == Init /\ [][Next]_vars

-----------------------------------------------------------------------------
(* Correctness.  With one request at a time all of it holds; a second one  *)
(* running at the same time breaks all of it but the types.                *)

\* Every approved skill has the content an administrator approved: whatever
\* changes the content resets the review.
ApprovedIsReviewed ==
    \A s \in Skills :
        skill[s] # None /\ skill[s].status = "approved"
            => <<s, skill[s].content>> \in reviewed

\* What agents run was approved as it is, although they run a copy.
RunsReviewedOnly ==
    \A a \in Agents :
        agent[a] # None
            => \A e \in agent[a].snapshot : <<e.skill, e.content>> \in reviewed

\* Between requests the copies are up to date, but for skills whose change was
\* committed without its refresh; the next change of the skill repairs these.
SnapshotsCurrent ==
    (\A r \in Requests : req[r].pc = "idle")
        => \A a \in Agents :
              agent[a] # None
                 => \A s \in Skills \ broken :
                       {e \in agent[a].snapshot : e.skill = s}
                          = {e \in Resolve(agent[a].ids, skill) : e.skill = s}

\* Agents bind rows that exist: a skill is deleted when nobody binds it, or
\* after it was detached from everybody.
NoDanglingSkill ==
    \A a \in Agents : agent[a] # None => \A s \in agent[a].ids : skill[s] # None

=============================================================================
