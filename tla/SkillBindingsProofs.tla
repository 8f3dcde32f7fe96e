------------------------- MODULE SkillBindingsProofs -------------------------
(***************************************************************************)
(* Type correctness of the skill registry for any number of requests at    *)
(* the same time, and, when they run one at a time, that every approved    *)
(* skill is what an administrator approved and that the copies agents run  *)
(* from are reviewed, current and of skills that exist.                    *)
(***************************************************************************)
EXTENDS SkillBindings, TLAPS

SkillKinds == {"edit", "review", "import"}

\* Which requests get where, and what they hold when they do.
RequestOK(me) ==
    /\ me.kind \in SkillKinds => me.skill \in Skills /\ me.new \in Row
    /\ me.kind = "delete" => me.skill \in Skills
    /\ me.kind = "agent" => me.agent \in Agents
    /\ me.pc = "users" => me.kind \in SkillKinds \cup {"delete"} /\ me.todo = {}
    /\ me.pc \in {"save", "reread"} => me.kind \in SkillKinds
    /\ me.pc = "drop" => me.kind \in {"delete", "agent"}
    /\ me.pc \in {"gate", "bind", "insert"} => me.kind = "agent" /\ me.result[me.agent] \in Binding
    /\ \A a \in me.todo : me.mine[a] \in Binding

TypeInv == TypeOK /\ \A r \in Requests : RequestOK(req[r])

-----------------------------------------------------------------------------
(* Types. *)

LEMMA IdleOK == Idle \in RequestState /\ RequestOK(Idle)
  BY DEF Idle, RequestState, NoRows, RequestOK, SkillKinds

\* A step that changes one request and no table.
LEMMA OneRequest ==
    ASSUME TypeInv, NEW r \in Requests, NEW me \in RequestState, RequestOK(me),
           req' = [req EXCEPT ![r] = me],
           UNCHANGED <<skill, agent, broken>>, reviewed' \subseteq Skills \X Contents
    PROVE  TypeInv'
<1>1. req' \in [Requests -> RequestState]
  BY DEF TypeInv, TypeOK
<1>2. \A q \in Requests : req'[q] = IF q = r THEN me ELSE req[q]
  BY DEF TypeInv, TypeOK
<1>3. \A q \in Requests : RequestOK(req'[q])
  BY <1>2 DEF TypeInv
<1>4. QED
  BY <1>1, <1>3 DEF TypeInv, TypeOK

LEMMA ColumnType ==
    ASSUME NEW S, NEW old, NEW new \in S, NEW current \in S
    PROVE  Column(old, new, current) \in S
  BY DEF Column

LEMMA ResolveType ==
    ASSUME NEW ids \in SUBSET Skills, NEW rows, \A s \in Skills : rows[s] \in Row \cup {None}
    PROVE  Resolve(ids, rows) \in SUBSET Entry
<1>1. ASSUME NEW s \in ids, rows[s] # None
      PROVE  [skill |-> s, content |-> rows[s].content] \in Entry
  <2>1. s \in Skills /\ rows[s] \in Row
    BY <1>1
  <2>2. QED
    BY <2>1 DEF Row, Entry
<1>2. QED
  BY <1>1 DEF Resolve

\* The request that loads a skill.
Loaded(kind, s, new, pc) ==
    [Idle EXCEPT !.pc = pc, !.kind = kind, !.skill = s, !.own = skill[s], !.new = new]

LEMMA LoadedFields ==
    ASSUME NEW kind, NEW s, NEW new, NEW pc
    PROVE  LET me == Loaded(kind, s, new, pc)
           IN  /\ me.pc = pc /\ me.kind = kind /\ me.skill = s
               /\ me.own = skill[s] /\ me.new = new /\ me.todo = {}
<1>1. Idle \in RequestState /\ Idle.todo = {}
  BY IdleOK DEF Idle
<1>2. QED
  BY <1>1 DEF Loaded, RequestState

LEMMA LoadType ==
    ASSUME TypeInv, NEW r \in Requests, NEW s \in Skills, NEW kind, NEW new, NEW pc,
           \/ kind \in {"edit", "review"} /\ pc = "users" /\ new \in Row
           \/ kind = "import" /\ pc = "save" /\ new \in Row
           \/ kind = "delete" /\ pc = "users" /\ new = None,
           Load(r, kind, s, new, pc), reviewed' \subseteq Skills \X Contents
    PROVE  TypeInv'
<1> DEFINE me == Loaded(kind, s, new, pc)
<1>1. skill[s] \in Row
  BY DEF Load, TypeInv, TypeOK
<1>2. me \in RequestState
  BY <1>1, IdleOK DEF RequestState, Loaded
<1>3. RequestOK(me)
  BY LoadedFields DEF RequestOK, SkillKinds
<1>4. req' = [req EXCEPT ![r] = me] /\ UNCHANGED <<skill, agent, broken>>
  BY DEF Load, Loaded
<1>5. QED
  BY <1>2, <1>3, <1>4, OneRequest

LEMMA SkillRequestType ==
    ASSUME TypeInv, NEW r \in Requests, NEW s \in Skills,
           \/ \E c \in Contents, enabled \in BOOLEAN : EditSkill(r, s, c, enabled)
           \/ \E status \in Status : ReviewSkill(r, s, status)
           \/ \E c \in Contents : ImportSkill(r, s, c)
           \/ DeleteSkill(r, s)
    PROVE  TypeInv'
<1>1. reviewed \subseteq Skills \X Contents /\ (skill[s] # None => skill[s] \in Row)
  BY DEF TypeInv, TypeOK
<1>2. ASSUME NEW c \in Contents, NEW enabled \in BOOLEAN, EditSkill(r, s, c, enabled)
      PROVE  TypeInv'
  <2>1. Edited(skill[s], c, enabled) \in Row
    BY <1>1, <1>2 DEF EditSkill, Load, Edited, Row, Status
  <2>2. QED
    BY <1>1, <1>2, <2>1, LoadType DEF EditSkill
<1>3. ASSUME NEW status \in Status, ReviewSkill(r, s, status)
      PROVE  TypeInv'
  <2>1. [skill[s] EXCEPT !.status = status] \in Row /\ skill[s].content \in Contents
    BY <1>1, <1>3 DEF ReviewSkill, Load, Row
  <2>2. reviewed' \subseteq Skills \X Contents
    BY <1>1, <1>3, <2>1 DEF ReviewSkill
  <2>3. QED
    BY <1>3, <2>1, <2>2, LoadType DEF ReviewSkill
<1>4. ASSUME NEW c \in Contents, ImportSkill(r, s, c)
      PROVE  TypeInv'
  <2>1. [skill[s] EXCEPT !.content = c, !.status = "pending"] \in Row
    BY <1>1, <1>4 DEF ImportSkill, Load, Row, Status
  <2>2. QED
    BY <1>1, <1>4, <2>1, LoadType DEF ImportSkill
<1>5. CASE DeleteSkill(r, s)
  BY <1>1, <1>5, LoadType DEF DeleteSkill
<1>6. QED
  BY <1>2, <1>3, <1>4, <1>5

\* A request that goes on from where it is.
LEMMA GotoType ==
    ASSUME TypeInv, NEW r \in Requests,
           NEW pc \in {"reread", "bind", "drop"}, Goto(r, pc),
           pc = "reread" => req[r].kind \in SkillKinds,
           pc = "bind" => req[r].pc = "gate",
           pc = "drop" => req[r].kind = "delete"
    PROVE  /\ req' \in [Requests -> RequestState]
           /\ \A q \in Requests : RequestOK(req'[q])
<1> DEFINE me == [req[r] EXCEPT !.pc = pc]
<1>1. req[r] \in RequestState /\ RequestOK(req[r])
  BY DEF TypeInv, TypeOK
<1>2. me \in RequestState
  BY <1>1 DEF RequestState
<1>3. /\ me.pc = pc /\ me.kind = req[r].kind /\ me.skill = req[r].skill
      /\ me.agent = req[r].agent /\ me.new = req[r].new /\ me.result = req[r].result
      /\ me.todo = req[r].todo /\ me.mine = req[r].mine
  BY <1>1 DEF RequestState
<1>4. RequestOK(me)
  BY <1>1, <1>3 DEF RequestOK, SkillKinds
<1>5. req' = [req EXCEPT ![r] = me]
  BY DEF Goto
<1>6. \A q \in Requests : req'[q] = IF q = r THEN me ELSE req[q]
  BY <1>5 DEF TypeInv, TypeOK
<1>7. req' \in [Requests -> RequestState]
  BY <1>2, <1>5 DEF TypeInv, TypeOK
<1>8. QED
  BY <1>4, <1>6, <1>7 DEF TypeInv

LEMMA DoneType ==
    ASSUME TypeInv, NEW r \in Requests, Done(r)
    PROVE  /\ req' \in [Requests -> RequestState]
           /\ \A q \in Requests : RequestOK(req'[q])
<1>1. req' = [req EXCEPT ![r] = Idle]
  BY DEF Done
<1>2. \A q \in Requests : req'[q] = IF q = r THEN Idle ELSE req[q]
  BY <1>1 DEF TypeInv, TypeOK
<1>3. req' \in [Requests -> RequestState]
  BY <1>1, IdleOK DEF TypeInv, TypeOK
<1>4. QED
  BY <1>2, <1>3, IdleOK DEF TypeInv

LEMMA LoadUsersType ==
    ASSUME TypeInv, NEW r \in Requests, LoadUsers(r)
    PROVE  TypeInv'
<1> DEFINE users == {a \in Agents : agent[a] # None /\ req[r].skill \in agent[a].ids}
           rows == [a \in Agents |-> IF a \in users THEN agent[a] ELSE None]
           pc == IF req[r].kind # "delete" THEN "save"
                 ELSE IF users = {} THEN "drop" ELSE "agents"
           me == [req[r] EXCEPT !.mine = rows, !.pc = pc]
<1>1. req[r] \in RequestState /\ RequestOK(req[r]) /\ req[r].pc = "users"
  BY DEF TypeInv, TypeOK, LoadUsers
<1>2. rows \in [Agents -> Binding \cup {None}]
  BY DEF TypeInv, TypeOK
<1>3. me \in RequestState
  BY <1>1, <1>2 DEF RequestState
<1>4. /\ me.pc = pc /\ me.kind = req[r].kind /\ me.skill = req[r].skill
      /\ me.agent = req[r].agent /\ me.new = req[r].new /\ me.result = req[r].result
      /\ me.todo = {}
  <2>1. me.todo = req[r].todo
    BY <1>1 DEF RequestState
  <2>2. req[r].todo = {}
    BY <1>1 DEF RequestOK
  <2>3. QED
    BY <1>1, <2>1, <2>2 DEF RequestState
<1>5. RequestOK(me)
  BY <1>1, <1>4 DEF RequestOK, SkillKinds
<1>6. req' = [req EXCEPT ![r] = me]
  BY DEF LoadUsers
<1>7. QED
  BY <1>3, <1>5, <1>6, OneRequest DEF LoadUsers, TypeInv, TypeOK

LEMMA RereadType ==
    ASSUME TypeInv, NEW r \in Requests, Reread(r)
    PROVE  TypeInv'
<1> DEFINE me == [req[r] EXCEPT !.own = skill[req[r].skill], !.pc = "agents"]
<1>1. req[r] \in RequestState /\ RequestOK(req[r]) /\ req[r].pc = "reread"
  BY DEF TypeInv, TypeOK, Reread
<1>2. req[r].kind \in SkillKinds /\ req[r].skill \in Skills
  BY <1>1 DEF RequestOK
<1>3. skill[req[r].skill] \in Row
  BY <1>2 DEF Reread, TypeInv, TypeOK
<1>4. me \in RequestState
  BY <1>1, <1>3 DEF RequestState
<1>5. /\ me.pc = "agents" /\ me.kind = req[r].kind /\ me.skill = req[r].skill
      /\ me.agent = req[r].agent /\ me.new = req[r].new /\ me.result = req[r].result
      /\ me.todo = req[r].todo /\ me.mine = req[r].mine
  BY <1>1 DEF RequestState
<1>6. RequestOK(me)
  BY <1>1, <1>5 DEF RequestOK
<1>7. req' = [req EXCEPT ![r] = me]
  BY DEF Reread
<1>8. QED
  BY <1>4, <1>6, <1>7, OneRequest DEF Reread, TypeInv, TypeOK

LEMMA ListAgentsType ==
    ASSUME TypeInv, NEW r \in Requests, ListAgents(r)
    PROVE  TypeInv'
<1> DEFINE held == [a \in Agents |-> IF agent[a] # None /\ req[r].mine[a] # None
                                     THEN req[r].mine[a] ELSE agent[a]]
           todo == {a \in Agents : held[a] # None /\ req[r].skill \in held[a].ids}
           rows == [a \in Agents |-> IF a \in todo THEN held[a] ELSE None]
           pc == IF todo # {} THEN "resolve"
                 ELSE IF req[r].kind = "delete" THEN "drop" ELSE "commit"
           me == [req[r] EXCEPT !.mine = rows, !.todo = todo, !.pc = pc]
<1>1. req[r] \in RequestState /\ RequestOK(req[r]) /\ req[r].pc = "agents"
  BY DEF TypeInv, TypeOK, ListAgents
<1>2. held \in [Agents -> Binding \cup {None}]
  BY <1>1 DEF TypeInv, TypeOK, RequestState
<1>3. /\ rows \in [Agents -> Binding \cup {None}]
      /\ \A a \in todo : rows[a] \in Binding
      /\ todo \in SUBSET Agents
  BY <1>2
<1>4. me \in RequestState
  BY <1>1, <1>3 DEF RequestState
<1>5. /\ me.pc = pc /\ me.kind = req[r].kind /\ me.skill = req[r].skill
      /\ me.agent = req[r].agent /\ me.new = req[r].new /\ me.result = req[r].result
      /\ me.todo = todo /\ me.mine = rows
  BY <1>1 DEF RequestState
<1>6. RequestOK(me)
  BY <1>1, <1>3, <1>5 DEF RequestOK
<1>7. req' = [req EXCEPT ![r] = me]
  BY DEF ListAgents
<1>8. QED
  BY <1>4, <1>6, <1>7, OneRequest DEF ListAgents, TypeInv, TypeOK

LEMMA ResolveAgentType ==
    ASSUME TypeInv, NEW r \in Requests, NEW a \in Agents, ResolveAgent(r, a)
    PROVE  TypeInv'
<1> DEFINE ids == IF req[r].kind = "delete" THEN req[r].mine[a].ids \ {req[r].skill}
                                            ELSE req[r].mine[a].ids
           row == [ids |-> ids, snapshot |-> Resolve(ids, Seen(r))]
           todo == req[r].todo \ {a}
           result == [req[r].result EXCEPT ![a] = row]
           pc == IF req[r].todo = {a} THEN "commit" ELSE "resolve"
           me == [req[r] EXCEPT !.todo = todo, !.result = result, !.pc = pc]
<1>1. /\ req[r] \in RequestState /\ RequestOK(req[r])
      /\ req[r].pc = "resolve" /\ a \in req[r].todo
  BY DEF TypeInv, TypeOK, ResolveAgent
<1>2. ids \in SUBSET Skills
  <2>1. req[r].mine[a] \in Binding
    BY <1>1 DEF RequestOK
  <2>2. QED
    BY <2>1 DEF Binding
<1>3. \A s \in Skills : Seen(r)[s] \in Row \cup {None}
  BY <1>1 DEF Seen, RequestState, TypeInv, TypeOK
<1>4. row \in Binding
  <2>1. Resolve(ids, Seen(r)) \in SUBSET Entry
    BY <1>2, <1>3, ResolveType
  <2>2. QED
    BY <1>2, <2>1 DEF Binding
<1>5. result \in [Agents -> Binding \cup {None}] /\ todo \in SUBSET Agents
  BY <1>1, <1>4 DEF RequestState
<1>6. me \in RequestState
  BY <1>1, <1>5 DEF RequestState
<1>7. /\ me.pc = pc /\ me.kind = req[r].kind /\ me.skill = req[r].skill
      /\ me.agent = req[r].agent /\ me.new = req[r].new
      /\ me.todo = todo /\ me.mine = req[r].mine
  BY <1>1 DEF RequestState
<1>8. RequestOK(me)
  BY <1>1, <1>7 DEF RequestOK
<1>9. req' = [req EXCEPT ![r] = me]
  BY DEF ResolveAgent
<1>10. QED
  BY <1>6, <1>8, <1>9, OneRequest DEF ResolveAgent, TypeInv, TypeOK

LEMMA SaveSkillType ==
    ASSUME TypeInv, NEW r \in Requests, SaveSkill(r)
    PROVE  TypeInv'
<1> DEFINE s == req[r].skill
           row == [content |-> Column(req[r].own.content, req[r].new.content, skill[s].content),
                   status |-> Column(req[r].own.status, req[r].new.status, skill[s].status),
                   enabled |-> Column(req[r].own.enabled, req[r].new.enabled, skill[s].enabled)]
<1>1. req[r].kind \in SkillKinds /\ s \in Skills /\ req[r].new \in Row /\ skill[s] \in Row
  BY DEF SaveSkill, TypeInv, TypeOK, RequestOK
<1>2. row \in Row
  BY <1>1, ColumnType DEF Row
<1>3. skill' = [skill EXCEPT ![s] = row] /\ Goto(r, "reread") /\ UNCHANGED <<agent, reviewed, broken>>
  BY DEF SaveSkill
<1>4. skill' \in [Skills -> Row \cup {None}]
  BY <1>2, <1>3 DEF TypeInv, TypeOK
<1>5. QED
  BY <1>1, <1>3, <1>4, GotoType DEF TypeInv, TypeOK

LEMMA SaveAgentType ==
    ASSUME TypeInv, NEW r \in Requests, NEW a \in Agents, NEW ids \in SUBSET Skills,
           SaveAgent(r, a, ids)
    PROVE  TypeInv'
<1> DEFINE row == [ids |-> ids, snapshot |-> {}]
           me == [Idle EXCEPT !.pc = "gate", !.kind = "agent", !.agent = a,
                              !.mine[a] = agent[a], !.result[a] = row]
<1>1. row \in Binding /\ agent[a] \in Binding \cup {None}
  BY DEF Binding, TypeInv, TypeOK
<1>2. Idle \in RequestState /\ Idle.todo = {}
  BY IdleOK DEF Idle
<1>3. me \in RequestState
  BY <1>1, <1>2 DEF RequestState
<1>4. /\ me.pc = "gate" /\ me.kind = "agent" /\ me.agent = a /\ me.todo = {}
      /\ me.result[a] = row
  BY <1>1, <1>2 DEF RequestState
<1>5. RequestOK(me)
  BY <1>1, <1>4 DEF RequestOK, SkillKinds
<1>6. req' = [req EXCEPT ![r] = me]
  BY DEF SaveAgent
<1>7. QED
  BY <1>3, <1>5, <1>6, OneRequest DEF SaveAgent, TypeInv, TypeOK

LEMMA DeleteAgentType ==
    ASSUME TypeInv, NEW r \in Requests, NEW a \in Agents, DeleteAgent(r, a)
    PROVE  TypeInv'
<1> DEFINE me == [Idle EXCEPT !.pc = "drop", !.kind = "agent", !.agent = a]
<1>1. Idle \in RequestState /\ Idle.todo = {}
  BY IdleOK DEF Idle
<1>2. me \in RequestState
  BY <1>1 DEF RequestState
<1>3. me.pc = "drop" /\ me.kind = "agent" /\ me.agent = a /\ me.todo = {}
  BY <1>1 DEF RequestState
<1>4. RequestOK(me)
  BY <1>3 DEF RequestOK, SkillKinds
<1>5. req' = [req EXCEPT ![r] = me]
  BY DEF DeleteAgent
<1>6. QED
  BY <1>2, <1>4, <1>5, OneRequest DEF DeleteAgent, TypeInv, TypeOK

LEMMA BindType ==
    ASSUME TypeInv, NEW r \in Requests, Bind(r)
    PROVE  TypeInv'
<1> DEFINE a == req[r].agent
           ids == req[r].result[a].ids
           row == [req[r].result[a] EXCEPT !.snapshot = Resolve(ids, skill)]
           result == [req[r].result EXCEPT ![a] = row]
           pc == IF req[r].mine[a] = None THEN "insert" ELSE "commit"
           me == [req[r] EXCEPT !.result = result, !.pc = pc]
<1>1. /\ req[r] \in RequestState /\ RequestOK(req[r]) /\ req[r].pc = "bind"
      /\ a \in Agents /\ req[r].kind = "agent" /\ req[r].result[a] \in Binding
  BY DEF TypeInv, TypeOK, Bind, RequestOK
<1>2. ids \in SUBSET Skills
  BY <1>1 DEF Binding
<1>3. row \in Binding
  <2>1. Resolve(ids, skill) \in SUBSET Entry
    BY <1>2, ResolveType DEF TypeInv, TypeOK
  <2>2. QED
    BY <1>1, <2>1 DEF Binding
<1>4. result \in [Agents -> Binding \cup {None}] /\ result[a] = row
  BY <1>1, <1>3 DEF RequestState
<1>5. me \in RequestState
  BY <1>1, <1>4 DEF RequestState
<1>6. /\ me.pc = pc /\ me.kind = "agent" /\ me.agent = a /\ me.result = result
      /\ me.todo = req[r].todo /\ me.mine = req[r].mine
  BY <1>1 DEF RequestState
<1>7. RequestOK(me)
  BY <1>1, <1>3, <1>4, <1>6 DEF RequestOK, SkillKinds
<1>8. req' = [req EXCEPT ![r] = me]
  BY <1>1 DEF Bind, TypeInv, TypeOK, RequestState
<1>9. QED
  BY <1>5, <1>7, <1>8, OneRequest DEF Bind, TypeInv, TypeOK

LEMMA CommitAgentsType ==
    ASSUME TypeInv, NEW r \in Requests, CommitAgents(r)
    PROVE  TypeInv'
<1> DEFINE new(a) == [ids |-> Column(req[r].mine[a].ids, req[r].result[a].ids, agent[a].ids),
                      snapshot |-> Column(req[r].mine[a].snapshot, req[r].result[a].snapshot,
                                          agent[a].snapshot)]
<1>1. req[r] \in RequestState /\ RequestOK(req[r])
  BY DEF TypeInv, TypeOK
<1>2. ASSUME NEW a \in Changed(r)
      PROVE  a \in Agents /\ new(a) \in Binding
  <2>1. a \in Agents /\ req[r].result[a] \in Binding /\ agent[a] \in Binding
    BY <1>1, <1>2 DEF Changed, CommitAgents, RequestState, TypeInv, TypeOK
  <2>2. /\ req[r].result[a].ids \in SUBSET Skills /\ agent[a].ids \in SUBSET Skills
        /\ req[r].result[a].snapshot \in SUBSET Entry /\ agent[a].snapshot \in SUBSET Entry
    BY <2>1 DEF Binding
  <2>3. new(a).ids \in SUBSET Skills
    BY <2>2 DEF Column
  <2>4. new(a).snapshot \in SUBSET Entry
    BY <2>2 DEF Column
  <2>5. QED
    BY <2>1, <2>3, <2>4 DEF Binding
<1>3. agent' = [a \in Agents |-> IF a \in Changed(r) THEN new(a) ELSE agent[a]]
  BY DEF CommitAgents
<1>4. agent' \in [Agents -> Binding \cup {None}]
  BY <1>2, <1>3 DEF TypeInv, TypeOK
<1>5. broken' \subseteq Skills
  BY DEF CommitAgents, TypeInv, TypeOK
<1>6. CASE req[r].kind = "delete"
  <2>1. Goto(r, "drop")
    BY <1>6 DEF CommitAgents
  <2>2. QED
    BY <1>4, <1>5, <1>6, <2>1, GotoType DEF CommitAgents, TypeInv, TypeOK
<1>7. CASE req[r].kind # "delete"
  <2>1. Done(r)
    BY <1>7 DEF CommitAgents
  <2>2. QED
    BY <1>4, <1>5, <2>1, DoneType DEF CommitAgents, TypeInv, TypeOK
<1>8. QED
  BY <1>6, <1>7

LEMMA AbortType ==
    ASSUME TypeInv, NEW r \in Requests, Abort(r)
    PROVE  TypeInv'
<1>1. broken' \subseteq Skills
  <2>1. req[r].kind \in SkillKinds => req[r].skill \in Skills
    BY DEF TypeInv, RequestOK
  <2>2. QED
    BY <2>1 DEF Abort, TypeInv, TypeOK, SkillKinds
<1>2. QED
  BY <1>1, DoneType DEF Abort, TypeInv, TypeOK

\* Requests that end, or pass the gate.
LEMMA EndType ==
    ASSUME TypeInv, NEW r \in Requests,
           RefuseDelete(r) \/ DropSkill(r) \/ Gate(r) \/ Refuse(r) \/ InsertAgent(r) \/ DropAgent(r)
    PROVE  TypeInv'
<1>1. CASE RefuseDelete(r) \/ Refuse(r)
  BY <1>1, DoneType DEF RefuseDelete, Refuse, TypeInv, TypeOK
<1>2. CASE DropSkill(r)
  <2>1. skill' \in [Skills -> Row \cup {None}] /\ broken' \subseteq Skills
    BY <1>2 DEF DropSkill, TypeInv, TypeOK
  <2>2. QED
    BY <1>2, <2>1, DoneType DEF DropSkill, TypeInv, TypeOK
<1>3. CASE Gate(r)
  BY <1>3, GotoType DEF Gate, TypeInv, TypeOK
<1>4. CASE InsertAgent(r)
  <2>1. req[r].result[req[r].agent] \in Binding
    BY <1>4 DEF InsertAgent, TypeInv, RequestOK
  <2>2. agent' \in [Agents -> Binding \cup {None}]
    BY <1>4, <2>1 DEF InsertAgent, TypeInv, TypeOK
  <2>3. QED
    BY <1>4, <2>2, DoneType DEF InsertAgent, TypeInv, TypeOK
<1>5. CASE DropAgent(r)
  <2>1. agent' \in [Agents -> Binding \cup {None}]
    BY <1>5 DEF DropAgent, TypeInv, TypeOK
  <2>2. QED
    BY <1>5, <2>1, DoneType DEF DropAgent, TypeInv, TypeOK
<1>6. QED
  BY <1>1, <1>2, <1>3, <1>4, <1>5

LEMMA TypeInit == Init => TypeInv
<1> SUFFICES ASSUME Init PROVE TypeInv
  OBVIOUS
<1>1. NoRows \in [Agents -> Binding \cup {None}]
  BY DEF NoRows
<1>2. QED
  BY <1>1, IdleOK DEF Init, TypeInv, TypeOK

LEMMA TypeStep == TypeInv /\ [Next]_vars => TypeInv'
<1> SUFFICES ASSUME TypeInv, [Next]_vars PROVE TypeInv'
  OBVIOUS
<1>1. ASSUME NEW s \in Skills, NEW c \in Contents, CreateSkill(s, c) PROVE TypeInv'
  <2>1. [content |-> c, status |-> "pending", enabled |-> TRUE] \in Row
    BY DEF Row, Status
  <2>2. QED
    BY <1>1, <2>1 DEF CreateSkill, TypeInv, TypeOK
<1>2. ASSUME NEW r \in Requests, SkillNext(r) PROVE TypeInv'
  BY <1>2, SkillRequestType, LoadUsersType, EndType, SaveSkillType, RereadType, ListAgentsType,
     ResolveAgentType DEF SkillNext
<1>3. ASSUME NEW r \in Requests, AgentNext(r) PROVE TypeInv'
  BY <1>3, DeleteAgentType, SaveAgentType, EndType, BindType DEF AgentNext
<1>4. ASSUME NEW r \in Requests, CommitAgents(r) \/ Abort(r) PROVE TypeInv'
  BY <1>4, CommitAgentsType, AbortType
<1>5. CASE UNCHANGED vars
  BY <1>5 DEF vars, TypeInv, TypeOK
<1>6. QED
  BY <1>1, <1>2, <1>3, <1>4, <1>5 DEF Next

\* Rows, snapshots and the copies that requests hold are well formed, however
\* many requests overlap.
THEOREM TypeOKAlways == Spec => []TypeOK
<1>1. TypeInv => TypeOK
  BY DEF TypeInv
<1>2. QED
  BY <1>1, TypeInit, TypeStep, PTL DEF Spec

-----------------------------------------------------------------------------
(* One request at a time. *)

OneAtATime == \A q, r \in Requests : q = r

\* A request that is about to save a skill holds the row as it is, and has it
\* reviewed if it wants it approved.
HoldsRow(me) ==
    me.kind \in SkillKinds /\ me.pc \in {"users", "save"} =>
        /\ me.own = skill[me.skill]
        /\ me.own \in Row
        /\ me.new.status = "approved" => <<me.skill, me.new.content>> \in reviewed

ReviewInv ==
    /\ TypeInv
    /\ ApprovedIsReviewed
    /\ \A r \in Requests : HoldsRow(req[r])

\* Where skills and reviews are left alone, a request keeps what it holds.
LEMMA KeepsRows ==
    ASSUME ReviewInv, NEW r \in Requests, OneAtATime, NEW me,
           req' = [req EXCEPT ![r] = me], UNCHANGED <<skill, reviewed>>,
           \/ me.pc \notin {"users", "save"}
           \/ /\ me.kind = req[r].kind /\ me.skill = req[r].skill /\ me.own = req[r].own
              /\ me.new = req[r].new /\ req[r].pc = "users"
    PROVE  ApprovedIsReviewed' /\ \A q \in Requests : HoldsRow(req[q])'
<1>1. ApprovedIsReviewed'
  BY DEF ReviewInv, ApprovedIsReviewed
<1>2. \A q \in Requests : q = r /\ req'[q] = me
  BY DEF OneAtATime, ReviewInv, TypeInv, TypeOK
<1>3. HoldsRow(req[r])
  BY DEF ReviewInv
<1>4. ASSUME NEW q \in Requests
      PROVE  HoldsRow(req[q])'
  BY <1>2, <1>3 DEF HoldsRow
<1>5. QED
  BY <1>1, <1>4

LEMMA LoadReviewed ==
    ASSUME ReviewInv, OneAtATime, NEW r \in Requests, NEW s \in Skills, NEW kind, NEW new, NEW pc,
           Load(r, kind, s, new, pc), reviewed \subseteq reviewed',
           kind \in SkillKinds /\ new.status = "approved" => <<s, new.content>> \in reviewed'
    PROVE  ApprovedIsReviewed' /\ \A q \in Requests : HoldsRow(req[q])'
<1> DEFINE me == Loaded(kind, s, new, pc)
<1>1. req' = [req EXCEPT ![r] = me] /\ skill' = skill /\ skill[s] \in Row
  BY DEF Load, Loaded, ReviewInv, TypeInv, TypeOK
<1>2. \A q \in Requests : req'[q] = me
  BY <1>1 DEF OneAtATime, ReviewInv, TypeInv, TypeOK
<1>3. ApprovedIsReviewed'
  BY <1>1 DEF ReviewInv, ApprovedIsReviewed
<1>4. /\ me.kind = kind /\ me.skill = s /\ me.own = skill[s] /\ me.new = new
  BY LoadedFields
<1>5. ASSUME NEW q \in Requests
      PROVE  HoldsRow(req[q])'
  BY <1>1, <1>2, <1>4 DEF HoldsRow
<1>6. QED
  BY <1>3, <1>5

LEMMA SkillRequestReviewed ==
    ASSUME ReviewInv, OneAtATime, NEW r \in Requests, NEW s \in Skills,
           \/ \E c \in Contents, enabled \in BOOLEAN : EditSkill(r, s, c, enabled)
           \/ \E status \in Status : ReviewSkill(r, s, status)
           \/ \E c \in Contents : ImportSkill(r, s, c)
           \/ DeleteSkill(r, s)
    PROVE  ApprovedIsReviewed' /\ \A q \in Requests : HoldsRow(req[q])'
<1>1. /\ skill[s] # None => skill[s] \in Row
      /\ skill[s] # None /\ skill[s].status = "approved" => <<s, skill[s].content>> \in reviewed
  BY DEF ReviewInv, ApprovedIsReviewed, TypeInv, TypeOK
<1>2. ASSUME NEW c \in Contents, NEW enabled \in BOOLEAN, EditSkill(r, s, c, enabled)
      PROVE  ApprovedIsReviewed' /\ \A q \in Requests : HoldsRow(req[q])'
  <2> DEFINE new == Edited(skill[s], c, enabled)
  <2>1. new.status = "approved" => <<s, new.content>> \in reviewed
    BY <1>1, <1>2 DEF Edited, EditSkill, Load
  <2>2. QED
    BY <1>2, <2>1, LoadReviewed DEF EditSkill
<1>3. ASSUME NEW status \in Status, ReviewSkill(r, s, status)
      PROVE  ApprovedIsReviewed' /\ \A q \in Requests : HoldsRow(req[q])'
  <2> DEFINE new == [skill[s] EXCEPT !.status = status]
  <2>1. new.content = skill[s].content /\ new.status = status
    BY <1>1, <1>3 DEF ReviewSkill, Load, Row
  <2>2. new.status = "approved" => <<s, new.content>> \in reviewed'
    BY <1>3, <2>1 DEF ReviewSkill
  <2>3. reviewed \subseteq reviewed'
    BY <1>3 DEF ReviewSkill
  <2>4. QED
    BY <1>3, <2>2, <2>3, LoadReviewed DEF ReviewSkill
<1>4. ASSUME NEW c \in Contents, ImportSkill(r, s, c)
      PROVE  ApprovedIsReviewed' /\ \A q \in Requests : HoldsRow(req[q])'
  <2> DEFINE new == [skill[s] EXCEPT !.content = c, !.status = "pending"]
  <2>1. new.status = "pending"
    BY <1>1, <1>4 DEF ImportSkill, Load, Row
  <2>2. QED
    BY <1>4, <2>1, LoadReviewed DEF ImportSkill
<1>5. CASE DeleteSkill(r, s)
  BY <1>5, LoadReviewed DEF DeleteSkill, SkillKinds
<1>6. QED
  BY <1>2, <1>3, <1>4, <1>5

\* The row that is saved is the row that was wanted.
LEMMA SaveReviewed ==
    ASSUME ReviewInv, OneAtATime, NEW r \in Requests, SaveSkill(r)
    PROVE  ApprovedIsReviewed' /\ \A q \in Requests : HoldsRow(req[q])'
<1> DEFINE s == req[r].skill
           row == [content |-> Column(req[r].own.content, req[r].new.content, skill[s].content),
                   status |-> Column(req[r].own.status, req[r].new.status, skill[s].status),
                   enabled |-> Column(req[r].own.enabled, req[r].new.enabled, skill[s].enabled)]
           me == [req[r] EXCEPT !.pc = "reread"]
<1>1. /\ req[r].kind \in SkillKinds /\ s \in Skills /\ req[r].pc = "save"
      /\ req[r] \in RequestState
  BY DEF SaveSkill, ReviewInv, TypeInv, TypeOK, RequestOK
<1>2. /\ req[r].own = skill[s]
      /\ req[r].new.status = "approved" => <<s, req[r].new.content>> \in reviewed
  BY <1>1 DEF ReviewInv, HoldsRow
<1>3. row.content = req[r].new.content /\ row.status = req[r].new.status
  BY <1>2 DEF Column
<1>4. skill' = [skill EXCEPT ![s] = row] /\ reviewed' = reviewed
  BY DEF SaveSkill
<1>5. ApprovedIsReviewed'
  BY <1>1, <1>2, <1>3, <1>4 DEF ApprovedIsReviewed, ReviewInv, TypeInv, TypeOK
<1>6. req' = [req EXCEPT ![r] = me] /\ me.pc = "reread"
  BY <1>1 DEF SaveSkill, Goto, RequestState
<1>7. \A q \in Requests : req'[q].pc = "reread"
  BY <1>6 DEF OneAtATime, ReviewInv, TypeInv, TypeOK
<1>8. QED
  BY <1>5, <1>7 DEF HoldsRow

\* Where skills and reviews are left alone and no request is about to save.
LEMMA Elsewhere ==
    ASSUME ReviewInv, UNCHANGED <<skill, reviewed>>,
           \A q \in Requests : req'[q].pc \notin {"users", "save"}
    PROVE  ApprovedIsReviewed' /\ \A q \in Requests : HoldsRow(req[q])'
  BY DEF ReviewInv, ApprovedIsReviewed, HoldsRow

\* A request that is done is idle, and no other request runs.
LEMMA DoneElsewhere ==
    ASSUME ReviewInv, OneAtATime, NEW r \in Requests, Done(r)
    PROVE  \A q \in Requests : req'[q].pc \notin {"users", "save"}
<1>1. \A q \in Requests : req'[q] = Idle
  BY DEF Done, OneAtATime, ReviewInv, TypeInv, TypeOK
<1>2. Idle.pc = "idle"
  BY DEF Idle
<1>3. QED
  BY <1>1, <1>2

LEMMA GotoElsewhere ==
    ASSUME ReviewInv, OneAtATime, NEW r \in Requests,
           NEW pc \in {"bind", "drop"}, Goto(r, pc)
    PROVE  \A q \in Requests : req'[q].pc \notin {"users", "save"}
  BY DEF Goto, OneAtATime, ReviewInv, TypeInv, TypeOK, RequestState

\* The steps that read, resolve and write agents.
LEMMA AgentsReviewed ==
    ASSUME ReviewInv, OneAtATime, NEW r \in Requests,
           \/ Reread(r) \/ ListAgents(r) \/ Bind(r)
           \/ \E a \in Agents :
                 ResolveAgent(r, a) \/ DeleteAgent(r, a)
                    \/ \E ids \in SUBSET Skills : SaveAgent(r, a, ids)
    PROVE  ApprovedIsReviewed' /\ \A q \in Requests : HoldsRow(req[q])'
<1>1. req \in [Requests -> RequestState] /\ \A q \in Requests : q = r
  BY DEF ReviewInv, TypeInv, TypeOK, OneAtATime
<1>2. CASE Reread(r)
  <2>1. req'[r].pc = "agents"
    BY <1>1, <1>2 DEF Reread, RequestState
  <2>2. QED
    BY <1>1, <1>2, <2>1, Elsewhere DEF Reread
<1>3. CASE ListAgents(r)
  <2>1. req'[r].pc \in {"resolve", "drop", "commit"}
    BY <1>1, <1>3 DEF ListAgents, RequestState
  <2>2. QED
    BY <1>1, <1>3, <2>1, Elsewhere DEF ListAgents
<1>4. CASE Bind(r)
  <2>1. req'[r].pc \in {"insert", "commit"}
    BY <1>1, <1>4 DEF Bind, RequestState
  <2>2. QED
    BY <1>1, <1>4, <2>1, Elsewhere DEF Bind
<1>5. ASSUME NEW a \in Agents, ResolveAgent(r, a)
      PROVE  ApprovedIsReviewed' /\ \A q \in Requests : HoldsRow(req[q])'
  <2>1. req'[r].pc \in {"commit", "resolve"}
    BY <1>1, <1>5 DEF ResolveAgent, RequestState
  <2>2. QED
    BY <1>1, <1>5, <2>1, Elsewhere DEF ResolveAgent
<1>6. ASSUME NEW a \in Agents, DeleteAgent(r, a)
      PROVE  ApprovedIsReviewed' /\ \A q \in Requests : HoldsRow(req[q])'
  <2>1. req'[r].pc = "drop"
    BY <1>1, <1>6, IdleOK DEF DeleteAgent, RequestState
  <2>2. QED
    BY <1>1, <1>6, <2>1, Elsewhere DEF DeleteAgent
<1>7. ASSUME NEW a \in Agents, NEW ids \in SUBSET Skills, SaveAgent(r, a, ids)
      PROVE  ApprovedIsReviewed' /\ \A q \in Requests : HoldsRow(req[q])'
  <2>1. req'[r].pc = "gate"
    BY <1>1, <1>7, IdleOK DEF SaveAgent, RequestState
  <2>2. QED
    BY <1>1, <1>7, <2>1, Elsewhere DEF SaveAgent
<1>8. QED
  BY <1>2, <1>3, <1>4, <1>5, <1>6, <1>7

LEMMA UsersReviewed ==
    ASSUME ReviewInv, OneAtATime, NEW r \in Requests, LoadUsers(r)
    PROVE  ApprovedIsReviewed' /\ \A q \in Requests : HoldsRow(req[q])'
<1> DEFINE users == {a \in Agents : agent[a] # None /\ req[r].skill \in agent[a].ids}
           me == [req[r] EXCEPT
                    !.mine = [a \in Agents |-> IF a \in users THEN agent[a] ELSE None],
                    !.pc = IF req[r].kind # "delete" THEN "save"
                           ELSE IF users = {} THEN "drop" ELSE "agents"]
<1>1. req[r] \in RequestState /\ req[r].pc = "users"
  BY DEF LoadUsers, ReviewInv, TypeInv, TypeOK
<1>2. req' = [req EXCEPT ![r] = me] /\ UNCHANGED <<skill, reviewed>>
  BY DEF LoadUsers
<1>3. /\ me.kind = req[r].kind /\ me.skill = req[r].skill /\ me.own = req[r].own
      /\ me.new = req[r].new
  BY <1>1 DEF RequestState
<1>4. QED
  BY <1>1, <1>2, <1>3, KeepsRows

\* The steps that end a request or its part about skills.
LEMMA EndReviewed ==
    ASSUME ReviewInv, OneAtATime, NEW r \in Requests,
           \/ RefuseDelete(r) \/ DropSkill(r) \/ Gate(r) \/ Refuse(r) \/ InsertAgent(r)
           \/ DropAgent(r) \/ CommitAgents(r) \/ Abort(r)
    PROVE  ApprovedIsReviewed' /\ \A q \in Requests : HoldsRow(req[q])'
<1>1. CASE RefuseDelete(r) \/ Refuse(r) \/ InsertAgent(r) \/ DropAgent(r) \/ Abort(r)
  BY <1>1, DoneElsewhere, Elsewhere DEF RefuseDelete, Refuse, InsertAgent, DropAgent, Abort
<1>2. CASE Gate(r)
  BY <1>2, GotoElsewhere, Elsewhere DEF Gate
<1>3. CASE CommitAgents(r)
  <2>1. Goto(r, "drop") \/ Done(r)
    BY <1>3 DEF CommitAgents
  <2>2. QED
    BY <1>3, <2>1, DoneElsewhere, GotoElsewhere, Elsewhere DEF CommitAgents
<1>4. CASE DropSkill(r)
  <2>1. \A t \in Skills : skill'[t] = None \/ skill'[t] = skill[t]
    BY <1>4 DEF DropSkill, ReviewInv, TypeInv, TypeOK
  <2>2. ApprovedIsReviewed'
    BY <1>4, <2>1 DEF DropSkill, ReviewInv, ApprovedIsReviewed
  <2>3. \A q \in Requests : req'[q].pc \notin {"users", "save"}
    BY <1>4, DoneElsewhere DEF DropSkill
  <2>4. QED
    BY <2>2, <2>3 DEF HoldsRow
<1>5. QED
  BY <1>1, <1>2, <1>3, <1>4

\* A new row waits for its review, and no request refers to it.
LEMMA CreateReviewed ==
    ASSUME ReviewInv, NEW s \in Skills, NEW c \in Contents, CreateSkill(s, c)
    PROVE  ApprovedIsReviewed' /\ \A q \in Requests : HoldsRow(req[q])'
<1>1. \A t \in Skills : t # s => skill'[t] = skill[t]
  BY DEF CreateSkill, ReviewInv, TypeInv, TypeOK
<1>2. skill'[s].status = "pending"
  BY DEF CreateSkill, ReviewInv, TypeInv, TypeOK
<1>3. \A p \in reviewed : p[1] # s => p \in reviewed'
  BY DEF CreateSkill
<1>4. ApprovedIsReviewed'
  BY <1>1, <1>2, <1>3 DEF ReviewInv, ApprovedIsReviewed
<1>5. ASSUME NEW q \in Requests
      PROVE  HoldsRow(req[q])'
  <2>1. req' = req /\ req[q].skill # s /\ HoldsRow(req[q])
    BY DEF CreateSkill, FreshSkill, ReviewInv
  <2>2. req[q].kind \in SkillKinds => req[q].skill \in Skills
    BY DEF ReviewInv, TypeInv, RequestOK
  <2>3. QED
    BY <1>1, <1>3, <2>1, <2>2 DEF HoldsRow
<1>6. QED
  BY <1>4, <1>5

LEMMA ReviewInit == Init => ReviewInv
<1> SUFFICES ASSUME Init PROVE ReviewInv
  OBVIOUS
<1>1. Idle.pc = "idle"
  BY DEF Idle
<1>2. QED
  BY <1>1, TypeInit DEF Init, ReviewInv, ApprovedIsReviewed, HoldsRow

LEMMA ReviewStep == OneAtATime /\ ReviewInv /\ [Next]_vars => ReviewInv'
<1> SUFFICES ASSUME OneAtATime, ReviewInv, [Next]_vars PROVE ReviewInv'
  OBVIOUS
<1>1. TypeInv'
  BY TypeStep DEF ReviewInv
<1>2. ApprovedIsReviewed' /\ \A q \in Requests : HoldsRow(req[q])'
  <2>1. CASE \E s \in Skills, c \in Contents : CreateSkill(s, c)
    BY <2>1, CreateReviewed
  <2>2. ASSUME NEW r \in Requests, SkillNext(r)
        PROVE  ApprovedIsReviewed' /\ \A q \in Requests : HoldsRow(req[q])'
    BY <2>2, SkillRequestReviewed, UsersReviewed, SaveReviewed, AgentsReviewed, EndReviewed
       DEF SkillNext
  <2>3. ASSUME NEW r \in Requests, AgentNext(r) \/ CommitAgents(r) \/ Abort(r)
        PROVE  ApprovedIsReviewed' /\ \A q \in Requests : HoldsRow(req[q])'
    BY <2>3, AgentsReviewed, EndReviewed DEF AgentNext
  <2>4. CASE UNCHANGED vars
    BY <2>4 DEF vars, ReviewInv, ApprovedIsReviewed, HoldsRow
  <2>5. QED
    BY <2>1, <2>2, <2>3, <2>4 DEF Next
<1>3. QED
  BY <1>1, <1>2 DEF ReviewInv

\* When requests do not overlap, a skill that counts as approved is what an
\* administrator approved, whatever was edited, imported, deleted or aborted.
THEOREM ApprovedIsReviewedAlways == OneAtATime => (Spec => []ApprovedIsReviewed)
<1> SUFFICES ASSUME OneAtATime PROVE Spec => []ApprovedIsReviewed
  OBVIOUS
<1>1. ReviewInv /\ [Next]_vars => ReviewInv'
  BY ReviewStep
<1>2. ReviewInv => ApprovedIsReviewed
  BY DEF ReviewInv
<1>3. QED
  BY <1>1, <1>2, ReviewInit, PTL DEF Spec

-----------------------------------------------------------------------------
(* The agents, one request at a time. *)

\* The snapshot of a row holds reviewed contents of skills the row binds.
Vetted(b) == \A e \in b.snapshot : e.skill \in b.ids /\ <<e.skill, e.content>> \in reviewed

Existing(b) == \A s \in b.ids : skill[s] # None

\* For this skill, the snapshot of a row is what the registry says.
Agrees(s, b) == {e \in b.snapshot : e.skill = s} = {e \in Resolve(b.ids, skill) : e.skill = s}

\* The skill is changed and the agents are about to follow.
Changing(me) == me.kind \in SkillKinds /\ me.pc \in {"reread", "agents", "resolve", "commit"}

\* A row that a request is about to write.
GoodResult(me, a) ==
    /\ Existing(me.result[a])
    /\ me.result[a].snapshot = Resolve(me.result[a].ids, skill)
    /\ me.mine[a] # None \/ me.pc = "insert"
    /\ me.kind = "delete" => me.skill \notin me.result[a].ids

\* What a request holds of skills and agents, with nobody else at work.
HoldsAgents(me) ==
    /\ me.pc \in {"users", "agents", "resolve"} =>
          me.kind \in SkillKinds \cup {"delete"} /\ me.own = skill[me.skill]
    /\ me.pc \in {"users", "save", "reread", "agents"} => me.result = NoRows
    /\ me.pc # "drop" => \A a \in Agents : me.mine[a] # None => me.mine[a] = agent[a]
    /\ me.pc \in {"gate", "bind"} => \A a \in Agents : me.result[a] # None => a = me.agent
    /\ me.pc = "bind" => Existing(me.result[me.agent])
    /\ me.pc \in {"resolve", "commit", "insert"} =>
          \A a \in Agents : me.result[a] # None => GoodResult(me, a)
    /\ me.pc \in {"resolve", "commit"} /\ me.kind # "agent" =>
          \A a \in Agents : agent[a] # None /\ me.skill \in agent[a].ids
              => a \in me.todo \/ me.result[a] # None
    /\ me.pc \in {"gate", "bind", "commit"} => me.todo = {}
    /\ me.pc = "drop" /\ me.kind = "delete" =>
          \A a \in Agents : agent[a] # None => me.skill \notin agent[a].ids

BindInv ==
    /\ \A a \in Agents : agent[a] # None => Vetted(agent[a]) /\ Existing(agent[a])
    /\ \A s \in Skills \ broken :
          \/ \E r \in Requests : Changing(req[r]) /\ req[r].skill = s
          \/ \A a \in Agents : agent[a] # None => Agrees(s, agent[a])
    /\ \A r \in Requests : HoldsAgents(req[r])

IdleFields == Idle.pc = "idle" /\ Idle.kind = "none" /\ Idle.skill = None
              /\ Idle.mine = NoRows /\ Idle.result = NoRows /\ Idle.todo = {}

LEMMA IdleIsEmpty == IdleFields
  BY DEF Idle, IdleFields

LEMMA IdleHolds == HoldsAgents(Idle)
  BY IdleIsEmpty DEF HoldsAgents, IdleFields, NoRows

LEMMA OnlyOne ==
    ASSUME TypeInv, OneAtATime, NEW r \in Requests
    PROVE  /\ \A q \in Requests : q = r
           /\ req[r] \in RequestState /\ RequestOK(req[r])
           /\ r \in DOMAIN req
  BY DEF TypeInv, TypeOK, OneAtATime

\* A step that only reads.
LEMMA KeepsBindings ==
    ASSUME TypeInv, BindInv, OneAtATime, NEW r \in Requests,
           UNCHANGED <<skill, agent>>, reviewed \subseteq reviewed', broken \subseteq broken',
           Changing(req[r]) => \/ Changing(req[r])' /\ req'[r].skill = req[r].skill
                               \/ req[r].skill \in broken',
           HoldsAgents(req[r])'
    PROVE  BindInv'
<1>1. \A q \in Requests : q = r
  BY OnlyOne
<1>2. \A a \in Agents : agent'[a] # None => Vetted(agent[a])' /\ Existing(agent[a])'
  BY DEF BindInv, Vetted, Existing
<1>3. ASSUME NEW s \in Skills \ broken'
      PROVE  \/ \E q \in Requests : Changing(req[q])' /\ req'[q].skill = s
             \/ \A a \in Agents : agent'[a] # None => Agrees(s, agent[a])'
  <2>1. CASE \E q \in Requests : Changing(req[q]) /\ req[q].skill = s
    BY <1>1, <1>3, <2>1
  <2>2. CASE \A a \in Agents : agent[a] # None => Agrees(s, agent[a])
    BY <2>2 DEF Agrees, Resolve
  <2>3. QED
    BY <1>3, <2>1, <2>2 DEF BindInv
<1>4. QED
  BY <1>1, <1>2, <1>3 DEF BindInv

\* A request that ends without a write.
LEMMA DoneBindings ==
    ASSUME TypeInv, BindInv, OneAtATime, NEW r \in Requests, Done(r),
           UNCHANGED <<skill, agent, reviewed>>, broken \subseteq broken',
           Changing(req[r]) => req[r].skill \in broken'
    PROVE  BindInv'
<1>1. req'[r] = Idle
  BY OnlyOne DEF Done
<1>2. HoldsAgents(req[r])'
  BY <1>1, IdleIsEmpty DEF HoldsAgents, IdleFields, NoRows
<1>3. QED
  BY <1>2, KeepsBindings

LEMMA LoadBindings ==
    ASSUME TypeInv, BindInv, OneAtATime, NEW r \in Requests, NEW s \in Skills,
           NEW kind \in {"edit", "review", "import", "delete"}, NEW new, NEW pc \in {"users", "save"},
           Load(r, kind, s, new, pc), reviewed \subseteq reviewed'
    PROVE  BindInv'
<1> DEFINE me == Loaded(kind, s, new, pc)
<1>1. req'[r] = me /\ UNCHANGED <<skill, agent, broken>> /\ req[r].pc = "idle"
  BY OnlyOne DEF Load, Loaded
<1>2. me.pc = pc /\ me.kind = kind /\ me.skill = s /\ me.own = skill[s]
  BY LoadedFields
<1>3. me.mine = NoRows /\ me.result = NoRows /\ me.todo = {}
  BY DEF Loaded, Idle
<1>4. HoldsAgents(req[r])'
  BY <1>1, <1>2, <1>3 DEF HoldsAgents, NoRows, SkillKinds
<1>5. QED
  BY <1>1, <1>4, KeepsBindings DEF Changing

LEMMA SkillRequestBindings ==
    ASSUME TypeInv, BindInv, OneAtATime, NEW r \in Requests, NEW s \in Skills,
           \/ \E c \in Contents, enabled \in BOOLEAN : EditSkill(r, s, c, enabled)
           \/ \E status \in Status : ReviewSkill(r, s, status)
           \/ \E c \in Contents : ImportSkill(r, s, c)
           \/ DeleteSkill(r, s)
    PROVE  BindInv'
  BY LoadBindings DEF EditSkill, ReviewSkill, ImportSkill, DeleteSkill

LEMMA UsersBindings ==
    ASSUME TypeInv, BindInv, OneAtATime, NEW r \in Requests, LoadUsers(r)
    PROVE  BindInv'
<1> DEFINE users == {a \in Agents : agent[a] # None /\ req[r].skill \in agent[a].ids}
           mine == [a \in Agents |-> IF a \in users THEN agent[a] ELSE None]
           pc == IF req[r].kind # "delete" THEN "save"
                 ELSE IF users = {} THEN "drop" ELSE "agents"
           me == [req[r] EXCEPT !.mine = mine, !.pc = pc]
<1>1. req[r] \in RequestState /\ req[r].pc = "users" /\ HoldsAgents(req[r])
  BY OnlyOne DEF LoadUsers, BindInv
<1>2. req'[r] = me /\ UNCHANGED <<skill, agent, reviewed, broken>>
  <2>1. req' = [req EXCEPT ![r] = me]
    BY DEF LoadUsers
  <2>2. QED
    BY <2>1, OnlyOne DEF LoadUsers
<1>3. /\ me.pc = pc /\ me.mine = mine /\ me.result = req[r].result /\ me.own = req[r].own
      /\ me.skill = req[r].skill /\ me.kind = req[r].kind
  BY <1>1 DEF RequestState
<1>4. HoldsAgents(req[r])'
  BY <1>1, <1>2, <1>3 DEF HoldsAgents
<1>5. QED
  BY <1>1, <1>2, <1>4, KeepsBindings DEF Changing

LEMMA RereadBindings ==
    ASSUME TypeInv, BindInv, OneAtATime, NEW r \in Requests, Reread(r)
    PROVE  BindInv'
<1> DEFINE me == [req[r] EXCEPT !.own = skill[req[r].skill], !.pc = "agents"]
<1>1. /\ req[r] \in RequestState /\ req[r].pc = "reread" /\ HoldsAgents(req[r])
      /\ req[r].kind \in SkillKinds
  BY OnlyOne DEF Reread, BindInv, RequestOK
<1>2. req'[r] = me /\ UNCHANGED <<skill, agent, reviewed, broken>>
  <2>1. req' = [req EXCEPT ![r] = me]
    BY DEF Reread
  <2>2. QED
    BY <2>1, OnlyOne DEF Reread
<1>3. /\ me.pc = "agents" /\ me.mine = req[r].mine /\ me.result = req[r].result
      /\ me.own = skill[req[r].skill] /\ me.skill = req[r].skill /\ me.kind = req[r].kind
  BY <1>1 DEF RequestState
<1>4. HoldsAgents(req[r])'
  BY <1>1, <1>2, <1>3 DEF HoldsAgents
<1>5. QED
  BY <1>1, <1>2, <1>3, <1>4, KeepsBindings DEF Changing

LEMMA ListBindings ==
    ASSUME TypeInv, BindInv, OneAtATime, NEW r \in Requests, ListAgents(r)
    PROVE  BindInv'
<1> DEFINE held == [a \in Agents |-> IF agent[a] # None /\ req[r].mine[a] # None
                                     THEN req[r].mine[a] ELSE agent[a]]
           todo == {a \in Agents : held[a] # None /\ req[r].skill \in held[a].ids}
           mine == [a \in Agents |-> IF a \in todo THEN held[a] ELSE None]
           pc == IF todo # {} THEN "resolve" ELSE IF req[r].kind = "delete" THEN "drop" ELSE "commit"
           me == [req[r] EXCEPT !.mine = mine, !.todo = todo, !.pc = pc]
<1>1. req[r] \in RequestState /\ req[r].pc = "agents" /\ HoldsAgents(req[r])
  BY OnlyOne DEF ListAgents, BindInv
<1>2. req'[r] = me /\ UNCHANGED <<skill, agent, reviewed, broken>>
  <2>1. req' = [req EXCEPT ![r] = me]
    BY DEF ListAgents
  <2>2. QED
    BY <2>1, OnlyOne DEF ListAgents
<1>3. /\ me.pc = pc /\ me.mine = mine /\ me.todo = todo /\ me.result = req[r].result
      /\ me.own = req[r].own /\ me.skill = req[r].skill /\ me.kind = req[r].kind
  BY <1>1 DEF RequestState
<1>4. /\ \A a \in Agents : held[a] = agent[a]
      /\ req[r].result = NoRows
  BY <1>1 DEF HoldsAgents
<1>5. /\ todo = {a \in Agents : agent[a] # None /\ req[r].skill \in agent[a].ids}
      /\ \A a \in Agents : mine[a] # None => mine[a] = agent[a]
      /\ \A a \in Agents : me.result[a] = None
  BY <1>3, <1>4 DEF NoRows
<1>6. HoldsAgents(req[r])'
  <2>1. pc \in {"resolve", "drop", "commit"} /\ (pc = "commit" => todo = {}) /\ (pc = "drop" => todo = {})
    OBVIOUS
  <2> HIDE DEF held, todo, mine, pc, me
  <2>2. me.kind \in SkillKinds \cup {"delete"} /\ me.own = skill[me.skill]
    BY <1>1, <1>3 DEF HoldsAgents
  <2>3. QED
    BY <1>2, <1>3, <1>5, <2>1, <2>2 DEF HoldsAgents
<1>7. QED
  BY <1>1, <1>2, <1>3, <1>6, KeepsBindings DEF Changing, SkillKinds

LEMMA SeenIsSkill ==
    ASSUME TypeInv, NEW r \in Requests, req[r].own = skill[req[r].skill]
    PROVE  Seen(r) = skill
  BY DEF Seen, TypeInv, TypeOK

LEMMA ResolveBindings ==
    ASSUME TypeInv, BindInv, OneAtATime, NEW r \in Requests, NEW a \in Agents, ResolveAgent(r, a)
    PROVE  BindInv'
<1> DEFINE ids == IF req[r].kind = "delete" THEN req[r].mine[a].ids \ {req[r].skill}
                                            ELSE req[r].mine[a].ids
           row == [ids |-> ids, snapshot |-> Resolve(ids, skill)]
           pc == IF req[r].todo = {a} THEN "commit" ELSE "resolve"
           me == [req[r] EXCEPT !.todo = @ \ {a}, !.result[a] = row, !.pc = pc]
<1>1. /\ req[r] \in RequestState /\ RequestOK(req[r]) /\ req[r].pc = "resolve"
      /\ HoldsAgents(req[r]) /\ a \in req[r].todo /\ req[r].mine[a] \in Binding
  BY OnlyOne DEF ResolveAgent, BindInv, RequestOK
<1>2. req[r].mine[a] # None /\ req[r].mine[a] = agent[a] /\ Existing(agent[a])
  BY <1>1, NoneAssumption DEF HoldsAgents, BindInv
<1>3. req[r].kind # "agent" /\ Seen(r) = skill
  BY <1>1, SeenIsSkill DEF HoldsAgents, SkillKinds
<1>4. req'[r] = me /\ UNCHANGED <<skill, agent, reviewed, broken>>
  <2>1. req' = [req EXCEPT ![r] = me]
    BY <1>3 DEF ResolveAgent
  <2>2. QED
    BY <2>1, OnlyOne DEF ResolveAgent
<1>5. /\ me.pc = pc /\ me.mine = req[r].mine /\ me.todo = req[r].todo \ {a}
      /\ me.result = [req[r].result EXCEPT ![a] = row]
      /\ me.own = req[r].own /\ me.skill = req[r].skill /\ me.kind = req[r].kind
  BY <1>1 DEF RequestState
<1>6. /\ me.result[a] = row
      /\ \A b \in Agents : b # a => me.result[b] = req[r].result[b]
  BY <1>1, <1>5 DEF RequestState
<1>7. ASSUME NEW b \in Agents, me.result[b] # None
      PROVE  GoodResult(req[r], b)'
  <2>1. CASE b = a
    <3>1. row.ids \subseteq agent[a].ids /\ row.snapshot = Resolve(row.ids, skill)
      BY <1>2
    <3>2. req[r].kind = "delete" => req[r].skill \notin row.ids
      BY <1>2
    <3>3. QED
      BY <1>2, <1>4, <1>5, <1>6, <2>1, <3>1, <3>2 DEF GoodResult, Existing, Resolve
  <2>2. CASE b # a
    <3>1. GoodResult(req[r], b)
      BY <1>1, <1>6, <1>7, <2>2 DEF HoldsAgents
    <3>2. QED
      BY <1>1, <1>4, <1>5, <1>6, <2>2, <3>1 DEF GoodResult, Existing, Resolve
  <2>3. QED
    BY <2>1, <2>2
<1>8. \A b \in Agents : agent[b] # None /\ me.skill \in agent[b].ids
                           => b \in me.todo \/ me.result[b] # None
  <2>1. row # None
    BY <1>1, <1>2, NoneAssumption, ResolveType DEF Binding, TypeInv, TypeOK
  <2>2. QED
    BY <1>1, <1>3, <1>5, <1>6, <2>1 DEF HoldsAgents
<1>9. me.pc \in {"resolve", "commit"} /\ (me.pc = "commit" => me.todo = {})
  BY <1>1, <1>5
<1>10. HoldsAgents(req[r])'
  <2> HIDE DEF me
  <2>1. me.kind \in SkillKinds \cup {"delete"} /\ me.own = skill[me.skill]
    BY <1>1, <1>5 DEF HoldsAgents
  <2>2. \A b \in Agents : me.mine[b] # None => me.mine[b] = agent[b]
    BY <1>1, <1>5 DEF HoldsAgents
  <2>3. QED
    BY <1>4, <1>7, <1>8, <1>9, <2>1, <2>2 DEF HoldsAgents
<1>11. QED
  BY <1>1, <1>4, <1>5, <1>9, <1>10, KeepsBindings DEF Changing

\* Resolving looks at the rows of the ids only.
LEMMA ResolveSame ==
    ASSUME NEW ids, NEW rows, NEW more, \A t \in ids : rows[t] = more[t]
    PROVE  Resolve(ids, rows) = Resolve(ids, more)
  BY DEF Resolve

LEMMA ResolveOne ==
    ASSUME NEW ids, NEW rows, NEW more, NEW t, rows[t] = more[t]
    PROVE  {e \in Resolve(ids, rows) : e.skill = t} = {e \in Resolve(ids, more) : e.skill = t}
<1>1. \A e : e \in Resolve(ids, rows) /\ e.skill = t
                <=> t \in ids /\ rows[t] # None /\ rows[t].enabled /\ rows[t].status = "approved"
                    /\ e = [skill |-> t, content |-> rows[t].content]
  BY DEF Resolve
<1>2. \A e : e \in Resolve(ids, more) /\ e.skill = t
                <=> t \in ids /\ more[t] # None /\ more[t].enabled /\ more[t].status = "approved"
                    /\ e = [skill |-> t, content |-> more[t].content]
  BY DEF Resolve
<1>3. QED
  BY <1>1, <1>2

\* A resolved row is vetted, and agrees with the registry on every skill.
LEMMA ResolvedIsGood ==
    ASSUME ReviewInv, NEW b, b.ids \subseteq Skills, b.snapshot = Resolve(b.ids, skill)
    PROVE  Vetted(b) /\ \A s : Agrees(s, b)
<1>1. \A e \in b.snapshot : \E t \in b.ids :
         /\ e.skill = t /\ e.content = skill[t].content
         /\ skill[t] # None /\ skill[t].status = "approved"
  BY DEF Resolve
<1>2. Vetted(b)
  BY <1>1 DEF Vetted, ReviewInv, ApprovedIsReviewed
<1>3. QED
  BY <1>2 DEF Agrees

\* A skill that a row does not bind is not in its snapshot.
LEMMA UnboundAgrees ==
    ASSUME NEW b, Vetted(b), NEW s, s \notin b.ids
    PROVE  Agrees(s, b)
<1>1. \A e \in b.snapshot : e.skill # s
  BY DEF Vetted
<1>2. \A e \in Resolve(b.ids, skill) : e.skill # s
  BY DEF Resolve
<1>3. QED
  BY <1>1, <1>2 DEF Agrees

LEMMA SaveBindings ==
    ASSUME TypeInv, BindInv, OneAtATime, NEW r \in Requests, SaveSkill(r)
    PROVE  BindInv'
<1> DEFINE s == req[r].skill
           me == [req[r] EXCEPT !.pc = "reread"]
<1>1. /\ req[r] \in RequestState /\ req[r].pc = "save" /\ HoldsAgents(req[r])
      /\ req[r].kind \in SkillKinds /\ s \in Skills
  BY OnlyOne DEF SaveSkill, BindInv, RequestOK
<1>2. req'[r] = me /\ UNCHANGED <<agent, reviewed, broken>>
  <2>1. req' = [req EXCEPT ![r] = me]
    BY DEF SaveSkill, Goto
  <2>2. QED
    BY <2>1, OnlyOne DEF SaveSkill
<1>3. /\ me.pc = "reread" /\ me.mine = req[r].mine /\ me.result = req[r].result
      /\ me.skill = req[r].skill /\ me.kind = req[r].kind
  BY <1>1 DEF RequestState
<1>4. /\ \A t \in Skills : t # s => skill'[t] = skill[t]
      /\ skill'[s] # None
  <2> DEFINE row == [content |-> Column(req[r].own.content, req[r].new.content, skill[s].content),
                     status |-> Column(req[r].own.status, req[r].new.status, skill[s].status),
                     enabled |-> Column(req[r].own.enabled, req[r].new.enabled, skill[s].enabled)]
  <2>1. req[r].new \in Row /\ skill[s] \in Row
    BY <1>1, OnlyOne DEF SaveSkill, RequestOK, TypeInv, TypeOK
  <2>2. row \in Row
    BY <2>1, ColumnType DEF Row
  <2>3. skill' = [skill EXCEPT ![s] = row]
    BY DEF SaveSkill
  <2>4. QED
    BY <1>1, <2>2, <2>3, NoneAssumption DEF TypeInv, TypeOK
<1>5. HoldsAgents(req[r])'
  BY <1>1, <1>2, <1>3 DEF HoldsAgents
<1>6. \A a \in Agents : agent'[a] # None => Vetted(agent[a])' /\ Existing(agent[a])'
  <2>1. ASSUME NEW a \in Agents, agent[a] # None
        PROVE  agent[a].ids \subseteq Skills /\ Vetted(agent[a]) /\ Existing(agent[a])
    BY <2>1 DEF BindInv, TypeInv, TypeOK, Binding
  <2>2. QED
    BY <1>2, <1>4, <2>1 DEF Vetted, Existing
<1>7. ASSUME NEW t \in Skills \ broken'
      PROVE  \/ \E q \in Requests : Changing(req[q])' /\ req'[q].skill = t
             \/ \A a \in Agents : agent'[a] # None => Agrees(t, agent[a])'
  <2>1. CASE t = s
    <3>1. Changing(req[r])' /\ req'[r].skill = t
      BY <1>1, <1>2, <1>3, <2>1 DEF Changing
    <3>2. QED
      BY <3>1
  <2>2. CASE t # s
    <3>1. \A q \in Requests : ~Changing(req[q])
      BY <1>1, OnlyOne DEF Changing
    <3>2. \A a \in Agents : agent[a] # None => Agrees(t, agent[a])
      BY <1>2, <1>7, <3>1 DEF BindInv
    <3>3. skill[t] = skill'[t]
      BY <1>4, <1>7, <2>2
    <3>4. QED
      BY <1>2, <3>2, <3>3, ResolveOne DEF Agrees
  <2>3. QED
    BY <2>1, <2>2
<1>8. QED
  BY <1>5, <1>6, <1>7, OnlyOne DEF BindInv

LEMMA GateBindings ==
    ASSUME TypeInv, BindInv, OneAtATime, NEW r \in Requests, Gate(r) \/ Refuse(r)
    PROVE  BindInv'
<1>1. CASE Gate(r)
  <2> DEFINE me == [req[r] EXCEPT !.pc = "bind"]
  <2>1. req[r] \in RequestState /\ req[r].pc = "gate" /\ HoldsAgents(req[r])
    BY <1>1, OnlyOne DEF Gate, BindInv
  <2>2. req'[r] = me /\ UNCHANGED <<skill, agent, reviewed, broken>>
    <3>1. req' = [req EXCEPT ![r] = me]
      BY <1>1 DEF Gate, Goto
    <3>2. QED
      BY <1>1, <3>1, OnlyOne DEF Gate
  <2>3. /\ me.pc = "bind" /\ me.mine = req[r].mine /\ me.result = req[r].result
        /\ me.agent = req[r].agent
    BY <2>1 DEF RequestState
  <2>4. Existing(req[r].result[req[r].agent])
    BY <1>1 DEF Gate, Existing, Approved
  <2>5. HoldsAgents(req[r])'
    BY <2>1, <2>2, <2>3, <2>4 DEF HoldsAgents, Existing
  <2>6. QED
    BY <2>1, <2>2, <2>5, KeepsBindings DEF Changing
<1>2. CASE Refuse(r)
  BY <1>2, DoneBindings DEF Refuse, Changing
<1>3. QED
  BY <1>1, <1>2

LEMMA BindBindings ==
    ASSUME TypeInv, BindInv, OneAtATime, NEW r \in Requests, Bind(r)
    PROVE  BindInv'
<1> DEFINE a == req[r].agent
           old == req[r].result[a]
           row == [old EXCEPT !.snapshot = Resolve(old.ids, skill)]
           pc == IF req[r].mine[a] = None THEN "insert" ELSE "commit"
           me == [req[r] EXCEPT !.result[a] = row, !.pc = pc]
<1>1. /\ req[r] \in RequestState /\ req[r].pc = "bind" /\ HoldsAgents(req[r])
      /\ req[r].kind = "agent" /\ a \in Agents /\ old \in Binding /\ req[r].todo = {}
  BY OnlyOne DEF Bind, BindInv, RequestOK, HoldsAgents
<1>2. req'[r] = me /\ UNCHANGED <<skill, agent, reviewed, broken>>
  <2>1. req' = [req EXCEPT ![r] = me]
    BY DEF Bind
  <2>2. QED
    BY <2>1, OnlyOne DEF Bind
<1>3. /\ me.pc = pc /\ me.mine = req[r].mine /\ me.kind = "agent" /\ me.agent = a
      /\ me.result = [req[r].result EXCEPT ![a] = row] /\ me.todo = {}
  BY <1>1 DEF RequestState
<1>4. /\ me.result[a] = row /\ row.ids = old.ids /\ row.snapshot = Resolve(old.ids, skill)
      /\ \A b \in Agents : b # a => me.result[b] = None
  BY <1>1, <1>3 DEF RequestState, Binding, HoldsAgents
<1>5. ASSUME NEW b \in Agents, me.result[b] # None
      PROVE  GoodResult(req[r], b)'
  <2>1. b = a
    BY <1>4, <1>5
  <2>2. Existing(old) /\ row.ids = old.ids
    BY <1>1, <1>4 DEF HoldsAgents
  <2>3. me.result[b].ids = old.ids /\ me.result[b].snapshot = Resolve(old.ids, skill)
    BY <1>4, <2>1
  <2>4. me.mine[b] # None \/ me.pc = "insert"
    BY <1>3, <2>1
  <2> HIDE DEF me, row
  <2>5. QED
    BY <1>2, <1>3, <2>2, <2>3, <2>4 DEF GoodResult, Existing, Resolve
<1>6. HoldsAgents(req[r])'
  BY <1>1, <1>2, <1>3, <1>5 DEF HoldsAgents
<1>7. QED
  BY <1>1, <1>2, <1>6, KeepsBindings DEF Changing

LEMMA StartAgentBindings ==
    ASSUME TypeInv, BindInv, OneAtATime, NEW r \in Requests, NEW a \in Agents,
           DeleteAgent(r, a) \/ \E ids \in SUBSET Skills : SaveAgent(r, a, ids)
    PROVE  BindInv'
<1>1. CASE DeleteAgent(r, a)
  <2> DEFINE me == [Idle EXCEPT !.pc = "drop", !.kind = "agent", !.agent = a]
  <2>1. req'[r] = me /\ req[r].pc = "idle" /\ UNCHANGED <<skill, agent, reviewed, broken>>
    BY <1>1, OnlyOne DEF DeleteAgent
  <2>2. me.pc = "drop" /\ me.kind = "agent"
    BY IdleOK DEF RequestState
  <2>3. HoldsAgents(req[r])'
    BY <2>1, <2>2 DEF HoldsAgents
  <2>4. QED
    BY <2>1, <2>3, KeepsBindings DEF Changing
<1>2. ASSUME NEW ids \in SUBSET Skills, SaveAgent(r, a, ids)
      PROVE  BindInv'
  <2> DEFINE row == [ids |-> ids, snapshot |-> {}]
             me == [Idle EXCEPT !.pc = "gate", !.kind = "agent", !.agent = a,
                                !.mine[a] = agent[a], !.result[a] = row]
  <2>1. req'[r] = me /\ req[r].pc = "idle" /\ UNCHANGED <<skill, agent, reviewed, broken>>
    BY <1>2, OnlyOne DEF SaveAgent
  <2>2. /\ me.pc = "gate" /\ me.kind = "agent" /\ me.agent = a /\ me.todo = {}
        /\ me.mine = [NoRows EXCEPT ![a] = agent[a]]
        /\ me.result = [NoRows EXCEPT ![a] = row]
    BY IdleOK, IdleIsEmpty DEF RequestState, IdleFields
  <2>3. \A b \in Agents : b # a => me.mine[b] = None /\ me.result[b] = None
    BY <2>2 DEF NoRows
  <2>4. me.mine[a] = agent[a]
    BY <2>2 DEF NoRows
  <2>5. HoldsAgents(req[r])'
    BY <2>1, <2>2, <2>3, <2>4 DEF HoldsAgents
  <2>6. QED
    BY <2>1, <2>5, KeepsBindings DEF Changing
<1>3. QED
  BY <1>1, <1>2

LEMMA InsertBindings ==
    ASSUME ReviewInv, BindInv, OneAtATime, NEW r \in Requests, InsertAgent(r)
    PROVE  BindInv'
<1> DEFINE a == req[r].agent
           row == req[r].result[a]
<1>1. /\ TypeInv /\ req[r].pc = "insert" /\ HoldsAgents(req[r])
      /\ a \in Agents /\ row \in Binding
  BY OnlyOne DEF InsertAgent, BindInv, RequestOK, ReviewInv
<1>2. /\ req'[r] = Idle /\ agent' = [agent EXCEPT ![a] = row]
      /\ UNCHANGED <<skill, reviewed, broken>>
  BY <1>1, OnlyOne DEF InsertAgent, Done
<1>3. row # None /\ GoodResult(req[r], a)
  BY <1>1, NoneAssumption DEF HoldsAgents
<1>4. Existing(row) /\ Vetted(row) /\ \A s : Agrees(s, row)
  BY <1>1, <1>3, ResolvedIsGood DEF GoodResult, Binding
<1>5. \A b \in Agents : agent'[b] = IF b = a THEN row ELSE agent[b]
  BY <1>1, <1>2 DEF TypeInv, TypeOK
<1>6. \A q \in Requests : ~Changing(req[q])
  BY <1>1, OnlyOne DEF Changing
<1> HIDE DEF row, a
<1>7. ASSUME NEW b \in Agents, agent'[b] # None
      PROVE  /\ Vetted(agent[b])' /\ Existing(agent[b])'
             /\ \A s \in Skills \ broken : Agrees(s, agent[b])'
  <2>1. CASE b = a
    BY <1>2, <1>4, <1>5, <2>1 DEF Vetted, Existing, Agrees, Resolve
  <2>2. CASE b # a
    <3>1. /\ Vetted(agent[b]) /\ Existing(agent[b])
          /\ \A s \in Skills \ broken : Agrees(s, agent[b])
      BY <1>5, <1>6, <1>7, <2>2 DEF BindInv
    <3>2. QED
      BY <1>2, <1>5, <2>2, <3>1 DEF Vetted, Existing, Agrees, Resolve
  <2>3. QED
    BY <2>1, <2>2
<1>8. HoldsAgents(req[r])'
  BY <1>2, IdleIsEmpty DEF HoldsAgents, IdleFields, NoRows
<1>9. QED
  BY <1>1, <1>2, <1>7, <1>8, OnlyOne DEF BindInv

LEMMA DropAgentBindings ==
    ASSUME TypeInv, BindInv, OneAtATime, NEW r \in Requests, DropAgent(r)
    PROVE  BindInv'
<1>1. /\ req'[r] = Idle /\ req[r].pc = "drop" /\ UNCHANGED <<skill, reviewed, broken>>
      /\ \A b \in Agents : agent'[b] \in {agent[b], None}
  BY OnlyOne DEF DropAgent, Done, TypeInv, TypeOK
<1>2. \A q \in Requests : ~Changing(req[q])
  BY <1>1, OnlyOne DEF Changing
<1>3. ASSUME NEW b \in Agents, agent'[b] # None
      PROVE  /\ Vetted(agent[b])' /\ Existing(agent[b])'
             /\ \A s \in Skills \ broken : Agrees(s, agent[b])'
  <2>1. /\ Vetted(agent[b]) /\ Existing(agent[b])
        /\ \A s \in Skills \ broken : Agrees(s, agent[b])
    BY <1>1, <1>2, <1>3 DEF BindInv
  <2>2. QED
    BY <1>1, <1>3, <2>1 DEF Vetted, Existing, Agrees, Resolve
<1>4. HoldsAgents(req[r])'
  BY <1>1, IdleIsEmpty DEF HoldsAgents, IdleFields, NoRows
<1>5. QED
  BY <1>1, <1>3, <1>4, OnlyOne DEF BindInv

\* What a commit makes of the rows, when nobody wrote them in between.
LEMMA CommittedRows ==
    ASSUME TypeInv, BindInv, OneAtATime, NEW r \in Requests, CommitAgents(r), NEW a \in Agents
    PROVE  /\ req[r].result[a] = None => agent'[a] = agent[a]
           /\ req[r].result[a] # None =>
                 /\ GoodResult(req[r], a) /\ req[r].result[a] \in Binding
                 /\ agent'[a] # None => /\ agent'[a].ids = req[r].result[a].ids
                                        /\ agent'[a].snapshot = req[r].result[a].snapshot
<1> DEFINE me == req[r]
<1>1. /\ me \in RequestState /\ me.pc = "commit" /\ HoldsAgents(me)
      /\ me.result[a] \in Binding \cup {None}
  BY OnlyOne DEF CommitAgents, BindInv, RequestState
<1>2. agent'[a] = IF a \in Changed(r)
                  THEN [ids |-> Column(me.mine[a].ids, me.result[a].ids, agent[a].ids),
                        snapshot |-> Column(me.mine[a].snapshot, me.result[a].snapshot,
                                            agent[a].snapshot)]
                  ELSE agent[a]
  BY DEF CommitAgents
<1>3. CASE me.result[a] = None
  BY <1>2, <1>3 DEF Changed
<1>4. CASE me.result[a] # None
  <2>1. GoodResult(me, a) /\ me.mine[a] = agent[a]
    BY <1>1, <1>4 DEF HoldsAgents, GoodResult
  <2>2. /\ agent'[a].ids = me.result[a].ids
        /\ agent'[a].snapshot = me.result[a].snapshot
    BY <1>2, <1>4, <2>1 DEF Changed, Column
  <2>3. QED
    BY <1>1, <1>4, <2>1, <2>2
<1>5. QED
  BY <1>3, <1>4

LEMMA CommitBindings ==
    ASSUME ReviewInv, BindInv, OneAtATime, NEW r \in Requests, CommitAgents(r)
    PROVE  BindInv'
<1> DEFINE s == req[r].skill
<1>1. /\ TypeInv /\ req[r].pc = "commit" /\ HoldsAgents(req[r]) /\ req[r].todo = {}
      /\ req[r] \in RequestState
  BY OnlyOne DEF CommitAgents, BindInv, ReviewInv, HoldsAgents
<1>2. /\ UNCHANGED <<skill, reviewed>>
      /\ broken' = IF req[r].kind \in SkillKinds THEN broken \ {s} ELSE broken
  BY DEF CommitAgents, SkillKinds
<1>3. ASSUME NEW a \in Agents, agent'[a] # None
      PROVE  /\ Vetted(agent[a])' /\ Existing(agent[a])'
             /\ \A t \in Skills \ broken' : Agrees(t, agent[a])'
             /\ req[r].kind \in SkillKinds \cup {"delete"} /\ s \in agent'[a].ids
                  => req[r].kind # "delete"
  <2>1. CASE req[r].result[a] # None
    <3> DEFINE row == req[r].result[a]
    <3>1. GoodResult(req[r], a) /\ row \in Binding
      BY <1>1, <2>1, CommittedRows
    <3>2. Existing(row) /\ Vetted(row) /\ \A t : Agrees(t, row)
      BY <3>1, ResolvedIsGood DEF GoodResult, Binding
    <3>3. agent'[a].ids = row.ids /\ agent'[a].snapshot = row.snapshot
      BY <1>1, <1>3, <2>1, CommittedRows
    <3>4. req[r].kind = "delete" => s \notin row.ids
      BY <3>1 DEF GoodResult
    <3> HIDE DEF row
    <3>5. QED
      BY <1>2, <3>2, <3>3, <3>4 DEF Vetted, Existing, Agrees, Resolve
  <2>2. CASE req[r].result[a] = None
    <3>1. agent'[a] = agent[a]
      BY <1>1, <2>2, CommittedRows
    <3>2. Vetted(agent[a]) /\ Existing(agent[a])
      BY <1>3, <3>1 DEF BindInv
    <3>3. req[r].kind # "agent" => s \notin agent[a].ids
      BY <1>1, <1>3, <2>2, <3>1 DEF HoldsAgents
    <3>4. ASSUME NEW t \in Skills \ broken'
          PROVE  Agrees(t, agent[a])
      <4>1. CASE req[r].kind \in SkillKinds /\ t = s
        BY <3>2, <3>3, <4>1, UnboundAgrees DEF SkillKinds
      <4>2. CASE ~(req[r].kind \in SkillKinds /\ t = s)
        <5>1. t \notin broken
          BY <1>2, <3>4, <4>2
        <5>2. ~\E q \in Requests : Changing(req[q]) /\ req[q].skill = t
          BY <1>1, <4>2, OnlyOne DEF Changing
        <5>3. QED
          BY <1>3, <3>1, <3>4, <5>1, <5>2 DEF BindInv
      <4>3. QED
        BY <4>1, <4>2
    <3>5. QED
      BY <1>2, <3>1, <3>2, <3>3, <3>4 DEF Vetted, Existing, Agrees, Resolve
  <2>3. QED
    BY <2>1, <2>2
<1>4. HoldsAgents(req[r])'
  <2>1. CASE req[r].kind = "delete"
    <3>1. req'[r] = [req[r] EXCEPT !.pc = "drop"]
      BY <1>1, <2>1, OnlyOne DEF CommitAgents, Goto
    <3>2. req'[r].pc = "drop" /\ req'[r].kind = "delete" /\ req'[r].skill = s
      BY <1>1, <2>1, <3>1 DEF RequestState
    <3>3. \A a \in Agents : agent'[a] # None => s \notin agent'[a].ids
      BY <1>3, <2>1
    <3>4. QED
      BY <3>2, <3>3 DEF HoldsAgents
  <2>2. CASE req[r].kind # "delete"
    <3>1. req'[r] = Idle
      BY <1>1, <2>2, OnlyOne DEF CommitAgents, Done
    <3>2. QED
      BY <3>1, IdleIsEmpty DEF HoldsAgents, IdleFields, NoRows
  <2>3. QED
    BY <2>1, <2>2
<1>5. QED
  BY <1>1, <1>3, <1>4, OnlyOne DEF BindInv

LEMMA DropSkillBindings ==
    ASSUME TypeInv, BindInv, OneAtATime, NEW r \in Requests, DropSkill(r)
    PROVE  BindInv'
<1> DEFINE s == req[r].skill
<1>1. /\ req[r].pc = "drop" /\ req[r].kind = "delete" /\ HoldsAgents(req[r]) /\ s \in Skills
  BY OnlyOne DEF DropSkill, BindInv, RequestOK
<1>2. /\ req'[r] = Idle /\ UNCHANGED <<agent, reviewed>> /\ broken' = broken \ {s}
      /\ \A t \in Skills : t # s => skill'[t] = skill[t]
  BY OnlyOne DEF DropSkill, Done, TypeInv, TypeOK
<1>3. \A q \in Requests : ~Changing(req[q])
  BY <1>1, OnlyOne DEF Changing
<1>4. ASSUME NEW a \in Agents, agent[a] # None
      PROVE  /\ Vetted(agent[a])' /\ Existing(agent[a])'
             /\ \A t \in Skills \ broken' : Agrees(t, agent[a])'
  <2>1. s \notin agent[a].ids /\ agent[a].ids \subseteq Skills
    BY <1>1, <1>4 DEF HoldsAgents, TypeInv, TypeOK, Binding
  <2>2. Vetted(agent[a]) /\ Existing(agent[a])
    BY <1>4 DEF BindInv
  <2>3. Vetted(agent[a])' /\ Existing(agent[a])'
    BY <1>2, <2>1, <2>2 DEF Vetted, Existing
  <2>4. ASSUME NEW t \in Skills \ broken'
        PROVE  Agrees(t, agent[a])
    <3>1. CASE t = s
      BY <2>1, <2>2, <3>1, UnboundAgrees
    <3>2. CASE t # s
      BY <1>2, <1>3, <1>4, <2>4, <3>2 DEF BindInv
    <3>3. QED
      BY <3>1, <3>2
  <2>5. Resolve(agent[a].ids, skill) = Resolve(agent[a].ids, skill')
    BY <1>2, <2>1, ResolveSame
  <2>6. QED
    BY <1>2, <2>3, <2>4, <2>5 DEF Agrees
<1>5. HoldsAgents(req[r])'
  BY <1>2, IdleIsEmpty DEF HoldsAgents, IdleFields, NoRows
<1>6. QED
  BY <1>2, <1>4, <1>5, OnlyOne DEF BindInv

\* Nothing refers to a new skill.
LEMMA CreateBindings ==
    ASSUME TypeInv, BindInv, NEW s \in Skills, NEW c \in Contents, CreateSkill(s, c)
    PROVE  BindInv'
<1>1. /\ UNCHANGED <<agent, req>> /\ broken' = broken \ {s}
      /\ reviewed' = {p \in reviewed : p[1] # s}
      /\ \A t \in Skills : t # s => skill'[t] = skill[t]
  BY DEF CreateSkill, TypeInv, TypeOK
<1>2. skill[s] = None
  BY DEF CreateSkill, FreshSkill
<1>3. ASSUME NEW ids \in SUBSET Skills, s \notin ids
      PROVE  Resolve(ids, skill) = Resolve(ids, skill')
  BY <1>1, <1>3, ResolveSame
<1>4. ASSUME NEW a \in Agents, agent[a] # None
      PROVE  /\ Vetted(agent[a])' /\ Existing(agent[a])'
             /\ \A t \in Skills : Agrees(t, agent[a]) \/ t = s => Agrees(t, agent[a])'
  <2>1. s \notin agent[a].ids /\ agent[a].ids \in SUBSET Skills
    BY <1>4 DEF CreateSkill, FreshSkill, TypeInv, TypeOK, Binding
  <2>2. Vetted(agent[a]) /\ Existing(agent[a])
    BY <1>4 DEF BindInv
  <2>3. Vetted(agent[a])' /\ Existing(agent[a])'
    BY <1>1, <2>1, <2>2 DEF Vetted, Existing
  <2>4. Agrees(s, agent[a])
    BY <2>1, <2>2, UnboundAgrees
  <2>5. QED
    BY <1>1, <1>3, <2>1, <2>3, <2>4 DEF Agrees
<1>5. ASSUME NEW t \in Skills \ broken'
      PROVE  \/ \E q \in Requests : Changing(req[q])' /\ req'[q].skill = t
             \/ \A a \in Agents : agent'[a] # None => Agrees(t, agent[a])'
  <2>1. CASE \E q \in Requests : Changing(req[q]) /\ req[q].skill = t
    BY <1>1, <2>1 DEF Changing
  <2>2. CASE t = s \/ \A a \in Agents : agent[a] # None => Agrees(t, agent[a])
    BY <1>1, <1>4, <2>2
  <2>3. QED
    BY <1>1, <1>5, <2>1, <2>2 DEF BindInv
<1>6. ASSUME NEW q \in Requests
      PROVE  HoldsAgents(req[q])'
  <2> DEFINE me == req[q]
  <2>1. HoldsAgents(me) /\ me \in RequestState /\ RequestOK(me) /\ req' = req
    BY <1>1 DEF BindInv, TypeInv, TypeOK
  <2>2. me.skill # s /\ \A a \in Agents : me.result[a] # None =>
                              s \notin me.result[a].ids /\ me.result[a].ids \in SUBSET Skills
    <3>1. me.skill # s /\ \A a \in Agents : me.result[a] # None => s \notin me.result[a].ids
      <4>1. FreshSkill(s)
        BY DEF CreateSkill
      <4>2. QED
        BY <4>1 DEF FreshSkill
    <3>2. \A a \in Agents : me.result[a] # None => me.result[a] \in Binding
      BY <2>1 DEF RequestState
    <3>3. QED
      BY <3>1, <3>2 DEF Binding
  <2>3. me.pc \in {"users", "agents", "resolve"} =>
           me.kind \in SkillKinds \cup {"delete"} /\ me.own = skill'[me.skill]
    BY <1>1, <2>1, <2>2 DEF HoldsAgents, RequestOK
  <2>4. ASSUME NEW a \in Agents, me.result[a] # None, GoodResult(me, a)
        PROVE  GoodResult(req[q], a)'
    <3>1. Resolve(me.result[a].ids, skill) = Resolve(me.result[a].ids, skill')
      BY <1>3, <2>2, <2>4
    <3>2. QED
      BY <1>1, <2>1, <2>2, <2>4, <3>1 DEF GoodResult, Existing
  <2>5. me.pc = "bind" => \A t \in me.result[me.agent].ids : skill'[t] # None
    <3>1. me.pc = "bind" => me.agent \in Agents /\ me.result[me.agent] \in Binding
      BY <2>1 DEF RequestOK
    <3>2. QED
      BY <1>1, <2>1, <2>2, <3>1, NoneAssumption DEF HoldsAgents, Existing
  <2>6. QED
    BY <1>1, <2>1, <2>3, <2>4, <2>5 DEF HoldsAgents, Existing
<1>7. QED
  BY <1>1, <1>4, <1>5, <1>6 DEF BindInv

LEMMA EndBindings ==
    ASSUME TypeInv, BindInv, OneAtATime, NEW r \in Requests, RefuseDelete(r) \/ Abort(r)
    PROVE  BindInv'
<1>1. CASE RefuseDelete(r)
  BY <1>1, DoneBindings DEF RefuseDelete, Changing, SkillKinds
<1>2. CASE Abort(r)
  <2>1. broken \subseteq broken' /\ (Changing(req[r]) => req[r].skill \in broken')
    BY <1>2 DEF Abort, Changing, SkillKinds
  <2>2. QED
    BY <1>2, <2>1, DoneBindings DEF Abort
<1>3. QED
  BY <1>1, <1>2

LEMMA BindInit == Init => BindInv
  BY IdleHolds DEF Init, BindInv, NoRows

LEMMA BindStep == OneAtATime /\ ReviewInv /\ BindInv /\ [Next]_vars => BindInv'
<1> SUFFICES ASSUME OneAtATime, ReviewInv, BindInv, [Next]_vars PROVE BindInv'
  OBVIOUS
<1>1. TypeInv
  BY DEF ReviewInv
<1>2. CASE \E s \in Skills, c \in Contents : CreateSkill(s, c)
  BY <1>1, <1>2, CreateBindings
<1>3. ASSUME NEW r \in Requests, SkillNext(r)
      PROVE  BindInv'
  BY <1>1, <1>3, SkillRequestBindings, UsersBindings, EndBindings, SaveBindings, RereadBindings,
     ListBindings, ResolveBindings, DropSkillBindings DEF SkillNext
<1>4. ASSUME NEW r \in Requests, AgentNext(r)
      PROVE  BindInv'
  BY <1>1, <1>4, StartAgentBindings, GateBindings, BindBindings, InsertBindings,
     DropAgentBindings DEF AgentNext
<1>5. ASSUME NEW r \in Requests, CommitAgents(r) \/ Abort(r)
      PROVE  BindInv'
  BY <1>1, <1>5, CommitBindings, EndBindings
<1>6. CASE UNCHANGED vars
  BY <1>6 DEF vars, BindInv, HoldsAgents, GoodResult, Changing, Vetted, Existing, Agrees, Resolve
<1>7. QED
  BY <1>2, <1>3, <1>4, <1>5, <1>6 DEF Next

LEMMA BindAlways == OneAtATime => (Spec => [](ReviewInv /\ BindInv))
<1> SUFFICES ASSUME OneAtATime PROVE Spec => [](ReviewInv /\ BindInv)
  OBVIOUS
<1>1. ReviewInv /\ BindInv /\ [Next]_vars => ReviewInv' /\ BindInv'
  BY ReviewStep, BindStep
<1>2. QED
  BY <1>1, ReviewInit, BindInit, PTL DEF Spec

\* When requests do not overlap, an agent runs nothing that was not reviewed,
\* although it runs from a copy that several kinds of requests write.
THEOREM RunsReviewedOnlyAlways == OneAtATime => (Spec => []RunsReviewedOnly)
<1> SUFFICES ASSUME OneAtATime PROVE Spec => []RunsReviewedOnly
  OBVIOUS
<1>1. ReviewInv /\ BindInv => RunsReviewedOnly
  BY DEF BindInv, Vetted, RunsReviewedOnly
<1>2. QED
  BY <1>1, BindAlways, PTL

\* When requests do not overlap, an agent binds only skills that exist: every
\* deletion was refused or has detached the skill from all its agents.
THEOREM NoDanglingSkillAlways == OneAtATime => (Spec => []NoDanglingSkill)
<1> SUFFICES ASSUME OneAtATime PROVE Spec => []NoDanglingSkill
  OBVIOUS
<1>1. ReviewInv /\ BindInv => NoDanglingSkill
  BY DEF BindInv, Existing, NoDanglingSkill
<1>2. QED
  BY <1>1, BindAlways, PTL

\* When requests do not overlap, the copies are current between requests, but
\* for a skill whose last request broke off between its two commits.
THEOREM SnapshotsCurrentAlways == OneAtATime => (Spec => []SnapshotsCurrent)
<1> SUFFICES ASSUME OneAtATime PROVE Spec => []SnapshotsCurrent
  OBVIOUS
<1>1. ReviewInv /\ BindInv => SnapshotsCurrent
  BY DEF BindInv, Agrees, Changing, SnapshotsCurrent
<1>2. QED
  BY <1>1, BindAlways, PTL

=============================================================================
