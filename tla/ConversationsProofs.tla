------------------------- MODULE ConversationsProofs -------------------------
(***************************************************************************)
(* Theorems about Conversations: nobody takes over a conversation except   *)
(* by a login, for any number of visitors, accounts, browsers and          *)
(* requests.                                                               *)
(***************************************************************************)
EXTENDS Conversations, TLAPS

\* An identity that owns a row, or the visitor whose rows the owner took over.
ByRight(who, owner) ==
    who = owner \/ (who \in Visitors /\ owner \in heirs[who])

\* What each step of a request has already established.
WellFormed ==
    \A r \in Requests :
        /\ req[r].pc \in {"load", "insert", "save", "drop"} =>
              req[r].thread \in Threads /\ req[r].who \in Identity
        /\ req[r].pc \in {"save", "drop"} => req[r].own \in Row
        /\ req[r].pc = "claim" => req[r].who \in Visitors /\ req[r].reply \in Users

TypeInv == TypeOK /\ WellFormed

\* A request that is about to write a loaded row, which still exists, does so
\* by right: the check of the owner, made when the row was loaded, is stale at
\* most by claims.
HeldByRight ==
    \A r \in Requests :
        req[r].pc \in {"save", "drop"} /\ req[r].held =>
            /\ row[req[r].thread] # None
            /\ ByRight(req[r].who, row[req[r].thread].owner)

OwnerInv == HeldByRight /\ ClaimComplete

-----------------------------------------------------------------------------
(* Type correctness. *)

LEMMA IdleType == Idle \in RequestState
BY DEF Idle, Request, RequestState, Replying

LEMMA AfterType ==
    ASSUME TypeInv, NEW r \in Requests
    PROVE  /\ After(r) \in RequestState
           /\ After(r).pc \in {"idle", "respond"}
<1>1. req[r] \in RequestState
      BY DEF TypeInv, TypeOK
<1>2. [req[r] EXCEPT !.pc = "respond", !.held = FALSE] \in RequestState
      BY <1>1 DEF RequestState
<1>3. [req[r] EXCEPT !.pc = "respond", !.held = FALSE].pc = "respond"
      BY <1>1 DEF RequestState
<1>   QED BY <1>2, <1>3, IdleType DEF After, Idle, Request

LEMMA InitTypeInv == Init => TypeInv
BY IdleType DEF Init, TypeInv, TypeOK, WellFormed, Idle, Request

LEMMA EnterTypeInv ==
    ASSUME TypeInv, NEW r \in Requests, NEW b \in Browsers, NEW who \in Identity,
           NEW kind \in {"visit", "chat", "post", "import", "rename", "delete"},
           NEW pc \in {"load", "respond"}, NEW t \in Threads \cup {None},
           NEW title \in Titles \cup {Untitled},
           pc = "load" => t \in Threads,
           Enter(r, b, kind, who, pc, t, title)
    PROVE  TypeInv'
<1>  DEFINE reply == IF kind \in Replying /\ cookie[b] = None THEN who ELSE None
            q == Request(pc, kind, b, t, who, reply, title)
<1>1. req' = [req EXCEPT ![r] = q]
      BY DEF Enter
<1>2. reply \in Identity \cup {None}
      OBVIOUS
<1>   HIDE DEF reply
<1>4. q \in RequestState /\ q.pc = pc /\ q.thread = t /\ q.who = who
      BY <1>2 DEF Request, RequestState, Replying
<1>   HIDE DEF q
<1>5. TypeOK'
      BY <1>1, <1>4 DEF Enter, TypeInv, TypeOK
<1>6. WellFormed'
      BY <1>1, <1>4 DEF TypeInv, TypeOK, WellFormed
<1>   QED BY <1>5, <1>6 DEF TypeInv

\* A step that sets only the state of one request.
LEMMA RequestTypeInv ==
    ASSUME TypeInv, NEW r \in Requests, NEW q \in RequestState, req' = [req EXCEPT ![r] = q],
           q.pc \in {"load", "insert", "save", "drop"} =>
              q.thread \in Threads /\ q.who \in Identity,
           q.pc \in {"save", "drop"} => q.own \in Row,
           q.pc = "claim" => q.who \in Visitors /\ q.reply \in Users
    PROVE  WellFormed' /\ req' \in [Requests -> RequestState]
BY DEF TypeInv, TypeOK, WellFormed

\* A step that ends the work of a request on the directory.
LEMMA AfterTypeInv ==
    ASSUME TypeInv, NEW r \in Requests, req' = [req EXCEPT ![r] = After(r)]
    PROVE  WellFormed' /\ req' \in [Requests -> RequestState]
<1>1. /\ After(r) \in RequestState
      /\ After(r).pc \in {"idle", "respond"}
      BY AfterType
<1>   QED BY <1>1, RequestTypeInv

LEMMA LoginTypeInv ==
    ASSUME TypeInv, NEW r \in Requests, NEW b \in Browsers, NEW u \in Users, Login(r, b, u)
    PROVE  TypeInv'
<1>  DEFINE pc == IF cookie[b] \in Visitors THEN "claim" ELSE "respond"
            q == Request(pc, "login", b, None, cookie[b], u, Untitled)
<1>1. req' = [req EXCEPT ![r] = q]
      BY DEF Login
<1>3. cookie[b] \in Identity \cup {None}
      BY DEF TypeInv, TypeOK
<1>4. pc \in {"claim", "respond"} /\ (pc = "claim" => cookie[b] \in Visitors)
      OBVIOUS
<1>   HIDE DEF pc
<1>5. /\ q \in RequestState
      /\ q.pc \in {"claim", "respond"}
      /\ q.pc = "claim" => q.who \in Visitors /\ q.reply \in Users
      BY <1>3, <1>4 DEF Request, RequestState, Replying, Identity
<1>   HIDE DEF q
<1>6. WellFormed' /\ req' \in [Requests -> RequestState]
      BY <1>1, <1>5, RequestTypeInv
<1>   QED BY <1>6 DEF Login, TypeInv, TypeOK

LEMMA LogoutTypeInv ==
    ASSUME TypeInv, NEW r \in Requests, NEW b \in Browsers, NEW v \in Visitors, Logout(r, b, v)
    PROVE  TypeInv'
<1>  DEFINE q == Request("respond", "logout", b, None, None, v, Untitled)
<1>1. req' = [req EXCEPT ![r] = q]
      BY DEF Logout
<1>3. q \in RequestState /\ q.pc = "respond"
      BY DEF Request, RequestState, Replying, Identity
<1>   HIDE DEF q
<1>4. WellFormed' /\ req' \in [Requests -> RequestState]
      BY <1>1, <1>3, RequestTypeInv
<1>   QED BY <1>4 DEF Logout, TypeInv, TypeOK

LEMMA LoadTypeInv ==
    ASSUME TypeInv, NEW r \in Requests, Load(r)
    PROVE  TypeInv'
<1>  DEFINE found == row[req[r].thread]
            To(pc) == [req[r] EXCEPT !.pc = pc, !.own = found, !.held = found # None]
<1>1. /\ req[r] \in RequestState /\ req[r].pc = "load"
      /\ req[r].thread \in Threads /\ req[r].who \in Identity
      BY DEF Load, TypeInv, TypeOK, WellFormed
<1>2. found \in Row \cup {None}
      BY <1>1 DEF TypeInv, TypeOK
<1>3. ASSUME NEW pc \in {"insert", "save", "drop"}
      PROVE  /\ To(pc) \in RequestState /\ To(pc).pc = pc /\ To(pc).own = found
             /\ To(pc).thread \in Threads /\ To(pc).who \in Identity
      BY <1>1, <1>2 DEF RequestState
<1>   HIDE DEF To
<1>4. \/ req' = [req EXCEPT ![r] = After(r)]
      \/ req' = [req EXCEPT ![r] = To("insert")]
      \/ found # None /\ req' = [req EXCEPT ![r] = To("save")]
      \/ found # None /\ req' = [req EXCEPT ![r] = To("drop")]
      BY DEF Load, To
<1>5. ASSUME NEW pc \in {"insert", "save", "drop"}, pc = "insert" \/ found # None,
             req' = [req EXCEPT ![r] = To(pc)]
      PROVE  WellFormed' /\ req' \in [Requests -> RequestState]
      BY <1>2, <1>3, <1>5, RequestTypeInv
<1>6. WellFormed' /\ req' \in [Requests -> RequestState]
      BY <1>4, <1>5, AfterTypeInv
<1>   QED BY <1>6 DEF Load, TypeInv, TypeOK

\* A row is made of the identity and the title of the request.
LEMMA NewType ==
    ASSUME TypeInv, NEW r \in Requests, req[r].pc = "insert"
    PROVE  /\ New(r) \in Row /\ New(r).owner = req[r].who
           /\ req[r].who \in Visitors /\ heirs[req[r].who] # {} => New(r).late
BY DEF New, Row, TypeInv, TypeOK, WellFormed, RequestState

LEMMA InsertTypeInv ==
    ASSUME TypeInv, NEW r \in Requests, Insert(r)
    PROVE  TypeInv'
<1>1. WellFormed' /\ req' \in [Requests -> RequestState]
      BY AfterTypeInv DEF Insert
<1>2. row' \in [Threads -> Row \cup {None}]
      BY NewType DEF Insert, TypeInv, TypeOK
<1>   QED BY <1>1, <1>2 DEF Insert, TypeInv, TypeOK

LEMMA TitledType ==
    ASSUME TypeInv, NEW r \in Requests, req[r].pc = "save"
    PROVE  Titled(r) \in Titles \cup {Untitled}
BY DEF Titled, TypeInv, TypeOK, WellFormed, RequestState, Row

LEMMA ReleasedType ==
    ASSUME TypeInv, NEW r \in Requests, Delete(r)
    PROVE  /\ req' \in [Requests -> RequestState]
           /\ req'[r] = After(r)
           /\ \A q \in Requests \ {r} :
                 /\ req'[q].pc = req[q].pc /\ req'[q].thread = req[q].thread
                 /\ req'[q].who = req[q].who /\ req'[q].own = req[q].own
                 /\ req'[q].reply = req[q].reply
                 /\ req'[q].held => req[q].held
                 /\ req[r].held /\ req[q].thread = req[r].thread => ~req'[q].held
<1>1. \A q \in Requests : req[q] \in RequestState
      BY DEF TypeInv, TypeOK
<1>2. ASSUME NEW q \in Requests \ {r}
      PROVE  /\ req'[q] \in RequestState
             /\ req'[q].pc = req[q].pc /\ req'[q].thread = req[q].thread
             /\ req'[q].who = req[q].who /\ req'[q].own = req[q].own
             /\ req'[q].reply = req[q].reply
             /\ req'[q].held => req[q].held
             /\ req[r].held /\ req[q].thread = req[r].thread => ~req'[q].held
      BY <1>1 DEF Delete, RequestState
<1>3. req'[r] = After(r) /\ After(r) \in RequestState
      BY AfterType DEF Delete
<1>4. req' \in [Requests -> RequestState]
      BY <1>2, <1>3 DEF Delete
<1>   QED BY <1>2, <1>3, <1>4

LEMMA DeleteTypeInv ==
    ASSUME TypeInv, NEW r \in Requests, Delete(r)
    PROVE  TypeInv'
<1>1. WellFormed'
      BY ReleasedType, AfterType DEF TypeInv, WellFormed
<1>2. row' \in [Threads -> Row \cup {None}]
      BY DEF Delete, TypeInv, TypeOK
<1>   QED BY <1>1, <1>2, ReleasedType DEF Delete, TypeInv, TypeOK

LEMMA ClaimTypeInv ==
    ASSUME TypeInv, NEW r \in Requests, Claim(r)
    PROVE  TypeInv'
<1>1. WellFormed' /\ req' \in [Requests -> RequestState]
      BY AfterTypeInv DEF Claim
<1>2. req[r].who \in Visitors /\ req[r].reply \in Users
      BY DEF Claim, TypeInv, WellFormed
<1>3. row' \in [Threads -> Row \cup {None}]
      BY <1>2 DEF Claim, TypeInv, TypeOK, Row, Identity
<1>4. heirs' \in [Visitors -> SUBSET Users]
      BY <1>2 DEF Claim, TypeInv, TypeOK
<1>   QED BY <1>1, <1>3, <1>4 DEF Claim, TypeInv, TypeOK

LEMMA StepTypeInv == TypeInv /\ HeldByRight /\ [Next]_vars => TypeInv'
<1>  SUFFICES ASSUME TypeInv, HeldByRight, [Next]_vars PROVE TypeInv'
     OBVIOUS
<1>1. ASSUME NEW r \in Requests, NEW b \in Browsers, NEW who \in Identity, Visit(r, b, who)
      PROVE  TypeInv'
      BY <1>1, EnterTypeInv DEF Visit
<1>2. ASSUME NEW r \in Requests, NEW b \in Browsers, NEW who \in Identity, NEW t \in Threads,
             NEW title \in Titles \cup {Untitled},
             \/ Chat(r, b, who, t, title) \/ Register(r, b, who, t, title)
             \/ Import(r, b, who, t, title) \/ Rename(r, b, who, t, title)
             \/ Remove(r, b, who, t)
      PROVE  TypeInv'
      BY <1>2, EnterTypeInv DEF Chat, Register, Import, Rename, Remove
<1>3. ASSUME NEW b \in Browsers, Forget(b) PROVE TypeInv'
      BY <1>3 DEF Forget, TypeInv, TypeOK, WellFormed
<1>4. ASSUME NEW r \in Requests, Respond(r) PROVE TypeInv'
  <2>1. Idle \in RequestState /\ Idle.pc = "idle"
        BY IdleType DEF Idle, Request
  <2>2. WellFormed' /\ req' \in [Requests -> RequestState]
        BY <1>4, <2>1, RequestTypeInv DEF Respond
  <2>3. cookie' \in [Browsers -> Identity \cup {None}]
        BY <1>4 DEF Respond, TypeInv, TypeOK, RequestState
  <2>   QED BY <1>4, <2>2, <2>3 DEF Respond, TypeInv, TypeOK
<1>5. ASSUME NEW r \in Requests, Save(r) PROVE TypeInv'
  <2>1. WellFormed' /\ req' \in [Requests -> RequestState]
        BY <1>5, AfterTypeInv DEF Save
  <2>2. row' \in [Threads -> Row \cup {None}]
    <3>1. req[r].pc = "save" /\ req[r].thread \in Threads
          BY <1>5 DEF Save, TypeInv, WellFormed
    <3>2. req[r].held => row[req[r].thread] \in Row
          BY <3>1 DEF HeldByRight, TypeInv, TypeOK
    <3>3. req[r].held => [row[req[r].thread] EXCEPT !.title = Titled(r)] \in Row
          BY <3>1, <3>2, TitledType DEF Row
    <3>   QED BY <1>5, <3>1, <3>3 DEF Save, TypeInv, TypeOK
  <2>   QED BY <1>5, <2>1, <2>2 DEF Save, TypeInv, TypeOK
<1>6. ASSUME NEW r \in Requests, Abort(r) PROVE TypeInv'
  <2>1. Idle \in RequestState /\ Idle.pc = "idle"
        BY IdleType DEF Idle, Request
  <2>2. WellFormed' /\ req' \in [Requests -> RequestState]
        BY <1>6, <2>1, RequestTypeInv DEF Abort
  <2>   QED BY <1>6, <2>2 DEF Abort, TypeInv, TypeOK
<1>7. CASE UNCHANGED vars
      BY <1>7 DEF vars, TypeInv, TypeOK, WellFormed
<1>   QED BY <1>1, <1>2, <1>3, <1>4, <1>5, <1>6, <1>7, LoginTypeInv, LogoutTypeInv,
             LoadTypeInv, InsertTypeInv, DeleteTypeInv, ClaimTypeInv DEF Next

-----------------------------------------------------------------------------
(* Owners. *)

\* What a step does to the other requests and to the right of an identity.
Others(r) ==
    \A q \in Requests \ {r} :
        /\ req'[q].pc = req[q].pc /\ req'[q].thread = req[q].thread
        /\ req'[q].who = req[q].who
        /\ req'[q].held => req[q].held

\* Steps that leave rows and claims alone, and let nobody hold a row unchecked.
LEMMA QuietOwnerInv ==
    ASSUME OwnerInv, NEW r \in Requests, Others(r), UNCHANGED <<row, heirs>>,
           req'[r].pc \notin {"save", "drop"}
    PROVE  OwnerInv'
<1>1. HeldByRight'
      BY DEF OwnerInv, HeldByRight, Others, ByRight
<1>   QED BY <1>1 DEF OwnerInv, ClaimComplete

LEMMA OtherRequests ==
    ASSUME TypeInv, NEW r \in Requests, NEW q, req' = [req EXCEPT ![r] = q]
    PROVE  Others(r) /\ req'[r] = q
BY DEF Others, TypeInv, TypeOK

LEMMA LoadOwnerInv ==
    ASSUME TypeInv, OwnerInv, NEW r \in Requests, Load(r)
    PROVE  OwnerInv'
<1>  DEFINE found == row[req[r].thread]
            To(pc) == [req[r] EXCEPT !.pc = pc, !.own = found, !.held = found # None]
<1>1. ASSUME NEW pc
      PROVE  /\ To(pc).pc = pc /\ To(pc).thread = req[r].thread /\ To(pc).who = req[r].who
             /\ To(pc).held = (found # None)
      BY DEF TypeInv, TypeOK, RequestState
<1>   HIDE DEF To
<1>2. \/ req' = [req EXCEPT ![r] = After(r)]
      \/ req' = [req EXCEPT ![r] = To("insert")]
      \/ /\ found # None /\ found.owner = req[r].who
         /\ req' = [req EXCEPT ![r] = To("save")] \/ req' = [req EXCEPT ![r] = To("drop")]
      BY DEF Load, To
<1>3. UNCHANGED <<row, heirs>>
      BY DEF Load
<1>4. CASE req' = [req EXCEPT ![r] = After(r)]
      BY <1>3, <1>4, AfterType, OtherRequests, QuietOwnerInv
<1>5. CASE req' = [req EXCEPT ![r] = To("insert")]
      BY <1>1, <1>3, <1>5, OtherRequests, QuietOwnerInv
<1>6. ASSUME NEW pc \in {"save", "drop"}, found # None, found.owner = req[r].who,
             req' = [req EXCEPT ![r] = To(pc)]
      PROVE  OwnerInv'
  <2>1. Others(r) /\ req'[r] = To(pc)
        BY <1>6, OtherRequests
  <2>2. HeldByRight'
        BY <1>1, <1>3, <1>6, <2>1 DEF OwnerInv, HeldByRight, Others, ByRight
  <2>   QED BY <1>3, <2>2 DEF OwnerInv, ClaimComplete
<1>   QED BY <1>2, <1>4, <1>5, <1>6

\* The steps that write rows.
Writes(r) == Insert(r) \/ Save(r) \/ Delete(r) \/ Claim(r)

LEMMA WritesOthers ==
    ASSUME TypeInv, NEW r \in Requests, Writes(r)
    PROVE  Others(r) /\ req'[r].pc \in {"idle", "respond"}
<1>1. CASE Delete(r)
      BY <1>1, ReleasedType, AfterType DEF Others
<1>2. CASE Insert(r) \/ Save(r) \/ Claim(r)
      BY <1>2, OtherRequests, AfterType DEF Insert, Save, Claim
<1>   QED BY <1>1, <1>2 DEF Writes

LEMMA InsertOwnerInv ==
    ASSUME TypeInv, OwnerInv, NEW r \in Requests, Insert(r)
    PROVE  OwnerInv'
<1>1. Others(r) /\ req'[r].pc \in {"idle", "respond"}
      BY WritesOthers DEF Writes
<1>2. /\ req[r].pc = "insert" /\ heirs' = heirs
      /\ \A t \in Threads : \/ row'[t] = row[t]
                            \/ row[t] = None /\ row'[t] = New(r)
      BY DEF Insert, TypeInv, TypeOK
<1>3. HeldByRight'
      BY <1>1, <1>2 DEF OwnerInv, HeldByRight, Others, ByRight, TypeInv, WellFormed
<1>4. ClaimComplete'
      BY <1>2, NewType DEF OwnerInv, ClaimComplete
<1>   QED BY <1>3, <1>4 DEF OwnerInv

\* Save writes the title of the row and nothing else.
LEMMA SaveKeeps ==
    ASSUME TypeInv, OwnerInv, NEW r \in Requests, Save(r)
    PROVE  \A t \in Threads :
              \/ row'[t] = row[t]
              \/ /\ t = req[r].thread /\ req[r].held
                 /\ row[t] # None /\ row'[t] # None
                 /\ row'[t].owner = row[t].owner /\ row'[t].late = row[t].late
<1>1. req[r].pc = "save" /\ req[r].thread \in Threads
      BY DEF Save, TypeInv, WellFormed
<1>2. req[r].held => row[req[r].thread] \in Row
      BY <1>1 DEF OwnerInv, HeldByRight, TypeInv, TypeOK
<1>3. req[r].held =>
         /\ [row[req[r].thread] EXCEPT !.title = Titled(r)] \in Row
         /\ [row[req[r].thread] EXCEPT !.title = Titled(r)].owner = row[req[r].thread].owner
         /\ [row[req[r].thread] EXCEPT !.title = Titled(r)].late = row[req[r].thread].late
      BY <1>1, <1>2, TitledType DEF Row
<1>   QED BY <1>1, <1>2, <1>3, NoRowAssumption DEF Save, TypeInv, TypeOK

LEMMA SaveOwnerInv ==
    ASSUME TypeInv, OwnerInv, NEW r \in Requests, Save(r)
    PROVE  OwnerInv'
<1>1. Others(r) /\ req'[r].pc \in {"idle", "respond"}
      BY WritesOthers DEF Writes
<1>2. heirs' = heirs
      BY DEF Save
<1>3. HeldByRight'
      BY <1>1, <1>2, SaveKeeps DEF OwnerInv, HeldByRight, Others, ByRight, TypeInv, WellFormed
<1>4. ClaimComplete'
      BY <1>2, SaveKeeps DEF OwnerInv, ClaimComplete
<1>   QED BY <1>3, <1>4 DEF OwnerInv

LEMMA DeleteOwnerInv ==
    ASSUME TypeInv, OwnerInv, NEW r \in Requests, Delete(r)
    PROVE  OwnerInv'
<1>1. Others(r) /\ req'[r].pc \in {"idle", "respond"}
      BY WritesOthers DEF Writes
<1>2. /\ heirs' = heirs
      /\ \A t \in Threads : \/ row'[t] = row[t]
                            \/ row'[t] = None /\ t = req[r].thread /\ req[r].held
      BY DEF Delete, TypeInv, TypeOK
<1>3. \A q \in Requests \ {r} :
         req[r].held /\ req[q].thread = req[r].thread => ~req'[q].held
      BY ReleasedType
<1>4. HeldByRight'
      BY <1>1, <1>2, <1>3 DEF OwnerInv, HeldByRight, Others, ByRight, TypeInv, WellFormed
<1>5. ClaimComplete'
      BY <1>2 DEF OwnerInv, ClaimComplete
<1>   QED BY <1>4, <1>5 DEF OwnerInv

\* A claim moves the rows of the visitor to the account.
LEMMA ClaimMoves ==
    ASSUME TypeInv, NEW r \in Requests, Claim(r)
    PROVE  /\ req[r].who \in Visitors /\ req[r].reply \in Users
           /\ heirs' = [heirs EXCEPT ![req[r].who] = @ \cup {req[r].reply}]
           /\ \A t \in Threads :
                 \/ /\ row'[t] = row[t]
                    /\ row[t] # None => row[t].owner # req[r].who
                 \/ /\ row[t] # None /\ row'[t] # None
                    /\ row[t].owner = req[r].who /\ row'[t].owner = req[r].reply
<1>1. req[r].who \in Visitors /\ req[r].reply \in Users
      BY DEF Claim, TypeInv, WellFormed
<1>2. ASSUME NEW t \in Threads, row[t] # None, row[t].owner = req[r].who
      PROVE  row'[t] # None /\ row'[t].owner = req[r].reply
  <2>1. row[t] \in Row
        BY <1>2 DEF TypeInv, TypeOK
  <2>2. row'[t] = [row[t] EXCEPT !.owner = req[r].reply]
        BY <1>2 DEF Claim
  <2>3. row'[t] \in Row /\ row'[t].owner = req[r].reply
        BY <1>1, <2>1, <2>2 DEF Row, Identity
  <2>   QED BY <2>3, NoRowAssumption
<1>3. ASSUME NEW t \in Threads, ~(row[t] # None /\ row[t].owner = req[r].who)
      PROVE  row'[t] = row[t]
      BY <1>3 DEF Claim
<1>   QED BY <1>1, <1>2, <1>3 DEF Claim

LEMMA ClaimOwnerInv ==
    ASSUME TypeInv, OwnerInv, NEW r \in Requests, Claim(r)
    PROVE  OwnerInv'
<1>1. Others(r) /\ req'[r].pc \in {"idle", "respond"}
      BY WritesOthers DEF Writes
<1>2. /\ \A v \in Visitors : heirs[v] \subseteq heirs'[v]
      /\ req[r].reply \in heirs'[req[r].who]
      /\ \A v \in Visitors : heirs[v] \subseteq Users
      /\ \A v \in Visitors \ {req[r].who} : heirs'[v] = heirs[v]
      BY ClaimMoves DEF TypeInv, TypeOK
<1>3. HeldByRight'
  <2>  SUFFICES ASSUME NEW q \in Requests, req'[q].pc \in {"save", "drop"}, req'[q].held
                PROVE  (/\ row[req[q].thread] # None
                        /\ ByRight(req[q].who, row[req[q].thread].owner))'
       BY DEF HeldByRight
  <2>  DEFINE t == req[q].thread
  <2>1. /\ req'[q].thread = t /\ req'[q].who = req[q].who /\ t \in Threads
        /\ row[t] # None /\ ByRight(req[q].who, row[t].owner)
        BY <1>1 DEF Others, OwnerInv, HeldByRight, TypeInv, WellFormed
  <2>   HIDE DEF t
  <2>2. CASE row'[t] = row[t]
        BY <1>2, <2>1, <2>2 DEF ByRight
  <2>3. CASE row[t].owner = req[r].who /\ row'[t].owner = req[r].reply /\ row'[t] # None
        BY <1>2, <2>1, <2>3, ClaimMoves, IdentityAssumption DEF ByRight
  <2>   QED BY <2>1, <2>2, <2>3, ClaimMoves
<1>4. ClaimComplete'
  <2>  SUFFICES ASSUME NEW t \in Threads, row'[t] # None, row'[t].owner \in Visitors,
                       heirs'[row'[t].owner] # {}
                PROVE  row'[t].late
       BY DEF ClaimComplete
  <2>1. row'[t] = row[t] /\ row[t].owner # req[r].who
        BY ClaimMoves, IdentityAssumption
  <2>   QED BY <1>2, <2>1 DEF OwnerInv, ClaimComplete
<1>   QED BY <1>3, <1>4 DEF OwnerInv

LEMMA InitOwnerInv == Init => OwnerInv
BY DEF Init, OwnerInv, HeldByRight, ClaimComplete, Idle, Request

LEMMA StepOwnerInv == TypeInv /\ OwnerInv /\ [Next]_vars => OwnerInv'
<1>  SUFFICES ASSUME TypeInv, OwnerInv, [Next]_vars PROVE OwnerInv'
     OBVIOUS
<1>1. ASSUME NEW r \in Requests, NEW b \in Browsers, NEW who, NEW kind,
             NEW pc \in {"load", "respond"}, NEW t, NEW title,
             Enter(r, b, kind, who, pc, t, title)
      PROVE  OwnerInv'
  <2>  DEFINE q == Request(pc, kind, b, t, who,
                           IF kind \in Replying /\ cookie[b] = None THEN who ELSE None, title)
  <2>1. q.pc = pc
        BY DEF Request
  <2>2. req' = [req EXCEPT ![r] = q] /\ UNCHANGED <<row, heirs>>
        BY <1>1 DEF Enter
  <2>   HIDE DEF q
  <2>   QED BY <2>1, <2>2, OtherRequests, QuietOwnerInv
<1>2. ASSUME NEW r \in Requests, NEW b \in Browsers, NEW u \in Users, Login(r, b, u)
      PROVE  OwnerInv'
  <2>  DEFINE q == Request(IF cookie[b] \in Visitors THEN "claim" ELSE "respond",
                           "login", b, None, cookie[b], u, Untitled)
  <2>1. q.pc \in {"claim", "respond"}
        BY DEF Request
  <2>2. req' = [req EXCEPT ![r] = q] /\ UNCHANGED <<row, heirs>>
        BY <1>2 DEF Login
  <2>   HIDE DEF q
  <2>   QED BY <2>1, <2>2, OtherRequests, QuietOwnerInv
<1>3. ASSUME NEW r \in Requests, NEW b \in Browsers, NEW v \in Visitors, Logout(r, b, v)
      PROVE  OwnerInv'
  <2>  DEFINE q == Request("respond", "logout", b, None, None, v, Untitled)
  <2>1. q.pc = "respond"
        BY DEF Request
  <2>2. req' = [req EXCEPT ![r] = q] /\ UNCHANGED <<row, heirs>>
        BY <1>3 DEF Logout
  <2>   HIDE DEF q
  <2>   QED BY <2>1, <2>2, OtherRequests, QuietOwnerInv
<1>4. ASSUME NEW r \in Requests, Respond(r) \/ Abort(r) PROVE OwnerInv'
      BY <1>4, OtherRequests, QuietOwnerInv DEF Respond, Abort, Idle, Request
<1>5. CASE UNCHANGED <<row, req, heirs>>
      BY <1>5 DEF OwnerInv, HeldByRight, ByRight, ClaimComplete
<1>6. ASSUME NEW b \in Browsers, Forget(b) PROVE OwnerInv'
      BY <1>5, <1>6 DEF Forget
<1>7. CASE UNCHANGED vars
      BY <1>5, <1>7 DEF vars
<1>8. ASSUME NEW r \in Requests, NEW b \in Browsers, NEW who, NEW t, NEW title,
             \/ Visit(r, b, who) \/ Chat(r, b, who, t, title) \/ Register(r, b, who, t, title)
             \/ Import(r, b, who, t, title) \/ Rename(r, b, who, t, title)
             \/ Remove(r, b, who, t)
      PROVE  OwnerInv'
      BY <1>1, <1>8 DEF Visit, Chat, Register, Import, Rename, Remove
<1>9. ASSUME NEW r \in Requests,
             Load(r) \/ Insert(r) \/ Save(r) \/ Delete(r) \/ Claim(r)
      PROVE  OwnerInv'
      BY <1>9, LoadOwnerInv, InsertOwnerInv, SaveOwnerInv, DeleteOwnerInv, ClaimOwnerInv
<1>   QED BY <1>2, <1>3, <1>4, <1>6, <1>7, <1>8, <1>9 DEF Next

-----------------------------------------------------------------------------
(* The theorems. *)

Inv == TypeInv /\ OwnerInv

LEMMA InvAlways == Spec => []Inv
<1>1. Init => Inv
      BY InitTypeInv, InitOwnerInv DEF Inv
<1>2. Inv /\ [Next]_vars => Inv'
      BY StepTypeInv, StepOwnerInv DEF Inv, OwnerInv
<1>   QED BY <1>1, <1>2, PTL DEF Spec

\* Rows, cookies and requests stay within their types.
THEOREM TypeOKAlways == Spec => []TypeOK
BY InvAlways, PTL DEF Inv, TypeInv

\* After a login the visitor owns only rows that were inserted after it: no
\* row it had stays with it or is given back to it by a later commit.
THEOREM ClaimCompleteAlways == Spec => []ClaimComplete
BY InvAlways, PTL DEF Inv, OwnerInv

\* Steps that leave the directory alone.
LEMMA QuietRows ==
    ASSUME TypeInv, Next
    PROVE  row' = row \/ \E r \in Requests : Writes(r)
<1>1. ASSUME NEW r, NEW b, NEW who, NEW t, NEW title,
             \/ Visit(r, b, who) \/ Chat(r, b, who, t, title) \/ Register(r, b, who, t, title)
             \/ Import(r, b, who, t, title) \/ Rename(r, b, who, t, title)
             \/ Remove(r, b, who, t)
      PROVE  row' = row
      BY <1>1 DEF Visit, Chat, Register, Import, Rename, Remove, Enter
<1>2. ASSUME NEW r, NEW b, NEW u, Login(r, b, u) \/ Logout(r, b, u) \/ Forget(b)
      PROVE  row' = row
      BY <1>2 DEF Login, Logout, Forget
<1>3. ASSUME NEW r, Respond(r) \/ Load(r) \/ Abort(r)
      PROVE  row' = row
      BY <1>3 DEF Respond, Load, Abort
<1>   QED BY <1>1, <1>2, <1>3 DEF Next, Writes

\* A row changes hands by the login of its visitor only.
THEOREM OwnerKeptAlways == Spec => OwnerKept
<1>  DEFINE Kept == \A t \in Threads :
               row[t] # None /\ row'[t] # None =>
                   \/ row'[t].owner = row[t].owner
                   \/ row[t].owner \in Visitors /\ row'[t].owner \in heirs'[row[t].owner]
<1>1. Inv /\ [Next]_vars => [Kept]_vars
  <2>  SUFFICES ASSUME Inv, Next PROVE Kept
       OBVIOUS
  <2>1. CASE row' = row
        BY <2>1
  <2>2. ASSUME NEW r \in Requests, Writes(r) PROVE Kept
    <3>1. CASE Claim(r)
          BY <3>1, ClaimMoves DEF Inv, TypeInv, TypeOK
    <3>2. CASE Save(r)
          BY <3>2, SaveKeeps DEF Inv
    <3>3. CASE Insert(r)
          BY <3>3 DEF Inv, TypeInv, TypeOK, Insert
    <3>4. CASE Delete(r)
          BY <3>4 DEF Inv, TypeInv, TypeOK, Delete
    <3>   QED BY <2>2, <3>1, <3>2, <3>3, <3>4 DEF Writes
  <2>   QED BY <2>1, <2>2, QuietRows DEF Inv
<1>   QED BY <1>1, InvAlways, PTL DEF Spec, OwnerKept

\* Rows are changed by their owners, or by a visitor whom the owner claimed.
THEOREM OnlyOwnersWriteAlways == Spec => OnlyOwnersWrite
<1>  DEFINE Owned == \A t \in Threads :
               row[t] # None /\ row'[t] # row[t] =>
                   \E r \in Requests :
                       /\ req'[r].pc # req[r].pc
                       /\ \/ req[r].who = row[t].owner
                          \/ req[r].who \in Visitors /\ row[t].owner \in heirs[req[r].who]
<1>1. Inv /\ [Next]_vars => [Owned]_vars
  <2>  SUFFICES ASSUME Inv, Next PROVE Owned
       OBVIOUS
  <2>1. CASE row' = row
        BY <2>1
  <2>2. ASSUME NEW r \in Requests, Writes(r) PROVE Owned
    <3>1. req'[r].pc # req[r].pc
          BY <2>2, WritesOthers DEF Inv, Writes, Insert, Save, Delete, Claim
    <3>2. ASSUME NEW t \in Threads, row[t] # None, row'[t] # row[t]
          PROVE  ByRight(req[r].who, row[t].owner)
      <4>1. CASE Claim(r)
            BY <3>2, <4>1, ClaimMoves DEF Inv, ByRight
      <4>2. CASE Save(r)
            BY <3>2, <4>2, SaveKeeps DEF Inv, OwnerInv, HeldByRight, Save
      <4>3. CASE Insert(r)
            BY <3>2, <4>3 DEF Inv, TypeInv, TypeOK, Insert
      <4>4. CASE Delete(r)
            BY <3>2, <4>4 DEF Inv, OwnerInv, HeldByRight, TypeInv, TypeOK, Delete
      <4>   QED BY <2>2, <4>1, <4>2, <4>3, <4>4 DEF Writes
    <3>   QED BY <3>1, <3>2 DEF ByRight
  <2>   QED BY <2>1, <2>2, QuietRows DEF Inv
<1>   QED BY <1>1, InvAlways, PTL DEF Spec, OnlyOwnersWrite

=============================================================================
