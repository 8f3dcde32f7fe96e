---------------------------- MODULE Conversations ----------------------------
(***************************************************************************)
(* The directory of conversations and the identities that own its rows:    *)
(* the anonymous visitors of browsers, and the accounts that take over     *)
(* what a visitor registered when the visitor logs in.                     *)
(*                                                                         *)
(* A request reads its cookie when it starts and sets a cookie with its    *)
(* response; in between every SELECT and every commit is a step.           *)
(***************************************************************************)
EXTENDS FiniteSets

CONSTANTS
    Threads,   \* ids of conversations
    Titles,    \* titles that messages and renames give
    Users,     \* accounts
    Visitors,  \* ids for visitors, each is issued once (bound)
    Browsers,  \* cookie jars
    Requests,  \* requests that run at the same time
    Untitled,  \* the empty title
    None       \* no row, no cookie, no identity

ASSUME IdentityAssumption == Users \cap Visitors = {} /\ None \notin Users \cup Visitors

VARIABLES
    row,     \* row[t]: row of the directory, or None
    cookie,  \* cookie[b]: identity a browser presents, or None
    req,     \* req[r]: state of a request
    unused,  \* ids of visitors still to be issued
    heirs    \* heirs[v]: accounts that claimed the rows of a visitor (history)

vars == <<row, cookie, req, unused, heirs>>

Identity == Users \cup Visitors

\* late: the row was inserted for a visitor who was claimed before (history).
Row == [owner : Identity, title : Titles \cup {Untitled}, late : BOOLEAN]

ASSUME NoRowAssumption == None \notin Row

\* Requests that answer with a cookie; the others only read one.
Replying == {"visit", "chat", "login", "logout"}

(***************************************************************************)
(* who: the identity the request acts for; reply: the cookie it sets; own: *)
(* the row it loaded; held: that row still exists.                         *)
(***************************************************************************)
RequestState ==
    [pc : {"idle", "load", "insert", "save", "drop", "claim", "respond"},
     kind : Replying \cup {"none", "post", "import", "rename", "delete"},
     browser : Browsers \cup {None}, thread : Threads \cup {None},
     who : Identity \cup {None}, reply : Identity \cup {None},
     title : Titles \cup {Untitled}, own : Row \cup {None}, held : BOOLEAN]

Request(pc, kind, browser, thread, who, reply, title) ==
    [pc |-> pc, kind |-> kind, browser |-> browser, thread |-> thread, who |-> who,
     reply |-> reply, title |-> title, own |-> None, held |-> FALSE]

Idle == Request("idle", "none", None, None, None, None, Untitled)

TypeOK ==
    /\ row \in [Threads -> Row \cup {None}]
    /\ cookie \in [Browsers -> Identity \cup {None}]
    /\ req \in [Requests -> RequestState]
    /\ unused \subseteq Visitors
    /\ heirs \in [Visitors -> SUBSET Users]

Init ==
    /\ row = [t \in Threads |-> None]
    /\ cookie = [b \in Browsers |-> None]
    /\ req = [r \in Requests |-> Idle]
    /\ unused = Visitors
    /\ heirs = [v \in Visitors |-> {}]

\* What follows the work on the directory, also if that failed.
After(r) == IF req[r].kind \in Replying THEN [req[r] EXCEPT !.pc = "respond", !.held = FALSE]
                                        ELSE Idle

-----------------------------------------------------------------------------
(* Identities. *)

\* A request without a valid cookie acts for a new visitor, whom it forgets
\* unless it is of a kind that sets the cookie.
Ensured(b) == IF cookie[b] # None THEN {cookie[b]} ELSE unused

Enter(r, b, kind, who, pc, t, title) ==
    /\ req[r].pc = "idle"
    /\ req' = [req EXCEPT ![r] =
                 Request(pc, kind, b, t, who,
                         IF kind \in Replying /\ cookie[b] = None THEN who ELSE None, title)]
    /\ unused' = unused \ {who}
    /\ UNCHANGED <<row, cookie, heirs>>

Visit(r, b, who) ==
    /\ who \in Ensured(b)
    /\ Enter(r, b, "visit", who, "respond", None, Untitled)

\* A message; its first words are the title.
Chat(r, b, who, t, title) ==
    /\ who \in Ensured(b)
    /\ Enter(r, b, "chat", who, "load", t, title)

Register(r, b, who, t, title) ==
    /\ who \in Ensured(b)
    /\ Enter(r, b, "post", who, "load", t, title)

\* One of the conversations that a browser kept itself.
Import(r, b, who, t, title) ==
    /\ who \in Ensured(b)
    /\ Enter(r, b, "import", who, "load", t, title)

Rename(r, b, who, t, title) ==
    /\ who \in Ensured(b)
    /\ Enter(r, b, "rename", who, "load", t, title)

Remove(r, b, who, t) ==
    /\ who \in Ensured(b)
    /\ Enter(r, b, "delete", who, "load", t, Untitled)

Login(r, b, u) ==
    /\ req[r].pc = "idle"
    /\ req' = [req EXCEPT ![r] =
                 Request(IF cookie[b] \in Visitors THEN "claim" ELSE "respond",
                         "login", b, None, cookie[b], u, Untitled)]
    /\ UNCHANGED <<row, cookie, unused, heirs>>

\* Visitors of before the login are not taken up again.
Logout(r, b, v) ==
    /\ req[r].pc = "idle"
    /\ v \in unused
    /\ req' = [req EXCEPT ![r] = Request("respond", "logout", b, None, None, v, Untitled)]
    /\ unused' = unused \ {v}
    /\ UNCHANGED <<row, cookie, heirs>>

\* The response arrives; the browser keeps the cookie of the last one.
Respond(r) ==
    /\ req[r].pc = "respond"
    /\ cookie' = IF req[r].reply # None THEN [cookie EXCEPT ![req[r].browser] = req[r].reply]
                                        ELSE cookie
    /\ req' = [req EXCEPT ![r] = Idle]
    /\ UNCHANGED <<row, unused, heirs>>

\* The cookie runs out or is removed.
Forget(b) ==
    /\ cookie[b] # None
    /\ cookie' = [cookie EXCEPT ![b] = None]
    /\ UNCHANGED <<row, req, unused, heirs>>

\* The request is cancelled, or the database fails it: what it has not
\* committed is rolled back.
Abort(r) ==
    /\ req[r].pc # "idle"
    /\ req' = [req EXCEPT ![r] = Idle]
    /\ UNCHANGED <<row, cookie, unused, heirs>>

-----------------------------------------------------------------------------
(* The directory. *)

Load(r) ==
    LET q == req[r]
        found == row[q.thread]
        To(pc) == [q EXCEPT !.pc = pc, !.own = found, !.held = found # None]
    IN  /\ q.pc = "load"
        /\ \/ /\ found = None
              /\ req' = [req EXCEPT ![r] = IF q.kind \in {"chat", "post", "import"}
                                           THEN To("insert") ELSE After(r)]
           \/ /\ found # None
              /\ q.kind = "import" \/ found.owner # q.who
              /\ req' = [req EXCEPT ![r] = After(r)]
           \/ /\ found # None   \* ids longer than the column are looked up uncut
              /\ q.kind = "import"
              /\ req' = [req EXCEPT ![r] = To("insert")]
           \/ /\ found # None
              /\ found.owner = q.who
              /\ q.kind \in {"chat", "post", "rename"}
              /\ req' = [req EXCEPT ![r] = To("save")]
           \/ /\ found # None
              /\ found.owner = q.who
              /\ q.kind = "delete"
              /\ req' = [req EXCEPT ![r] = To("drop")]
        /\ UNCHANGED <<row, cookie, unused, heirs>>

New(r) == [owner |-> req[r].who, title |-> req[r].title,
           late |-> req[r].who \in Visitors /\ heirs[req[r].who] # {}]

\* Mutant: the insert replaces a row that came in between.
InsertReplaces(r) ==
    /\ req[r].pc = "insert"
    /\ row' = [row EXCEPT ![req[r].thread] = New(r)]
    /\ req' = [req EXCEPT ![r] = After(r)]
    /\ UNCHANGED <<cookie, unused, heirs>>

\* The key is unique: after another insert this one fails or does nothing.
Insert(r) ==
    /\ req[r].pc = "insert"
    /\ row' = IF row[req[r].thread] = None THEN [row EXCEPT ![req[r].thread] = New(r)] ELSE row
    /\ req' = [req EXCEPT ![r] = After(r)]
    /\ UNCHANGED <<cookie, unused, heirs>>

\* A message gives a title to a row that has none, a rename to any.
Titled(r) ==
    IF req[r].kind = "rename" \/ req[r].own.title = Untitled THEN req[r].title
                                                              ELSE req[r].own.title

\* Mutant: all columns are written as they were loaded.
SaveAll(r) ==
    /\ req[r].pc = "save"
    /\ row' = IF req[r].held
              THEN [row EXCEPT ![req[r].thread] = [req[r].own EXCEPT !.title = Titled(r)]]
              ELSE row
    /\ req' = [req EXCEPT ![r] = After(r)]
    /\ UNCHANGED <<cookie, unused, heirs>>

\* Mutant: the row is found by the id of the conversation.
SaveByThread(r) ==
    /\ req[r].pc = "save"
    /\ row' = IF row[req[r].thread] # None
              THEN [row EXCEPT ![req[r].thread].title = Titled(r)]
              ELSE row
    /\ req' = [req EXCEPT ![r] = After(r)]
    /\ UNCHANGED <<cookie, unused, heirs>>

\* The UPDATE names the columns that changed and the key of the loaded row; it
\* fails if that row was deleted, also if the conversation has a new one.
Save(r) ==
    /\ req[r].pc = "save"
    /\ row' = IF req[r].held /\ Titled(r) # req[r].own.title
              THEN [row EXCEPT ![req[r].thread].title = Titled(r)]
              ELSE row
    /\ req' = [req EXCEPT ![r] = After(r)]
    /\ UNCHANGED <<cookie, unused, heirs>>

\* Messages and pending record go after it (PendingTasks, HistoryWindow).
Delete(r) ==
    /\ req[r].pc = "drop"
    /\ row' = IF req[r].held THEN [row EXCEPT ![req[r].thread] = None] ELSE row
    /\ req' = [q \in Requests |->
                 IF q = r THEN After(r)
                 ELSE IF req[r].held /\ req[q].thread = req[r].thread
                 THEN [req[q] EXCEPT !.held = FALSE]
                 ELSE req[q]]
    /\ UNCHANGED <<cookie, unused, heirs>>

\* One UPDATE for all rows of the visitor.
Claim(r) ==
    LET Mine(t) == row[t] # None /\ row[t].owner = req[r].who IN
    /\ req[r].pc = "claim"
    /\ row' = [t \in Threads |-> IF Mine(t) THEN [row[t] EXCEPT !.owner = req[r].reply]
                                            ELSE row[t]]
    /\ heirs' = [heirs EXCEPT ![req[r].who] = @ \cup {req[r].reply}]
    /\ req' = [req EXCEPT ![r] = After(r)]
    /\ UNCHANGED <<cookie, unused>>

-----------------------------------------------------------------------------
Next ==
    \/ \E r \in Requests, b \in Browsers, who \in Identity : Visit(r, b, who)
    \/ \E r \in Requests, b \in Browsers, who \in Identity, t \in Threads :
          \/ \E title \in Titles \cup {Untitled} :
                \/ Chat(r, b, who, t, title)
                \/ Register(r, b, who, t, title)
                \/ Import(r, b, who, t, title)
                \/ Rename(r, b, who, t, title)
          \/ Remove(r, b, who, t)
    \/ \E r \in Requests, b \in Browsers, u \in Users : Login(r, b, u)
    \/ \E r \in Requests, b \in Browsers, v \in Visitors : Logout(r, b, v)
    \/ \E b \in Browsers : Forget(b)
    \/ \E r \in Requests :
          Respond(r) \/ Load(r) \/ Insert(r) \/ Save(r) \/ Delete(r) \/ Claim(r) \/ Abort(r)

Spec == Init /\ [][Next]_vars

-----------------------------------------------------------------------------
(* Correctness. *)

\* A row changes hands only when its visitor logs in: registering, importing
\* or renaming a conversation of somebody else never takes it over, and what
\* was loaded before a claim does not undo it.
OwnerKept ==
    [][\A t \in Threads :
          row[t] # None /\ row'[t] # None =>
              \/ row'[t].owner = row[t].owner
              \/ row[t].owner \in Visitors /\ row'[t].owner \in heirs'[row[t].owner]]_vars

\* A row is changed or removed by its owner only, or by a visitor whose rows
\* the owner took over while the request ran.
OnlyOwnersWrite ==
    [][\A t \in Threads :
          row[t] # None /\ row'[t] # row[t] =>
              \E r \in Requests :
                  /\ req'[r].pc # req[r].pc
                  /\ \/ req[r].who = row[t].owner
                     \/ req[r].who \in Visitors /\ row[t].owner \in heirs[req[r].who]]_vars

\* A login takes over every row its visitor has at that moment.  A row left
\* with a claimed visitor was inserted afterwards, by a request with the old
\* cookie: one under way during the login, or one sent after it by a browser
\* that has not seen the login's response (not yet, or never).  No row that
\* existed is left behind or comes back, whatever stale copies are saved.
ClaimComplete ==
    \A t \in Threads :
        row[t] # None /\ row[t].owner \in Visitors /\ heirs[row[t].owner] # {}
            => row[t].late

=============================================================================
