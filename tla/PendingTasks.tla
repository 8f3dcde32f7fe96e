---------------------------- MODULE PendingTasks ----------------------------
(***************************************************************************)
(* The input-required loop: a downstream agent that needs more information *)
(* suspends its task, the gateway keeps one record per conversation in the *)
(* table pending_a2a_tasks, and a later turn resumes the task.             *)
(*                                                                         *)
(* Rounds are turns of a LangGraph agent (web chat, or an A2A request      *)
(* without task id).  Calls are the coroutines that touch the table while  *)
(* they wait on the network: the tools a2a_call and a2a_resume of a round, *)
(* and the A2A requests that carry a task id ("rpc").  Every await between *)
(* two accesses to the table is a step boundary, so any number of them can *)
(* interleave: the gateway takes no lock per conversation.                 *)
(*                                                                         *)
(* A resume request has one id here, its task id: every access it makes to *)
(* the table is by pending.thread_id, the task id it was looked up with.   *)
(* Its context id may be another one and chooses only the history that     *)
(* question and answer are appended to (module HistoryWindow).             *)
(***************************************************************************)
EXTENDS Integers

CONSTANTS
    Threads,   \* conversation ids; also the task ids handed to A2A clients
    Agents,    \* agents configured in the gateway
    Targets,   \* urls of the downstream A2A agents
    Tasks,     \* task ids the downstream agents hand out
    Rounds,    \* turns that may be under way at once
    Calls,     \* tool calls and resume requests that may be under way at once
    MaxAsk,    \* bound: questions a downstream task asks
    Orderly,   \* conversations whose client and model wait: one turn or
               \* request at a time, one tool call at a time in a turn
    None       \* no row, no task, no question

ASSUME PendingAssumption ==
    /\ MaxAsk \in Nat \ {0}
    /\ Orderly \subseteq Threads
    /\ None \notin Threads \cup Agents \cup Targets \cup Tasks \cup Rounds

VARIABLES
    table,   \* table[th]: row of pending_a2a_tasks with thread_id th, or None
    alive,   \* agents that have a row in agent_configs
    bound,   \* bound[a]: target urls the configuration of a binds
    task,    \* task[k]: what the downstream task k is and how much it asked
    round,   \* round[r]: the state of a turn
    call,    \* call[c]: the state of a tool call or resume request
    shown    \* shown[th]: the question the client of th is asked to answer

vars == <<table, alive, bound, task, round, call, shown>>

-----------------------------------------------------------------------------
(* Data. *)

\* The n-th question a downstream task asks.
Question == Tasks \X (1..MaxAsk)

(***************************************************************************)
(* A row.  id stands for the autoincrement key: a row is inserted for one  *)
(* question and no question is inserted twice, so the question that        *)
(* created the row identifies it.  fresh: updated_at is within the TTL.    *)
(***************************************************************************)
Row == [id : Question, agent : Agents, target : Targets, task : Tasks,
        question : Question, fresh : BOOLEAN]

DownstreamTask ==
    [host : Targets \cup {None}, home : Threads \cup {None}, n : 0..MaxAsk]

\* None is neither a question nor a row.
ASSUME NoneAssumption == None \notin Question \cup Row

RoundState ==
    [pc : {"idle", "open", "purge", "lastPurge"}, thread : Threads \cup {None},
     agent : Agents \cup {None}, wrappers : SUBSET Targets]

CallState ==
    [kind : {"free", "call", "resume", "rpc"},
     pc : {"idle", "get", "purge", "stream", "load", "save", "delete"},
     round : Rounds \cup {None}, thread : Threads \cup {None},
     agent : Agents \cup {None}, wrappers : SUBSET Targets,
     target : Targets \cup {None}, task : Tasks \cup {None},
     ask : Question \cup {None}, seen : Row \cup {None}]

IdleRound == [pc |-> "idle", thread |-> None, agent |-> None, wrappers |-> {}]

NewCall(kind, pc, r, th, a, wrappers, x) ==
    [kind |-> kind, pc |-> pc, round |-> r, thread |-> th, agent |-> a,
     wrappers |-> wrappers, target |-> x, task |-> None, ask |-> None, seen |-> None]

FreeCall == NewCall("free", "idle", None, None, None, {}, None)

TypeOK ==
    /\ table \in [Threads -> Row \cup {None}]
    /\ alive \in SUBSET Agents
    /\ bound \in [Agents -> SUBSET Targets]
    /\ task \in [Tasks -> DownstreamTask]
    /\ round \in [Rounds -> RoundState]
    /\ call \in [Calls -> CallState]
    /\ shown \in [Threads -> Question \cup {None}]

Init ==
    /\ table = [th \in Threads |-> None]
    /\ alive = Agents
    /\ bound = [a \in Agents |-> Targets]
    /\ task = [k \in Tasks |-> [host |-> None, home |-> None, n |-> 0]]
    /\ round = [r \in Rounds |-> IdleRound]
    /\ call = [c \in Calls |-> FreeCall]
    /\ shown = [th \in Threads |-> None]

-----------------------------------------------------------------------------
(* Helpers. *)

CallsOf(r) == {c \in Calls : call[c].round = r}

\* Nothing is under way on the conversation.
Quiet(th) ==
    /\ \A r \in Rounds : round[r].thread # th
    /\ \A c \in Calls : call[c].thread # th

Remove(th) == table' = [table EXCEPT ![th] = None]

\* The call goes on to pc with target x, resumed task k, question q and row.
MoveTo(c, pc, x, k, q, row) ==
    call' = [call EXCEPT ![c] =
                [kind |-> call[c].kind, pc |-> pc, round |-> call[c].round,
                 thread |-> call[c].thread, agent |-> call[c].agent,
                 wrappers |-> call[c].wrappers, target |-> x, task |-> k,
                 ask |-> q, seen |-> row]]

Finish(c) == call' = [call EXCEPT ![c] = FreeCall]

-----------------------------------------------------------------------------
(* Turns of an agent. *)

(***************************************************************************)
(* A message without task id starts a turn.  The agent row was read at the *)
(* start of the request, so the wrappers of the turn are the bindings of   *)
(* that moment, whatever the administrator does later.  The client stops   *)
(* showing the previous question when it sends.                            *)
(***************************************************************************)
StartRound(r, a, th) ==
    /\ round[r].pc = "idle"
    /\ a \in alive
    /\ th \in Orderly => Quiet(th)
    /\ round' = [round EXCEPT ![r] =
                    [pc |-> "open", thread |-> th, agent |-> a,
                     wrappers |-> bound[a]]]
    /\ shown' = [shown EXCEPT ![th] = None]
    /\ UNCHANGED <<table, alive, bound, task, call>>

\* The hook before each model step reads the table; an expired row is then
\* deleted by a second statement.  The hook never runs beside a tool.
NoticeExpired(r) ==
    /\ round[r].pc = "open"
    /\ CallsOf(r) = {}
    /\ table[round[r].thread] # None
    /\ ~table[round[r].thread].fresh
    /\ round' = [round EXCEPT ![r].pc = "purge"]
    /\ UNCHANGED <<table, alive, bound, task, call, shown>>

NoticePurge(r) ==
    /\ round[r].pc = "purge"
    /\ Remove(round[r].thread)
    /\ round' = [round EXCEPT ![r].pc = "open"]
    /\ UNCHANGED <<alive, bound, task, call, shown>>

\* The model calls a2a_call on one of the targets of the turn.
LaunchCall(r, c, x) ==
    /\ round[r].pc = "open"
    /\ call[c] = FreeCall
    /\ round[r].thread \in Orderly => CallsOf(r) = {}
    /\ x \in round[r].wrappers
    /\ call' = [call EXCEPT ![c] =
                   NewCall("call", "stream", r, round[r].thread, round[r].agent, {}, x)]
    /\ UNCHANGED <<table, alive, bound, task, round, shown>>

\* The model calls a2a_resume; the tool exists when the agent has a target.
LaunchResume(r, c) ==
    /\ round[r].pc = "open"
    /\ call[c] = FreeCall
    /\ round[r].thread \in Orderly => CallsOf(r) = {}
    /\ round[r].wrappers # {}
    /\ call' = [call EXCEPT ![c] =
                   NewCall("resume", "get", r, round[r].thread, round[r].agent,
                           round[r].wrappers, None)]
    /\ UNCHANGED <<table, alive, bound, task, round, shown>>

(***************************************************************************)
(* The end of a turn reads the table again: a live row is reported to the  *)
(* client (SSE interrupt, state INPUT_REQUIRED), an expired one is deleted *)
(* first, and a failing read is reported as a plain end.                   *)
(***************************************************************************)
EndInterrupted(r) ==
    LET th == round[r].thread IN
    /\ round[r].pc = "open"
    /\ CallsOf(r) = {}
    /\ table[th] # None
    /\ table[th].fresh
    /\ shown' = [shown EXCEPT ![th] = table[th].question]
    /\ round' = [round EXCEPT ![r] = IdleRound]
    /\ UNCHANGED <<table, alive, bound, task, call>>

EndPlain(r) ==
    /\ round[r].pc = "open"
    /\ CallsOf(r) = {}
    /\ round' = [round EXCEPT ![r] = IdleRound]
    /\ UNCHANGED <<table, alive, bound, task, call, shown>>

EndExpired(r) ==
    /\ round[r].pc = "open"
    /\ CallsOf(r) = {}
    /\ table[round[r].thread] # None
    /\ ~table[round[r].thread].fresh
    /\ round' = [round EXCEPT ![r].pc = "lastPurge"]
    /\ UNCHANGED <<table, alive, bound, task, call, shown>>

EndPurge(r) ==
    /\ round[r].pc = "lastPurge"
    /\ Remove(round[r].thread)
    /\ round' = [round EXCEPT ![r] = IdleRound]
    /\ UNCHANGED <<alive, bound, task, call, shown>>

\* The client disconnects, the model fails or the process stops: the turn is
\* over and its calls with it, at whatever point they were.
AbortRound(r) ==
    /\ round[r].pc # "idle"
    /\ round' = [round EXCEPT ![r] = IdleRound]
    /\ call' = [c \in Calls |-> IF call[c].round = r THEN FreeCall ELSE call[c]]
    /\ UNCHANGED <<table, alive, bound, task, shown>>

-----------------------------------------------------------------------------
(* Resume requests of A2A clients: the task id is the conversation. *)

StartRpc(c, a, th) ==
    /\ call[c] = FreeCall
    /\ a \in alive
    /\ th \in Orderly => Quiet(th)
    /\ call' = [call EXCEPT ![c] = NewCall("rpc", "get", None, th, a, bound[a], None)]
    /\ shown' = [shown EXCEPT ![th] = None]
    /\ UNCHANGED <<table, alive, bound, task, round>>

AbortRpc(c) ==
    /\ call[c].kind = "rpc"
    /\ Finish(c)
    /\ UNCHANGED <<table, alive, bound, task, round, shown>>

-----------------------------------------------------------------------------
(* Reading the record to resume. *)

\* No row to resume, a row of another agent, or a failing read.
GetNothing(c) ==
    LET row == table[call[c].thread] IN
    /\ call[c].pc = "get"
    /\ \/ call[c].kind = "rpc"
       \/ row = None
    /\ Finish(c)
    /\ UNCHANGED <<table, alive, bound, task, round, shown>>

GetExpired(c) ==
    LET row == table[call[c].thread] IN
    /\ call[c].pc = "get"
    /\ row # None
    /\ ~row.fresh
    /\ call' = [call EXCEPT ![c].pc = "purge"]
    /\ UNCHANGED <<table, alive, bound, task, round, shown>>

\* A live row that this caller may resume.
Resumable(c) ==
    LET row == table[call[c].thread] IN
    /\ call[c].pc = "get"
    /\ row # None
    /\ row.fresh
    /\ call[c].kind = "rpc" => row.agent = call[c].agent

\* Mutant: the answer goes to the first target of the agent, not to the
\* target of the record.
GetRecordAnyTarget(c) ==
    LET row == table[call[c].thread] IN
    /\ Resumable(c)
    /\ \E x \in call[c].wrappers : MoveTo(c, "stream", x, row.task, None, None)
    /\ UNCHANGED <<table, alive, bound, task, round, shown>>

\* The answer is forwarded to the target and the task of the record.
GetRecord(c) ==
    LET row == table[call[c].thread] IN
    /\ Resumable(c)
    /\ row.target \in call[c].wrappers
    /\ MoveTo(c, "stream", row.target, row.task, None, None)
    /\ UNCHANGED <<table, alive, bound, task, round, shown>>

\* The target is no longer bound; a resume request also takes this branch
\* when the wrappers of the agent cannot be loaded.
GetUnmatched(c) ==
    LET row == table[call[c].thread] IN
    /\ Resumable(c)
    /\ \/ row.target \notin call[c].wrappers
       \/ call[c].kind = "rpc"
    /\ MoveTo(c, "delete", None, row.task, None, None)
    /\ UNCHANGED <<table, alive, bound, task, round, shown>>

-----------------------------------------------------------------------------
(* Waiting for the downstream agent. *)

\* The stream ends without a question: completion or A2ATargetError.  A
\* resumed task leaves the table either way; a2a_call leaves it alone.
StreamSettled(c) ==
    /\ call[c].pc = "stream"
    /\ call' = [call EXCEPT ![c] =
                   IF call[c].kind = "call" THEN FreeCall
                   ELSE [call[c] EXCEPT !.pc = "delete"]]
    /\ UNCHANGED <<table, alive, bound, task, round, shown>>

\* A new downstream task asks its first question.
StreamAsks(c, k) ==
    /\ call[c].pc = "stream"
    /\ call[c].kind = "call"
    /\ task[k].n = 0
    /\ task' = [task EXCEPT ![k] = [host |-> call[c].target,
                                    home |-> call[c].thread, n |-> 1]]
    /\ MoveTo(c, "load", call[c].target, None, <<k, 1>>, None)
    /\ UNCHANGED <<table, alive, bound, round, shown>>

\* The resumed task asks again: same task id, next question.
StreamAsksAgain(c) ==
    LET k == call[c].task IN
    /\ call[c].pc = "stream"
    /\ call[c].kind # "call"
    /\ task[k].host = call[c].target
    /\ task[k].n < MaxAsk
    /\ task' = [task EXCEPT ![k].n = @ + 1]
    /\ MoveTo(c, "load", call[c].target, k, <<k, task[k].n + 1>>, None)
    /\ UNCHANGED <<table, alive, bound, round, shown>>

-----------------------------------------------------------------------------
(* Writing the table. *)

\* The row a call asks the store to write.
Written(c) ==
    [id |-> call[c].ask, agent |-> call[c].agent, target |-> call[c].target,
     task |-> call[c].ask[1], question |-> call[c].ask, fresh |-> TRUE]

\* upsert selects the row ...
UpsertLoad(c) ==
    /\ call[c].pc = "load"
    /\ MoveTo(c, "save", call[c].target, call[c].task, call[c].ask,
              table[call[c].thread])
    /\ UNCHANGED <<table, alive, bound, task, round, shown>>

(***************************************************************************)
(* ... and then inserts, or updates the columns that differ from what it   *)
(* selected: the ORM leaves a column out of the UPDATE when the value set  *)
(* equals the value loaded.  A row that appeared (unique thread_id) or     *)
(* vanished (no row matches the key) in between, and an agent that no      *)
(* longer exists (foreign key), make the statement fail.                   *)
(***************************************************************************)
Changed(new, old, now) == IF new = old THEN now ELSE new

\* Mutant: an update does not refresh the question.
MergeOldQuestion(new, old, now) ==
    [id |-> now.id, fresh |-> TRUE, agent |-> new.agent, target |-> new.target,
     task |-> new.task, question |-> now.question]

Merge(new, old, now) ==
    [id |-> now.id, fresh |-> TRUE,
     agent |-> Changed(new.agent, old.agent, now.agent),
     target |-> Changed(new.target, old.target, now.target),
     task |-> Changed(new.task, old.task, now.task),
     question |-> Changed(new.question, old.question, now.question)]

\* Mutant: the foreign key is not enforced (SQLite without the pragma).
CanUpdateAny(c) ==
    /\ call[c].seen # None
    /\ table[call[c].thread] # None
    /\ table[call[c].thread].id = call[c].seen.id

CanInsert(c) ==
    /\ call[c].seen = None
    /\ table[call[c].thread] = None
    /\ call[c].agent \in alive

CanUpdate(c) ==
    /\ call[c].seen # None
    /\ table[call[c].thread] # None
    /\ table[call[c].thread].id = call[c].seen.id
    /\ call[c].agent \in alive \cup {call[c].seen.agent}

\* Mutant: a resume request saves the record under the client's context id.
UpsertSaveByContext(c) ==
    \E ctx \in Threads :
        /\ call[c].pc = "save"
        /\ call[c].agent \in alive
        /\ table' = [table EXCEPT ![ctx] = Written(c)]
        /\ Finish(c)
        /\ UNCHANGED <<alive, bound, task, round, shown>>

\* A resume request reports the new question to its client afterwards.
UpsertSave(c) ==
    LET th == call[c].thread IN
    /\ call[c].pc = "save"
    /\ CanInsert(c) \/ CanUpdate(c)
    /\ table' = [table EXCEPT ![th] =
                    IF call[c].seen = None THEN Written(c)
                    ELSE Merge(Written(c), call[c].seen, table[th])]
    /\ shown' = IF call[c].kind = "rpc"
                THEN [shown EXCEPT ![th] = call[c].ask]
                ELSE shown
    /\ Finish(c)
    /\ UNCHANGED <<alive, bound, task, round>>

UpsertFails(c) ==
    /\ call[c].pc = "save"
    /\ ~CanInsert(c)
    /\ ~CanUpdate(c)
    /\ Finish(c)
    /\ UNCHANGED <<table, alive, bound, task, round, shown>>

\* delete removes whatever row the conversation has by then: after a settled
\* or unmatched resume ("delete"), or after reading an expired row ("purge").
DeleteRow(c) ==
    /\ call[c].pc \in {"delete", "purge"}
    /\ Remove(call[c].thread)
    /\ Finish(c)
    /\ UNCHANGED <<alive, bound, task, round, shown>>

-----------------------------------------------------------------------------
(* Administration, users and time. *)

DeleteConversation(th) ==
    /\ Remove(th)
    /\ shown' = [shown EXCEPT ![th] = None]
    /\ UNCHANGED <<alive, bound, task, round, call>>

\* The foreign key deletes the rows of the agent with it.
DeleteAgent(a) ==
    /\ a \in alive
    /\ alive' = alive \ {a}
    /\ table' = [th \in Threads |->
                    IF table[th] # None /\ table[th].agent = a
                    THEN None ELSE table[th]]
    /\ UNCHANGED <<bound, task, round, call, shown>>

Rebind(a, targets) ==
    /\ a \in alive
    /\ bound' = [bound EXCEPT ![a] = targets]
    /\ UNCHANGED <<table, alive, task, round, call, shown>>

Expire(th) ==
    /\ table[th] # None
    /\ table[th].fresh
    /\ table' = [table EXCEPT ![th].fresh = FALSE]
    /\ UNCHANGED <<alive, bound, task, round, call, shown>>

-----------------------------------------------------------------------------
RoundNext(r) ==
    \/ \E a \in Agents, th \in Threads : StartRound(r, a, th)
    \/ NoticeExpired(r)
    \/ NoticePurge(r)
    \/ \E c \in Calls, x \in Targets : LaunchCall(r, c, x)
    \/ \E c \in Calls : LaunchResume(r, c)
    \/ EndInterrupted(r)
    \/ EndPlain(r)
    \/ EndExpired(r)
    \/ EndPurge(r)
    \/ AbortRound(r)

CallNext(c) ==
    \/ \E a \in Agents, th \in Threads : StartRpc(c, a, th)
    \/ AbortRpc(c)
    \/ GetNothing(c)
    \/ GetExpired(c)
    \/ GetRecord(c)
    \/ GetUnmatched(c)
    \/ StreamSettled(c)
    \/ \E k \in Tasks : StreamAsks(c, k)
    \/ StreamAsksAgain(c)
    \/ UpsertLoad(c)
    \/ UpsertSave(c)
    \/ UpsertFails(c)
    \/ DeleteRow(c)

OutsideNext ==
    \/ \E th \in Threads : DeleteConversation(th)
    \/ \E a \in Agents : DeleteAgent(a)
    \/ \E a \in Agents, targets \in SUBSET Targets : Rebind(a, targets)
    \/ \E th \in Threads : Expire(th)

Next ==
    \/ \E r \in Rounds : RoundNext(r)
    \/ \E c \in Calls : CallNext(c)
    \/ OutsideNext

Spec == Init /\ [][Next]_vars

-----------------------------------------------------------------------------
(* Correctness. *)

\* A row never belongs to an agent that is gone, although turns of a deleted
\* agent go on and still write: the foreign key of pending_a2a_tasks.agent_id
\* and the ON DELETE CASCADE have to cover every interleaving of upsert.
RowsOfLiveAgents ==
    \A th \in Threads : table[th] # None => table[th].agent \in alive

\* The task and the question in the row of a conversation were asked in it.
RowsStayHome ==
    \A th \in Threads : table[th] # None =>
        /\ task[table[th].task].home = th
        /\ task[table[th].question[1]].home = th

\* So was the task that a resume forwards an answer to.
ResumesStayHome ==
    \A c \in Calls : call[c].task # None => task[call[c].task].home = call[c].thread

\* Conversations do not mix, however turns and requests interleave, although
\* the task id of an A2A client is looked up as a conversation id.
ConversationsApart == RowsStayHome /\ ResumesStayHome

\* The answer goes to the downstream agent that asked: the record locks the
\* target together with the task (tools.py _build_a2a_resume_tool).  Two
\* upserts of one conversation can leave the task of one with the target of
\* the other, so this is a promise to the clients that wait, whatever the
\* others do to their own conversations.
AnswerReachesAsker ==
    \A c \in Calls :
        call[c].thread \in Orderly /\ call[c].pc = "stream" /\ call[c].task # None
            => task[call[c].task].host = call[c].target

\* The question that the client of an orderly conversation is asked to answer
\* is the one its answer will be forwarded for, as long as the record exists.
ShownIsStored ==
    \A th \in Orderly :
        shown[th] # None /\ table[th] # None => table[th].question = shown[th]

=============================================================================
