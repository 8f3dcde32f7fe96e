------------------------- MODULE ConnectorPipeline -------------------------
(***************************************************************************)
(* The pipeline between a chat platform and the agent bound to a           *)
(* connector: webhooks are acknowledged at once, an event that was seen    *)
(* recently is dropped, and each chat has a bounded queue with one worker  *)
(* coroutine that runs the agent and posts the reply.                      *)
(*                                                                         *)
(* Everything the pipeline keeps is in the memory of the process.  Code    *)
(* between two awaits runs without interruption, so a step below is the    *)
(* code from one await to the next.                                        *)
(***************************************************************************)
EXTENDS Integers, Sequences, SequencesExt, FiniteSets

CONSTANTS
    Chats,          \* chats of one connector
    MaxEvents,      \* bound: events of a chat
    MaxDeliveries,  \* bound: times the platform delivers an event
    MaxCrashes,     \* bound: restarts of the process
    QueueLimit,     \* _QUEUE_LIMIT
    Capacity,       \* _DEDUP_CAPACITY
    Workers,        \* worker coroutines there may be
    None            \* no queue, no chat, no job

ASSUME PipelineAssumption ==
    /\ MaxEvents \in Nat /\ MaxDeliveries \in Nat /\ MaxCrashes \in Nat
    /\ QueueLimit \in Nat \ {0}
    /\ Capacity \in Nat \ {0}
    /\ None \notin Chats

Event == Chats \X (1..MaxEvents)

\* A job of a queue; no is its rank among the jobs its chat ever accepted.
Job == [event : Event, no : Nat]

ASSUME NoneAssumption == None \notin Seq(Job) \cup Job

VARIABLES
    connector,  \* state of the connector row
    agent,      \* state of the row of the agent it is bound to
    delivered,  \* delivered[e]: times the platform delivered e
    seen,       \* _seen: events, the one to evict first at the head
    young,      \* the same events, the one to expire first at the head
    queue,      \* _queues: queue[ch] is a sequence of jobs, or None
    worker,     \* worker[w]: the state of a worker coroutine
    busy,       \* events with a busy reply under way
    ticket,     \* ticket[ch]: jobs accepted so far (history)
    handled,    \* handled[e]: times the agent ran on e (history)
    forgotten,  \* events whose registration expired or was evicted (history)
    settled,    \* events whose processing came to an end (history)
    crashes     \* restarts so far

history == <<ticket, handled, forgotten, settled>>
vars == <<connector, agent, delivered, seen, young, queue, worker, busy,
          history, crashes>>

-----------------------------------------------------------------------------
ConnectorState == {"absent", "enabled", "disabled", "deleted"}
AgentState == {"draft", "published", "deleted"}

WorkerState ==
    [pc : {"dead", "wait", "map", "unpublished", "invoke", "send", "failed",
           "timedOut", "alert"},
     chat : Chats \cup {None}, job : Job \cup {None}]

Dead == [pc |-> "dead", chat |-> None, job |-> None]

TypeOK ==
    /\ connector \in ConnectorState
    /\ agent \in AgentState
    /\ delivered \in [Event -> 0..MaxDeliveries]
    /\ seen \in Seq(Event) /\ Len(seen) <= Capacity /\ IsInjective(seen)
    /\ young \in Seq(Event) /\ IsInjective(young) /\ ToSet(young) = ToSet(seen)
    /\ queue \in [Chats -> Seq(Job) \cup {None}]
    /\ \A ch \in Chats : queue[ch] # None => Len(queue[ch]) <= QueueLimit
    /\ worker \in [Workers -> WorkerState]
    /\ busy \subseteq Event
    /\ ticket \in [Chats -> Nat]
    /\ handled \in [Event -> 0..MaxDeliveries]
    /\ forgotten \subseteq Event /\ settled \subseteq Event
    /\ crashes \in 0..MaxCrashes

Init ==
    /\ connector = "absent"
    /\ agent = "published"
    /\ delivered = [e \in Event |-> 0]
    /\ seen = <<>>
    /\ young = <<>>
    /\ queue = [ch \in Chats |-> None]
    /\ worker = [w \in Workers |-> Dead]
    /\ busy = {}
    /\ ticket = [ch \in Chats |-> 0]
    /\ handled = [e \in Event |-> 0]
    /\ forgotten = {}
    /\ settled = {}
    /\ crashes = 0

-----------------------------------------------------------------------------
(* Deduplication. *)

\* s without its member e.
Without(s, e) == RemoveAt(s, CHOOSE i \in DOMAIN s : s[i] = e)

\* The time to live of the oldest registration runs out.  Every look at the
\* table drops the expired entries first, so it never finds the entry again.
Age ==
    /\ young # <<>>
    /\ young' = Tail(young)
    /\ seen' = Without(seen, Head(young))
    /\ forgotten' = forgotten \cup {Head(young)}
    /\ UNCHANGED <<connector, agent, delivered, queue, worker, busy, ticket,
                   handled, settled, crashes>>

\* A known event moves to the end, but its time to live goes on running.
SeenAgain(e) ==
    /\ e \in ToSet(seen)
    /\ seen' = Append(Without(seen, e), e)
    /\ UNCHANGED <<young, forgotten>>

\* Mutant: the table grows without bound.
FirstSeenUnbounded(e) ==
    /\ e \notin ToSet(seen)
    /\ seen' = Append(seen, e)
    /\ young' = Append(young, e)
    /\ UNCHANGED forgotten

\* A new event is registered; over capacity the entry at the head goes.
FirstSeen(e) ==
    LET full == Append(seen, e) IN
    /\ e \notin ToSet(seen)
    /\ IF Len(full) > Capacity
       THEN /\ seen' = Tail(full)
            /\ young' = Without(Append(young, e), Head(full))
            /\ forgotten' = forgotten \cup {Head(full)}
       ELSE /\ seen' = full
            /\ young' = Append(young, e)
            /\ UNCHANGED forgotten

-----------------------------------------------------------------------------
(* The webhook. *)

Deliver(e) ==
    /\ delivered[e] < MaxDeliveries
    /\ delivered' = [delivered EXCEPT ![e] = @ + 1]

Jobs(ch) == IF queue[ch] = None THEN <<>> ELSE queue[ch]

\* A disabled or deleted connector answers 404.
WebhookRefused(e) ==
    /\ Deliver(e)
    /\ connector # "enabled"
    /\ UNCHANGED <<connector, agent, seen, young, queue, worker, busy, history,
                   crashes>>

WebhookDuplicate(e) ==
    /\ connector = "enabled"
    /\ Deliver(e)
    /\ SeenAgain(e)
    /\ UNCHANGED <<connector, agent, queue, worker, busy, ticket, handled,
                   settled, crashes>>

\* Mutant: every message starts a worker.
EnsureWorkerAlways(ch) ==
    \E w \in Workers :
        /\ worker[w] = Dead
        /\ worker' = [worker EXCEPT ![w] = [pc |-> "wait", chat |-> ch, job |-> None]]

\* The first message of a chat creates the queue and starts its worker.
EnsureWorker(ch) ==
    IF queue[ch] # None THEN UNCHANGED worker
    ELSE \E w \in Workers :
            /\ worker[w] = Dead
            /\ worker' = [worker EXCEPT ![w] = [pc |-> "wait", chat |-> ch, job |-> None]]

\* Mutant: the event is queued whether or not it was seen recently.
WebhookAcceptedUnchecked(e) ==
    LET ch == e[1] IN
    /\ connector = "enabled"
    /\ Deliver(e)
    /\ Len(Jobs(ch)) < QueueLimit
    /\ SeenAgain(e) \/ FirstSeen(e)
    /\ EnsureWorker(ch)
    /\ ticket' = [ticket EXCEPT ![ch] = @ + 1]
    /\ queue' = [queue EXCEPT ![ch] =
                    Append(Jobs(ch), [event |-> e, no |-> ticket[ch] + 1])]
    /\ UNCHANGED <<connector, agent, busy, handled, settled, crashes>>

WebhookAccepted(e) ==
    LET ch == e[1] IN
    /\ connector = "enabled"
    /\ Deliver(e)
    /\ FirstSeen(e)
    /\ Len(Jobs(ch)) < QueueLimit
    /\ EnsureWorker(ch)
    /\ ticket' = [ticket EXCEPT ![ch] = @ + 1]
    /\ queue' = [queue EXCEPT ![ch] =
                    Append(Jobs(ch), [event |-> e, no |-> ticket[ch] + 1])]
    /\ UNCHANGED <<connector, agent, busy, handled, settled, crashes>>

\* Mutant: a full queue drops the event without a word.
WebhookRejectedSilently(e) ==
    /\ connector = "enabled"
    /\ Deliver(e)
    /\ FirstSeen(e)
    /\ Len(Jobs(e[1])) >= QueueLimit
    /\ UNCHANGED <<connector, agent, queue, worker, busy, ticket, handled,
                   settled, crashes>>

\* A full queue rejects the event, which stays registered as seen; the busy
\* reply is a task of its own.
WebhookRejected(e) ==
    /\ connector = "enabled"
    /\ Deliver(e)
    /\ FirstSeen(e)
    /\ Len(Jobs(e[1])) >= QueueLimit
    /\ busy' = busy \cup {e}
    /\ UNCHANGED <<connector, agent, queue, worker, ticket, handled,
                   settled, crashes>>

\* Whether the platform takes the busy reply or not, nothing follows.
BusyReply(e) ==
    /\ e \in busy
    /\ busy' = busy \ {e}
    /\ settled' = settled \cup {e}
    /\ UNCHANGED <<connector, agent, delivered, seen, young, queue, worker,
                   ticket, handled, forgotten, crashes>>

-----------------------------------------------------------------------------
(* The worker of a chat. *)

GoTo(w, pc) == worker' = [worker EXCEPT ![w].pc = pc]

\* The worker is done with its job and waits for the next one.
EndJob(w) ==
    /\ worker' = [worker EXCEPT ![w] = [pc |-> "wait", chat |-> worker[w].chat,
                                        job |-> None]]
    /\ settled' = settled \cup {worker[w].job.event}

Take(w) ==
    LET ch == worker[w].chat IN
    /\ worker[w].pc = "wait"
    /\ queue[ch] # <<>>
    /\ queue' = [queue EXCEPT ![ch] = Tail(@)]
    /\ worker' = [worker EXCEPT ![w] = [pc |-> "map", chat |-> ch,
                                        job |-> Head(queue[ch])]]
    /\ UNCHANGED <<connector, agent, delivered, seen, young, busy, history, crashes>>

\* The conversation row is upserted (which fails once the connector is
\* deleted), the agent row is read, and a published agent is run.
StartAgent(w) ==
    LET e == worker[w].job.event IN
    /\ worker[w].pc = "map"
    /\ connector # "deleted"
    /\ agent = "published"
    /\ GoTo(w, "invoke")
    /\ handled' = [handled EXCEPT ![e] = @ + 1]
    /\ UNCHANGED <<connector, agent, delivered, seen, young, queue, busy, ticket,
                   forgotten, settled, crashes>>

\* The agent may also be deleted, and the connector with it, after the row was
\* upserted.
NotPublished(w) ==
    /\ worker[w].pc = "map"
    /\ agent # "published"
    /\ connector # "deleted" \/ agent = "deleted"
    /\ GoTo(w, "unpublished")
    /\ UNCHANGED <<connector, agent, delivered, seen, young, queue, busy, history,
                   crashes>>

\* The reply that the agent is not published: delivered or not, it is the end.
UnpublishedReply(w) ==
    /\ worker[w].pc = "unpublished"
    /\ EndJob(w)
    /\ UNCHANGED <<connector, agent, delivered, seen, young, queue, busy, ticket,
                   handled, forgotten, crashes>>

\* The agent answers; an empty answer is not sent.
AgentAnswers(w) ==
    /\ worker[w].pc = "invoke"
    /\ GoTo(w, "send")
    /\ UNCHANGED <<connector, agent, delivered, seen, young, queue, busy, history,
                   crashes>>

AgentSilent(w) ==
    /\ worker[w].pc = "invoke"
    /\ EndJob(w)
    /\ UNCHANGED <<connector, agent, delivered, seen, young, queue, busy, ticket,
                   handled, forgotten, crashes>>

SendAnswer(w) ==
    /\ worker[w].pc = "send"
    /\ EndJob(w)
    /\ UNCHANGED <<connector, agent, delivered, seen, young, queue, busy, ticket,
                   handled, forgotten, crashes>>

\* The database, the agent or the platform raises an error; part of the
\* answer may have been posted by then.
ProcessFails(w) ==
    /\ worker[w].pc \in {"map", "invoke", "send"}
    /\ GoTo(w, "failed")
    /\ UNCHANGED <<connector, agent, delivered, seen, young, queue, busy, history,
                   crashes>>

\* wait_for cancels the processing, at whatever await it is.
ProcessTimesOut(w) ==
    /\ worker[w].pc \in {"map", "unpublished", "invoke", "send"}
    /\ GoTo(w, "timedOut")
    /\ UNCHANGED <<connector, agent, delivered, seen, young, queue, busy, history,
                   crashes>>

\* The failure reply, delivered or not; an error is then reported, a timeout
\* is not.
FailureReply(w) ==
    /\ worker[w].pc = "failed"
    /\ GoTo(w, "alert")
    /\ UNCHANGED <<connector, agent, delivered, seen, young, queue, busy, history,
                   crashes>>

\* Mutant: the alert raises, which ends the worker coroutine.
AlertKillsWorker(w) ==
    /\ worker[w].pc = "alert"
    /\ worker' = [worker EXCEPT ![w] = Dead]
    /\ settled' = settled \cup {worker[w].job.event}
    /\ UNCHANGED <<connector, agent, delivered, seen, young, queue, busy, ticket,
                   handled, forgotten, crashes>>

Alert(w) ==
    /\ worker[w].pc = "alert"
    /\ EndJob(w)
    /\ UNCHANGED <<connector, agent, delivered, seen, young, queue, busy, ticket,
                   handled, forgotten, crashes>>

TimeoutReply(w) ==
    /\ worker[w].pc = "timedOut"
    /\ EndJob(w)
    /\ UNCHANGED <<connector, agent, delivered, seen, young, queue, busy, ticket,
                   handled, forgotten, crashes>>

-----------------------------------------------------------------------------
(* Administration and restarts. *)

pipeline == <<delivered, seen, young, queue, worker, busy, history, crashes>>

\* A name that is taken or an agent that does not exist is refused.
CreateConnector(enabled) ==
    /\ connector = "absent"
    /\ agent # "deleted"
    /\ connector' = IF enabled THEN "enabled" ELSE "disabled"
    /\ UNCHANGED <<agent, pipeline>>

UpdateConnector(enabled) ==
    /\ connector \in {"enabled", "disabled"}
    /\ connector' = IF enabled THEN "enabled" ELSE "disabled"
    /\ UNCHANGED <<agent, pipeline>>

DeleteConnector ==
    /\ connector \in {"enabled", "disabled"}
    /\ connector' = "deleted"
    /\ UNCHANGED <<agent, pipeline>>

\* A skill of it that is not approved makes the code refuse this.
Publish ==
    /\ agent = "draft"
    /\ agent' = "published"
    /\ UNCHANGED <<connector, pipeline>>

Unpublish ==
    /\ agent = "published"
    /\ agent' = "draft"
    /\ UNCHANGED <<connector, pipeline>>

\* The foreign key deletes the connector with its agent.
DeleteAgent ==
    /\ agent # "deleted"
    /\ agent' = "deleted"
    /\ connector' = IF connector = "absent" THEN "absent" ELSE "deleted"
    /\ UNCHANGED pipeline

\* The process stops and starts: queues, workers and the table are gone, and
\* with them the messages that were acknowledged to the platform.
Restart ==
    /\ crashes < MaxCrashes
    /\ crashes' = crashes + 1
    /\ seen' = <<>>
    /\ young' = <<>>
    /\ queue' = [ch \in Chats |-> None]
    /\ worker' = [w \in Workers |-> Dead]
    /\ busy' = {}
    /\ forgotten' = forgotten \cup ToSet(seen)
    /\ UNCHANGED <<connector, agent, delivered, ticket, handled, settled>>

-----------------------------------------------------------------------------
WebhookNext(e) ==
    \/ WebhookRefused(e)
    \/ WebhookDuplicate(e)
    \/ WebhookAccepted(e)
    \/ WebhookRejected(e)

WorkerNext(w) ==
    \/ Take(w)
    \/ StartAgent(w)
    \/ NotPublished(w)
    \/ UnpublishedReply(w)
    \/ AgentAnswers(w)
    \/ AgentSilent(w)
    \/ SendAnswer(w)
    \/ ProcessFails(w)
    \/ ProcessTimesOut(w)
    \/ FailureReply(w)
    \/ Alert(w)
    \/ TimeoutReply(w)

Next ==
    \/ \E e \in Event : WebhookNext(e) \/ BusyReply(e)
    \/ \E w \in Workers : WorkerNext(w)
    \/ \E enabled \in BOOLEAN : CreateConnector(enabled) \/ UpdateConnector(enabled)
    \/ DeleteConnector
    \/ Publish
    \/ Unpublish
    \/ DeleteAgent
    \/ Age
    \/ Restart

Spec == Init /\ [][Next]_vars

\* The event loop runs every coroutine that can run, and every await of a
\* worker ends: the processing by wait_for, the replies and the alert by the
\* timeouts of their HTTP clients.
Fairness == \A w \in Workers : WF_vars(WorkerNext(w))

FairSpec == Spec /\ Fairness

-----------------------------------------------------------------------------
(* Correctness. *)

\* e waits in a queue or is being processed.
Pending(e) ==
    \/ queue[e[1]] # None /\ \E i \in DOMAIN queue[e[1]] : queue[e[1]][i].event = e
    \/ \E w \in Workers : worker[w].job # None /\ worker[w].job.event = e

\* The platform repeats a delivery it thinks was not acknowledged: the agent
\* runs once on an event, unless seen_recently had to forget it (the time to
\* live, the capacity or a restart).
HandledOnce == \A e \in Event : e \notin forgotten => handled[e] <= 1

\* seen_recently makes the gateway drop every repetition of an event, so an
\* event it remembers is waiting, being processed, being refused, or settled.
NothingDropped ==
    \A e \in ToSet(seen) : Pending(e) \/ e \in busy \/ e \in settled

\* Every message that was queued is worked off, whatever happened to the
\* messages before it: errors, timeouts, administration.
Drains == \A e \in Event : Pending(e) ~> ~Pending(e)

-----------------------------------------------------------------------------
(* What the pipeline implements. *)

\* The ranks of the jobs that wait, and of those the workers of a chat are at.
Line == [ch \in Chats |-> [i \in 1..Len(Jobs(ch)) |-> Jobs(ch)[i].no]]

Current(ch) == {worker[w].job : w \in {v \in Workers : worker[v].chat = ch}} \ {None}

InTurn == [ch \in Chats |-> {job.no : job \in Current(ch)}]

Turns == INSTANCE ChatTurns WITH
    Limit <- QueueLimit, accepted <- ticket, waiting <- Line, turns <- InTurn

\* The turns of a chat never overlap and come in the order of acceptance,
\* although the queue and its worker are created on the fly, a turn that times
\* out is cancelled half way, and administration and failures end it anywhere.
ImplementsTurns == Turns!Spec

=============================================================================
