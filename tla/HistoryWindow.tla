----------------------------- MODULE HistoryWindow -----------------------------
(***************************************************************************)
(* The message history of one conversation and what the model sees of it:  *)
(* the recent window, the incremental summary of what lies before it, and  *)
(* the bodies of skills that were loaded before it.  Turns may be aborted  *)
(* and rejected, repeated from an earlier checkpoint (time travel), and    *)
(* the skills of the agent may change between them.                        *)
(*                                                                         *)
(* One turn of the conversation runs at a time.  The graph saves a         *)
(* checkpoint after every step, so a turn that is aborted, or whose model  *)
(* or tool raises, leaves the newest checkpoint as it was; the hook does   *)
(* not show what it did before it returned.                                *)
(***************************************************************************)
EXTENDS SequencesExt, Naturals

CONSTANTS
    Skills,      \* skills an agent may be bound to
    Keep,        \* KEEP_RECENT
    Batch,       \* SUMMARIZE_BATCH
    Budget,      \* bodies that fit into MAX_INJECT_CHARS
    MaxCalls,    \* tool calls in one message of the model (bound)
    MaxMessages  \* messages of the conversation (bound)

ASSUME HistoryAssumption ==
    /\ {Keep, Batch, Budget, MaxCalls} \subseteq Nat \ {0}
    /\ MaxMessages \in Nat

VARIABLES
    head,     \* newest checkpoint
    fork,     \* newest one that ends with a message of the user and has a step to run
    at,       \* checkpoint the running turn goes on from: "head", "fork", or "idle"
    bound,    \* skills of the agent, in the order of the binding
    skipped,  \* the last summary that was due failed (history)
    stuck     \* lengths at which turns were rejected since one was not (history)

vars == <<head, fork, at, bound, skipped, stuck>>

(***************************************************************************)
(* A message of the model may call tools, and may load skills with some of *)
(* the calls; the others have no calls.                                    *)
(***************************************************************************)
Message == [kind : {"human", "ai", "tool"}, calls : 0..MaxCalls, loads : SUBSET Skills]

Plain(kind) == [kind |-> kind, calls |-> 0, loads |-> {}]

(***************************************************************************)
(* covered: summarized_count; active: index of the last load, or 0;        *)
(* injected: skills whose body precedes the window in the input of the     *)
(* model; next: the node that runs next; given (history): the messages a   *)
(* summary was asked for.                                                  *)
(***************************************************************************)
Empty == [messages |-> <<>>, covered |-> 0, active |-> [s \in Skills |-> 0],
          injected |-> {}, next |-> "end", given |-> {}]

\* The set of all checkpoints is too large to be enumerated.
CheckpointOK(c) ==
    /\ DOMAIN c = DOMAIN Empty
    /\ Len(c.messages) <= MaxMessages
    /\ \A i \in DOMAIN c.messages : c.messages[i] \in Message
    /\ c.covered \in 0..Len(c.messages)
    /\ c.active \in [Skills -> 0..Len(c.messages)]
    /\ c.injected \subseteq Skills
    /\ c.next \in {"hook", "agent", "tools", "end"}
    /\ c.given \subseteq DOMAIN c.messages

Bindings == {b \in BoundedSeq(Skills, Cardinality(Skills)) : IsInjective(b)}

TypeOK ==
    /\ CheckpointOK(head)
    /\ CheckpointOK(fork)
    /\ at \in {"idle", "head", "fork"}
    /\ bound \in Bindings
    /\ skipped \in BOOLEAN
    /\ stuck \subseteq 1..MaxMessages

Init ==
    /\ head = Empty
    /\ fork = Empty
    /\ at = "idle"
    /\ bound \in Bindings
    /\ skipped = FALSE
    /\ stuck = {}

-----------------------------------------------------------------------------
(* What the hook computes. *)

\* Mutant: the window may start with the result of a tool.
WindowUncut(messages) ==
    {i \in DOMAIN messages : i > Len(messages) - Keep}

\* Mutant: there is no window.
WindowWhole(messages) == DOMAIN messages

\* The last Keep messages, without results of tools at their beginning.
Window(messages) ==
    {i \in DOMAIN messages :
        /\ i > Len(messages) - Keep
        /\ \E j \in DOMAIN messages : /\ j <= i
                                      /\ j > Len(messages) - Keep
                                      /\ messages[j].kind # "tool"}

LastLoad(messages, s) ==
    LET loads == {i \in DOMAIN messages : s \in messages[i].loads}
    IN  IF loads = {} THEN 0 ELSE Max(loads)

\* Loads found now win over those remembered; skills not bound are forgotten.
Active(c) ==
    [s \in Skills |-> IF s \notin Range(bound) THEN 0
                      ELSE IF LastLoad(c.messages, s) # 0 THEN LastLoad(c.messages, s)
                      ELSE c.active[s]]

\* Mutant: off by one.
StaleLate(active, length) ==
    {k \in DOMAIN bound : active[bound[k]] # 0 /\ active[bound[k]] < length - Keep}

\* Where the skills are bound whose load is before the window.
Stale(active, length) ==
    {k \in DOMAIN bound : active[bound[k]] # 0 /\ active[bound[k]] <= length - Keep}

\* The first of them in the order of the binding, as far as the budget goes.
Injected(active, length) ==
    LET stale == Stale(active, length)
    IN  {bound[k] : k \in {l \in stale : Cardinality(stale \cap 1..(l - 1)) < Budget}}

\* Mutant: the window is not counted.
DueEarly(c) == Len(c.messages) >= c.covered + Batch

\* Mutant: one message more is left out.
DueLate(c) == Len(c.messages) > Keep + c.covered + Batch

\* So many messages are before the window that a summary is due.
Due(c) == Len(c.messages) >= Keep + c.covered + Batch

-----------------------------------------------------------------------------
(* Steps of a turn. *)

Current == IF at = "fork" THEN fork ELSE head

\* A step was saved; a retry will look for the newest such checkpoint.
Commit(c) ==
    /\ head' = c
    /\ fork' = IF Last(c.messages).kind = "human" /\ c.next # "end" THEN c ELSE fork

UserSpeaks ==
    /\ at = "idle"
    /\ Len(head.messages) < MaxMessages
    /\ Commit([head EXCEPT !.messages = Append(@, Plain("human")), !.next = "hook"])
    /\ at' = "head"
    /\ UNCHANGED <<bound, skipped, stuck>>

\* The newest checkpoint with a message of the user is run again from there.
Retry ==
    /\ at = "idle"
    /\ fork.next # "end"
    /\ at' = "fork"
    /\ UNCHANGED <<head, fork, bound, skipped, stuck>>

\* The checkpoint after the hook, but for the summary.
Hooked(c) ==
    LET active == Active(c)
    IN  [c EXCEPT !.active = active, !.next = "agent",
                  !.injected = Injected(active, Len(c.messages))]

Hook ==
    /\ at # "idle"
    /\ Current.next = "hook"
    /\ ~Due(Current)
    /\ Commit(Hooked(Current))
    /\ at' = "head"
    /\ skipped' = FALSE
    /\ UNCHANGED <<bound, stuck>>

\* Mutant: the count runs up to the newest message.
SummariseAll ==
    LET segment == (Current.covered + 1)..Len(Current.messages) IN
    /\ at # "idle"
    /\ Current.next = "hook"
    /\ Due(Current)
    /\ Commit([Hooked(Current) EXCEPT
                  !.covered = Len(Current.messages),
                  !.given = @ \cup segment])
    /\ at' = "head"
    /\ skipped' = FALSE
    /\ UNCHANGED <<bound, stuck>>

\* If the answer is empty the old summary stays, and the count goes on as well.
Summarise ==
    LET overflow == Len(Current.messages) - Keep
        segment == (Current.covered + 1)..overflow
    IN  /\ at # "idle"
        /\ Current.next = "hook"
        /\ Due(Current)
        /\ Commit([Hooked(Current) EXCEPT
                      !.covered = overflow,
                      !.given = @ \cup segment])
        /\ at' = "head"
        /\ skipped' = FALSE
        /\ UNCHANGED <<bound, stuck>>

\* An error leaves summary and count: the next hook tries again.
SummaryFails ==
    /\ at # "idle"
    /\ Current.next = "hook"
    /\ Due(Current)
    /\ Commit(Hooked(Current))
    /\ at' = "head"
    /\ skipped' = TRUE
    /\ UNCHANGED <<bound, stuck>>

\* A call is followed by its results, if there are any.
Answered(messages, i) ==
    messages[i].calls > 0 => i < Len(messages) /\ messages[i + 1].kind = "tool"

\* Before it asks the model the agent node checks that every call is answered.
Valid(messages) == \A i \in Window(messages) : Answered(messages, i)

\* The input of the model is computed by the hook, and stays in the checkpoint.
ModelRuns == at # "idle" /\ Current.next = "agent" /\ Valid(Current.messages)

Answer ==
    /\ ModelRuns
    /\ Len(Current.messages) < MaxMessages
    /\ Commit([Current EXCEPT !.messages = Append(@, Plain("ai")), !.next = "end"])
    /\ at' = "idle"
    /\ stuck' = {}
    /\ UNCHANGED <<bound, skipped>>

CallTools(calls, loads) ==
    /\ ModelRuns
    /\ Cardinality(loads) <= calls
    /\ Len(Current.messages) + 1 + calls <= MaxMessages
    /\ Commit([Current EXCEPT
                  !.messages = Append(@, [kind |-> "ai", calls |-> calls, loads |-> loads]),
                  !.next = "tools"])
    /\ at' = "head"
    /\ stuck' = {}
    /\ UNCHANGED <<bound, skipped>>

\* The calls of a message run side by side and are saved together.
RunTools ==
    /\ at # "idle"
    /\ Current.next = "tools"
    /\ Commit([Current EXCEPT
                  !.messages = @ \o [i \in 1..Last(@).calls |-> Plain("tool")],
                  !.next = "hook"])
    /\ UNCHANGED <<at, bound, skipped, stuck>>

\* A call that a cancelled turn left unanswered makes the check fail.
Reject ==
    /\ at # "idle"
    /\ Current.next = "agent"
    /\ ~Valid(Current.messages)
    /\ at' = "idle"
    /\ stuck' = stuck \cup {Len(Current.messages)}
    /\ UNCHANGED <<head, fork, bound, skipped>>

\* The client is gone, the time is up, or a step raised.
Abort ==
    /\ at # "idle"
    /\ at' = "idle"
    /\ UNCHANGED <<head, fork, bound, skipped, stuck>>

-----------------------------------------------------------------------------
(* Between turns. *)

\* A resume request appends its question and, if there is one, the reply.
AppendResume(reply) ==
    /\ at = "idle"
    /\ Len(head.messages) + Len(reply) < MaxMessages
    /\ Commit([head EXCEPT !.messages = @ \o <<Plain("human")>> \o reply, !.next = "end"])
    /\ UNCHANGED <<at, bound, skipped, stuck>>

DeleteConversation ==
    /\ at = "idle"
    /\ head' = Empty
    /\ fork' = Empty
    /\ skipped' = FALSE
    /\ stuck' = {}
    /\ UNCHANGED <<at, bound>>

\* The next turn runs with a graph built for the skills bound by then.
Rebind(skills) ==
    /\ at = "idle"
    /\ skills # bound
    /\ bound' = skills
    /\ UNCHANGED <<head, fork, at, skipped, stuck>>

Next ==
    \/ UserSpeaks \/ Retry \/ Hook \/ Summarise \/ SummaryFails
    \/ Answer \/ RunTools \/ Reject \/ Abort
    \/ \E calls \in 1..MaxCalls, loads \in SUBSET Skills : CallTools(calls, loads)
    \/ \E reply \in {<<>>, <<Plain("ai")>>} : AppendResume(reply)
    \/ DeleteConversation
    \/ \E skills \in Bindings : Rebind(skills)

Spec == Init /\ [][Next]_vars

-----------------------------------------------------------------------------
(* Correctness. *)

\* The hook has prepared the input of the model with the skills of this turn.
Prepared == at = "head" /\ head.next = "agent"

\* Tools' results reach the model behind the call they belong to, wherever the
\* window cuts and whatever turns were aborted.
NoOrphanResult ==
    \A i \in Window(head.messages) :
        head.messages[i].kind = "tool"
            => \E j \in Window(head.messages) : /\ j < i
                                                /\ i <= j + head.messages[j].calls

\* Summary and window do not overlap, and the count says what was given to the
\* summary, also after a retry went back to a checkpoint from before a summary.
CoveredWasGiven ==
    \A c \in {head, fork} :
        c.given = 1..c.covered /\ c.given \cap Window(c.messages) = {}

\* The model sees every message in the window or through the summary, but for
\* fewer than Batch and the results cut off the window (if summaries work).
GapIsBounded ==
    Prepared /\ ~skipped
        => Cardinality(DOMAIN head.messages \ (head.given \cup Window(head.messages)))
              < Batch + MaxCalls

\* The body of a skill that was loaded once is in the input for good while the
\* skill is bound: by its call in the window, or injected unless skills bound
\* before it use up the budget.
LoadedSkillVisible ==
    Prepared =>
        \A k \in DOMAIN bound :
            LET s == bound[k] IN
            (\E i \in DOMAIN head.messages : s \in head.messages[i].loads)
               => \/ \E i \in Window(head.messages) : s \in head.messages[i].loads
                  \/ s \in head.injected
                  \/ Cardinality(head.injected \cap {bound[l] : l \in 1..(k - 1)}) = Budget

\* A conversation recovers from a cancelled turn: not even Keep different
\* messages of the user are rejected in a row.
Recovers == Cardinality(stuck) < Keep

=============================================================================
