-------------------------- MODULE A2AClientStream --------------------------
(***************************************************************************)
(* One call of A2AClientWrapper.stream_message_events: the message is sent *)
(* to a downstream agent, its responses are turned into text chunks for    *)
(* the caller, the artifacts of a finished task are fetched                *)
(* when the stream showed none, and a call that failed for a transient     *)
(* reason is repeated.                                                     *)
(*                                                                         *)
(* The downstream agent is external: it may stream any mix of task         *)
(* snapshots, status updates, artifact updates and messages, put artifacts *)
(* into the task without streaming them, and break off at any point.  That *)
(* it leaves a task alone in a stream in which the task asked or ended is  *)
(* the protocol's rule, not the code's: the model lets the agent go on     *)
(* (overran), and the properties that need the rule say so.                *)
(***************************************************************************)
EXTENDS Integers, FiniteSets

CONSTANTS
    Artifacts,  \* artifacts the downstream agent may produce
    Retries     \* retries of the call after the first attempt

ASSUME RetriesAssumption == Retries \in Nat

VARIABLES
    pc,           \* where the call is
    attempt,      \* attempts before this one
    resume,       \* the message continues an existing task
    state,        \* state of the downstream task
    artifacts,    \* artifacts in the downstream task
    yielded,      \* a text chunk was yielded in this attempt
    sawArtifact,  \* a task snapshot of this attempt carried artifacts
    sawFinal,     \* a task snapshot of this attempt was terminal
    terminal,     \* a terminal task id was seen in this attempt
    chunks,       \* attempts that yielded text to the caller (history)
    arrived,      \* artifacts whose text the caller got (history)
    unreachable,  \* the artifacts could not be fetched (history)
    overran,      \* in this attempt the agent changed a task that had asked or ended (history)
    question      \* the last question the caller got: none, without text, with text

flags == <<yielded, sawArtifact, sawFinal, terminal>>
caller == <<chunks, arrived, unreachable, question>>
task == <<state, artifacts, overran>>
vars == <<pc, attempt, resume, task, flags, caller>>

Attempt == 0..Retries

TypeOK ==
    /\ pc \in {"connect", "stream", "fetch", "backoff", "done", "raised"}
    /\ attempt \in Attempt
    /\ resume \in BOOLEAN
    /\ state \in {"working", "input", "final"}
    /\ artifacts \subseteq Artifacts
    /\ yielded \in BOOLEAN /\ sawArtifact \in BOOLEAN
    /\ sawFinal \in BOOLEAN /\ terminal \in BOOLEAN
    /\ chunks \subseteq Attempt
    /\ arrived \subseteq Artifacts
    /\ unreachable \in BOOLEAN
    /\ overran \in BOOLEAN
    /\ question \in {"none", "bare", "text"}

\* A resumed task may hold artifacts of its earlier turns.
Init ==
    /\ pc = "connect"
    /\ attempt = 0
    /\ resume \in BOOLEAN
    /\ state = "working"
    /\ artifacts \in IF resume THEN SUBSET Artifacts ELSE {{}}
    /\ yielded = FALSE
    /\ sawArtifact = FALSE
    /\ sawFinal = FALSE
    /\ terminal = FALSE
    /\ chunks = {}
    /\ arrived = {}
    /\ unreachable = FALSE
    /\ overran = FALSE
    /\ question = "none"

-----------------------------------------------------------------------------
(* The downstream agent. *)

\* The agent moves the task to state s with these artifacts.
Moves(s, arts) ==
    /\ state' = s
    /\ artifacts' = arts
    /\ overran' = (overran \/ (state # "working" /\ <<s, arts>> # <<state, artifacts>>))

\* An artifact goes into the task and into no response.
Produce(a) ==
    /\ pc = "stream"
    /\ Moves(state, artifacts \cup {a})
    /\ UNCHANGED <<pc, attempt, resume, flags, caller>>

-----------------------------------------------------------------------------
(* The call. *)

Connect ==
    /\ pc = "connect"
    /\ pc' = "stream"
    /\ UNCHANGED <<attempt, resume, task, flags, caller>>

\* Mutant: the text of an artifact does not count as output.
YieldTextOnly(text, arts) ==
    /\ yielded' = (yielded \/ text)
    /\ chunks' = IF text \/ arts # {} THEN chunks \cup {attempt} ELSE chunks
    /\ arrived' = arrived \cup arts

\* What the caller gets from one response; signals do not count as output.
Yield(text, arts) ==
    /\ yielded' = (yielded \/ text \/ arts # {})
    /\ chunks' = IF text \/ arts # {} THEN chunks \cup {attempt} ELSE chunks
    /\ arrived' = arrived \cup arts

\* The signal that the task waits for an answer: the caller keeps the last one,
\* also over a retry.
Signal(text, s) ==
    question' = IF s # "input" THEN question ELSE IF text THEN "text" ELSE "bare"

\* A snapshot of the task in state s, with a status text or without.
ReceiveTask(text, s) ==
    /\ pc = "stream"
    /\ Moves(s, artifacts)
    /\ sawArtifact' = (sawArtifact \/ artifacts # {})
    /\ sawFinal' = (sawFinal \/ s = "final")
    /\ terminal' = (terminal \/ s = "final")
    /\ Yield(text, artifacts)
    /\ Signal(text, s)
    /\ UNCHANGED <<pc, attempt, resume, unreachable>>

\* Mutant: a terminal status with a text makes the fetch unnecessary.
ReceiveStatusSettles(text, s) ==
    /\ pc = "stream"
    /\ Moves(s, artifacts)
    /\ terminal' = (terminal \/ (s = "final" /\ ~text))
    /\ Yield(text, {})
    /\ Signal(text, s)
    /\ UNCHANGED <<pc, attempt, resume, sawArtifact, sawFinal, unreachable>>

\* A status update: the task is now in state s.
ReceiveStatus(text, s) ==
    /\ pc = "stream"
    /\ Moves(s, artifacts)
    /\ terminal' = (terminal \/ s = "final")
    /\ Yield(text, {})
    /\ Signal(text, s)
    /\ UNCHANGED <<pc, attempt, resume, sawArtifact, sawFinal, unreachable>>

\* An artifact is streamed; the flag for artifacts looks at snapshots only.
ReceiveArtifact(a) ==
    /\ pc = "stream"
    /\ Moves(state, artifacts \cup {a})
    /\ Yield(FALSE, {a})
    /\ UNCHANGED <<pc, attempt, resume, sawArtifact, sawFinal, terminal, unreachable, question>>

ReceiveMessage(text) ==
    /\ pc = "stream"
    /\ Yield(text, {})
    /\ UNCHANGED <<pc, attempt, resume, task, sawArtifact, sawFinal, terminal, unreachable,
                   question>>

\* The stream ends: the call is over, or the artifacts are fetched first.
StreamEnds ==
    /\ pc = "stream"
    /\ pc' = IF terminal /\ ~sawArtifact /\ ~sawFinal THEN "fetch" ELSE "done"
    /\ UNCHANGED <<attempt, resume, task, flags, caller>>

Fetch ==
    /\ pc = "fetch"
    /\ pc' = "done"
    /\ Yield(FALSE, artifacts)
    /\ UNCHANGED <<attempt, resume, task, sawArtifact, sawFinal, terminal, unreachable, question>>

\* An error of the fetch is swallowed.
FetchFails ==
    /\ pc = "fetch"
    /\ pc' = "done"
    /\ unreachable' = TRUE
    /\ UNCHANGED <<attempt, resume, task, flags, chunks, arrived, question>>

\* Mutant: a call is repeated although the caller already got some of it.
FailRepeats(kind) ==
    /\ pc \in {"connect", "stream"}
    /\ pc' = IF attempt >= Retries \/ kind \notin {"network", "timeout"}
             THEN "raised" ELSE "backoff"
    /\ UNCHANGED <<attempt, resume, task, flags, caller>>

\* A connection or a stream fails with an error of this kind.
Fail(kind) ==
    /\ pc \in {"connect", "stream"}
    /\ pc' = IF yielded \/ attempt >= Retries \/ kind \notin {"network", "timeout"}
             THEN "raised" ELSE "backoff"
    /\ UNCHANGED <<attempt, resume, task, flags, caller>>

\* Mutant: the retries are not counted.
RetryForever ==
    /\ pc = "backoff"
    /\ pc' = "connect"
    /\ state' = "working" /\ overran' = FALSE
    /\ artifacts' = IF resume THEN artifacts ELSE {}
    /\ yielded' = FALSE /\ sawArtifact' = FALSE /\ sawFinal' = FALSE /\ terminal' = FALSE
    /\ UNCHANGED <<attempt, resume, caller>>

\* The message is sent again: a new task, unless it continues one.
Retry ==
    /\ pc = "backoff"
    /\ pc' = "connect"
    /\ attempt' = attempt + 1
    /\ state' = "working" /\ overran' = FALSE
    /\ artifacts' = IF resume THEN artifacts ELSE {}
    /\ yielded' = FALSE /\ sawArtifact' = FALSE /\ sawFinal' = FALSE /\ terminal' = FALSE
    /\ UNCHANGED <<resume, caller>>

-----------------------------------------------------------------------------
ReceiveNext ==
    \/ \E text \in BOOLEAN, s \in {"working", "input", "final"} :
          ReceiveTask(text, s) \/ ReceiveStatus(text, s)
    \/ \E a \in Artifacts : ReceiveArtifact(a)
    \/ \E text \in BOOLEAN : ReceiveMessage(text)

FailNext == \E kind \in {"network", "timeout", "target_error"} : Fail(kind)

CallNext == Connect \/ StreamEnds \/ Fetch \/ FetchFails \/ FailNext \/ Retry

Next ==
    \/ \E a \in Artifacts : Produce(a)
    \/ ReceiveNext
    \/ CallNext

Spec == Init /\ [][Next]_vars

\* Every stream ends (the agent closes it or the HTTP client times out), and
\* the coroutine is scheduled.
FairSpec == Spec /\ WF_vars(CallNext)

-----------------------------------------------------------------------------
(* Correctness. *)

\* The caller concatenates the chunks: they never come from two attempts, so
\* an answer is not repeated or mixed from two runs of the downstream agent.
TextOfOneAttempt == Cardinality(chunks) <= 1

\* Not empty-handed: when the task ended, and its snapshot could be read, the
\* caller got some of the artifacts there are; unless the agent went on with a
\* task that had asked or ended, whose later artifacts nobody may look for.
NotEmptyHanded ==
    pc = "done" /\ state = "final" /\ artifacts # {} /\ ~unreachable /\ ~overran
        => arrived # {}

\* A caller that was asked something suspends the task: then the task waits for
\* the answer, and is not one of an earlier attempt that was repeated.  A
\* question without text does not count as output, and is the exception: its
\* attempt may be repeated and complete.  An agent that goes on by itself after
\* it asked is another: the caller keeps the question and suspends all the same.
SuspendedTaskWaits == pc = "done" /\ question = "text" /\ ~overran => state = "input"

\* The call ends, after a bounded number of attempts.
Ends == <>(pc \in {"done", "raised"})

=============================================================================
