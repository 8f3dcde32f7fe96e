----------------------------- MODULE SandboxRun -----------------------------
(***************************************************************************)
(* Runs of skill scripts: the gateway posts a script to the gate, the gate *)
(* lets a bounded number of requests through to the runner, and the runner *)
(* executes each in a process group of its own.  Each of the three has a   *)
(* timeout; the wait for a place at the gate has none.                     *)
(*                                                                         *)
(* Time passes in ticks of 5 s, the unit of the fixed timeouts.  What a    *)
(* component does at once (react to an answer, to a free slot, to a lost   *)
(* connection, to a deadline) happens before the next tick; at a deadline  *)
(* the timeout and the event it waits for may come in either order.        *)
(***************************************************************************)
EXTENDS Integers, Sequences, FiniteSets

CONSTANTS
    Requests,    \* calls of run_script
    Slots,       \* SANDBOX_MAX_CONCURRENCY
    Timeouts,    \* timeout_s a trial of an administrator may ask for, in ticks
    Default,     \* SCRIPT_TIMEOUT_DEFAULT_S, in ticks
    MaxRestarts  \* bound: restarts of the gate and the runner

ASSUME SandboxAssumption ==
    /\ Slots \in Nat \ {0}
    /\ Timeouts \subseteq Nat \ {0}
    /\ Default \in Timeouts
    /\ MaxRestarts \in Nat

VARIABLES
    caller,    \* caller[r]: what the caller of run_script has heard
    patience,  \* patience[r]: ticks until the caller's HTTP timeout
    budget,    \* budget[r]: timeout_s of the request
    gate,      \* gate[r]: the handler of the request at the gate
    gateLeft,  \* gateLeft[r]: ticks until the timeout the handler waits under
    queue,     \* handlers waiting for the semaphore, the next one at the head
    free,      \* value of the semaphore
    up,        \* the runner listens
    runner,    \* runner[r]: the runner's coroutine for the request
    runLeft,   \* runLeft[r]: ticks until the timeout it waits under
    procs,     \* procs[r]: live processes of the script
    orphans,   \* requests whose gate restarted while they ran (history)
    delayed,   \* requests that waited a tick before their script ran (history)
    restarts   \* restarts so far

callers == <<caller, patience, budget>>
gates == <<gate, gateLeft, queue, free>>
runners == <<up, runner, runLeft, procs>>
history == <<orphans, delayed, restarts>>
vars == <<callers, gates, runners, history>>

(***************************************************************************)
(* Processes of a script: the interpreter, a child that shares its output, *)
(* a child whose output goes elsewhere, and a child that shares the output *)
(* but has left the process group (setsid).  One that has left the group   *)
(* and does not share the output is seen by nobody.                        *)
(***************************************************************************)
Process == {"main", "child", "daemon", "stray"}

\* While one of these lives, communicate() waits for the output.
Foreground == {"main", "child", "stray"}

\* What a signal to the process group reaches.
Group == {"main", "child", "daemon"}

\* The two ways a run ends that the caller is told are a timeout: the flag of
\* the runner's result, and the 504 of the gate.
TimedOut == {"killed", "timeout"}

Heard == {"nothing", "waiting", "result", "error", "rejected", "unavailable", "gaveUp"}
            \cup TimedOut
HandlerState == {"none", "queued", "connecting", "reading", "done"}

\* The last three are the runner's result, on its way to the gate or read.
RunState == {"none", "starting", "running", "reaping", "gone", "result", "error", "killed"}
Replied == {"result", "error", "killed"}

TypeOK ==
    /\ caller \in [Requests -> Heard]
    /\ patience \in [Requests -> Nat]
    /\ budget \in [Requests -> Timeouts]
    /\ gate \in [Requests -> HandlerState]
    /\ gateLeft \in [Requests -> Nat]
    /\ queue \in Seq(Requests)
    /\ free \in 0..Slots
    /\ up \in BOOLEAN
    /\ runner \in [Requests -> RunState]
    /\ runLeft \in [Requests -> Nat]
    /\ procs \in [Requests -> SUBSET Process]
    /\ orphans \subseteq Requests
    /\ delayed \subseteq Requests
    /\ restarts \in 0..MaxRestarts

Init ==
    /\ caller = [r \in Requests |-> "nothing"]
    /\ patience = [r \in Requests |-> 0]
    /\ budget = [r \in Requests |-> Default]
    /\ gate = [r \in Requests |-> "none"]
    /\ gateLeft = [r \in Requests |-> 0]
    /\ queue = <<>>
    /\ free = Slots
    /\ up = TRUE
    /\ runner = [r \in Requests |-> "none"]
    /\ runLeft = [r \in Requests |-> 0]
    /\ procs = [r \in Requests |-> {}]
    /\ orphans = {}
    /\ delayed = {}
    /\ restarts = 0

-----------------------------------------------------------------------------
(* The four timeouts, for a script that may run t ticks. *)

\* Mutant: the caller waits as long as the gate, not longer.
PatienceShort(t) == t + 1

\* timeout_s + 10 of the HTTP client
Patience(t) == t + 2

\* FORWARD_CONNECT_TIMEOUT
ConnectTime == 1

\* Mutant: the gate waits as long as the script may run.
ReadTimeShort(t) == t

\* timeout_s + 5 of the gate
ReadTime(t) == t + 1

\* the 5 s in which a killed process is collected
ReapTime == 1

-----------------------------------------------------------------------------
(* The caller: the tool run_skill_script, or a trial of an administrator. *)

\* The request reaches the gate and waits for the semaphore.
Submit(r, t) ==
    /\ caller[r] = "nothing"
    /\ caller' = [caller EXCEPT ![r] = "waiting"]
    /\ patience' = [patience EXCEPT ![r] = Patience(t)]
    /\ budget' = [budget EXCEPT ![r] = t]
    /\ gate' = [gate EXCEPT ![r] = "queued"]
    /\ queue' = Append(queue, r)
    /\ UNCHANGED <<gateLeft, free, runners, history>>

\* The model calls the tool on a script of a skill that may run scripts.
ToolRuns(r) == Submit(r, Default)

\* An administrator tries a script, of a skill that need not be approved.
TrialRuns(r) == \E t \in Timeouts : Submit(r, t)

\* The gate refuses at once (token, size, format), or is not there.
SubmitFails(r, answer) ==
    /\ caller[r] = "nothing"
    /\ answer \in {"rejected", "unavailable"}
    /\ caller' = [caller EXCEPT ![r] = answer]
    /\ UNCHANGED <<patience, budget, gates, runners, history>>

\* Nobody tells the gate, whose handler goes on.
GivesUp(r) ==
    /\ caller[r] = "waiting"
    /\ patience[r] = 0
    /\ caller' = [caller EXCEPT ![r] = "gaveUp"]
    /\ UNCHANGED <<patience, budget, gates, runners, history>>

\* The answer of the gate, for a caller that still waits.
Hears(r, answer) ==
    caller' = [caller EXCEPT ![r] = IF caller[r] = "waiting" THEN answer ELSE caller[r]]

-----------------------------------------------------------------------------
(* The gate. *)

\* The semaphore wakes its waiters in the order they came.
Acquire ==
    /\ queue # <<>>
    /\ free > 0
    /\ free' = free - 1
    /\ gate' = [gate EXCEPT ![Head(queue)] = "connecting"]
    /\ gateLeft' = [gateLeft EXCEPT ![Head(queue)] = ConnectTime]
    /\ queue' = Tail(queue)
    /\ UNCHANGED <<callers, runners, history>>

\* The handler ends, gives its slot back and answers.
Leave(r, answer) ==
    /\ gate' = [gate EXCEPT ![r] = "done"]
    /\ free' = free + 1
    /\ Hears(r, answer)
    /\ UNCHANGED <<patience, budget, gateLeft, queue>>

\* The request is written, and its end; the runner has it.
Connected(r) ==
    /\ gate[r] = "connecting"
    /\ up
    /\ gate' = [gate EXCEPT ![r] = "reading"]
    /\ gateLeft' = [gateLeft EXCEPT ![r] = ReadTime(budget[r])]
    /\ runner' = [runner EXCEPT ![r] = "starting"]
    /\ UNCHANGED <<queue, free, callers, up, runLeft, procs, history>>

\* Mutant: the slot is taken by hand and not given back on this path.
NotConnectedLeaks(r) ==
    /\ gate[r] = "connecting"
    /\ ~up \/ gateLeft[r] = 0
    /\ gate' = [gate EXCEPT ![r] = "done"]
    /\ Hears(r, "rejected")
    /\ UNCHANGED <<patience, budget, gateLeft, queue, free, runners, history>>

\* 503: nobody listens, or the connection is not made in time.
NotConnected(r) ==
    /\ gate[r] = "connecting"
    /\ ~up \/ gateLeft[r] = 0
    /\ Leave(r, "rejected")
    /\ UNCHANGED <<runners, history>>

ReadResult(r) ==
    /\ gate[r] = "reading"
    /\ runner[r] \in Replied
    /\ Leave(r, runner[r])
    /\ UNCHANGED <<runners, history>>

\* 502: the connection ended without a result.
ReadBroken(r) ==
    /\ gate[r] = "reading"
    /\ runner[r] = "gone"
    /\ Leave(r, "rejected")
    /\ UNCHANGED <<runners, history>>

\* 504; the runner is left to itself.
ReadTimesOut(r) ==
    /\ gate[r] = "reading"
    /\ gateLeft[r] = 0
    /\ Leave(r, "timeout")
    /\ UNCHANGED <<runners, history>>

-----------------------------------------------------------------------------
(* The runner. *)

\* Files or entry are refused, or the interpreter cannot be started.
Refuses(r) ==
    /\ runner[r] = "starting"
    /\ runner' = [runner EXCEPT ![r] = "error"]
    /\ UNCHANGED <<up, runLeft, procs, callers, gates, history>>

Spawns(r) ==
    /\ runner[r] = "starting"
    /\ runner' = [runner EXCEPT ![r] = "running"]
    /\ runLeft' = [runLeft EXCEPT ![r] = budget[r]]
    /\ procs' = [procs EXCEPT ![r] = {"main"}]
    /\ UNCHANGED <<up, callers, gates, history>>

\* communicate() returns: everything that holds the output has ended.
Completes(r) ==
    /\ runner[r] = "running"
    /\ procs[r] \cap Foreground = {}
    /\ runner' = [runner EXCEPT ![r] = "result"]
    /\ UNCHANGED <<up, runLeft, procs, callers, gates, history>>

\* Mutant: only the process that was started is killed.
TimesOutMainOnly(r) ==
    /\ runner[r] = "running"
    /\ runLeft[r] = 0
    /\ procs' = [procs EXCEPT ![r] = @ \ {"main"}]
    /\ runner' = [runner EXCEPT ![r] = "reaping"]
    /\ runLeft' = [runLeft EXCEPT ![r] = ReapTime]
    /\ UNCHANGED <<up, callers, gates, history>>

\* The process group is killed; what has left it goes on.
TimesOut(r) ==
    /\ runner[r] = "running"
    /\ runLeft[r] = 0
    /\ procs' = [procs EXCEPT ![r] = @ \ Group]
    /\ runner' = [runner EXCEPT ![r] = "reaping"]
    /\ runLeft' = [runLeft EXCEPT ![r] = ReapTime]
    /\ UNCHANGED <<up, callers, gates, history>>

\* The system has collected the process, or the runner waits no longer.
Reaped(r) ==
    /\ runner[r] = "reaping"
    /\ runner' = [runner EXCEPT ![r] = "killed"]
    /\ UNCHANGED <<up, runLeft, procs, callers, gates, history>>

-----------------------------------------------------------------------------
(* Scripts. *)

Forks(r, p) ==
    /\ "main" \in procs[r]
    /\ p # "main"
    /\ procs' = [procs EXCEPT ![r] = @ \cup {p}]
    /\ UNCHANGED <<up, runner, runLeft, callers, gates, history>>

\* A process exits, or meets one of its resource limits.
Exits(r, p) ==
    /\ p \in procs[r]
    /\ procs' = [procs EXCEPT ![r] = @ \ {p}]
    /\ UNCHANGED <<up, runner, runLeft, callers, gates, history>>

-----------------------------------------------------------------------------
(* Restarts, and time. *)

Held == {"queued", "connecting", "reading"}

\* The handlers are gone and the semaphore is new; the runner does not notice.
GateRestarts ==
    /\ restarts < MaxRestarts
    /\ restarts' = restarts + 1
    /\ gate' = [r \in Requests |-> IF gate[r] \in Held THEN "done" ELSE gate[r]]
    /\ caller' = [r \in Requests |-> IF gate[r] \in Held /\ caller[r] = "waiting"
                                     THEN "unavailable" ELSE caller[r]]
    /\ queue' = <<>>
    /\ free' = Slots
    /\ orphans' = orphans \cup {r \in Requests : gate[r] = "reading"}
    /\ UNCHANGED <<patience, budget, gateLeft, runners, delayed>>

\* The container stops, and every process in it.
RunnerStops ==
    /\ up
    /\ restarts < MaxRestarts
    /\ restarts' = restarts + 1
    /\ up' = FALSE
    /\ runner' = [r \in Requests |-> IF runner[r] \in {"starting", "running", "reaping"}
                                     THEN "gone" ELSE runner[r]]
    /\ procs' = [r \in Requests |-> {}]
    /\ UNCHANGED <<runLeft, callers, gates, orphans, delayed>>

RunnerStarts ==
    /\ ~up
    /\ up' = TRUE
    /\ UNCHANGED <<runner, runLeft, procs, callers, gates, history>>

\* What happens before time goes on.
AtOnce ==
    \/ queue # <<>> /\ free > 0
    \/ \E r \in Requests :
          \/ caller[r] = "waiting" /\ patience[r] = 0
          \/ gate[r] \in {"connecting", "reading"} /\ gateLeft[r] = 0
          \/ gate[r] = "reading" /\ runner[r] \in Replied \cup {"gone"}
          \/ runner[r] = "starting"
          \/ runner[r] \in {"running", "reaping"} /\ runLeft[r] = 0
          \/ runner[r] = "running" /\ procs[r] \cap Foreground = {}

Less(left, who) == [r \in Requests |-> IF r \in who THEN left[r] - 1 ELSE left[r]]

Tick ==
    /\ ~AtOnce
    /\ patience' = Less(patience, {r \in Requests : caller[r] = "waiting"})
    /\ gateLeft' = Less(gateLeft, {r \in Requests : gate[r] \in {"connecting", "reading"}})
    /\ runLeft' = Less(runLeft, {r \in Requests : runner[r] \in {"running", "reaping"}})
    /\ delayed' = delayed \cup {r \in Requests : gate[r] \in {"queued", "connecting"}}
    /\ UNCHANGED <<caller, budget, gate, queue, free, up, runner, procs, orphans, restarts>>

-----------------------------------------------------------------------------
CallerNext(r) ==
    \/ ToolRuns(r)
    \/ TrialRuns(r)
    \/ \E answer \in Heard : SubmitFails(r, answer)

GateNext(r) ==
    \/ Connected(r)
    \/ NotConnected(r)
    \/ ReadResult(r)
    \/ ReadBroken(r)
    \/ ReadTimesOut(r)

RunnerNext(r) ==
    \/ Refuses(r)
    \/ Spawns(r)
    \/ Completes(r)
    \/ TimesOut(r)
    \/ Reaped(r)

ScriptNext(r) == \E p \in Process : Forks(r, p) \/ Exits(r, p)

Next ==
    \/ \E r \in Requests :
          CallerNext(r) \/ GivesUp(r) \/ GateNext(r) \/ RunnerNext(r) \/ ScriptNext(r)
    \/ Acquire
    \/ GateRestarts \/ RunnerStops \/ RunnerStarts
    \/ Tick

Spec == Init /\ [][Next]_vars

\* Time goes on, and the event loops of the three components run; nothing is
\* assumed of the scripts.
Fairness ==
    /\ WF_vars(Tick)
    /\ WF_vars(Acquire)
    /\ \A r \in Requests : WF_vars(GivesUp(r)) /\ WF_vars(GateNext(r)) /\ WF_vars(RunnerNext(r))

FairSpec == Spec /\ Fairness

-----------------------------------------------------------------------------
(* Correctness. *)

\* Scripts that hold their output open, without what has left their groups.
Running == {r \in Requests : procs[r] \cap Foreground \cap Group # {}}

\* The semaphore bounds the process groups that run, not only the handlers
\* that wait for them: a handler leaves by its own timeout only after the
\* runner killed the group.  Scripts whose gate restarted are on top of the
\* bound, and so is what survives a kill outside of its group.
SlotsBoundScripts == Cardinality(Running \ orphans) <= Slots

\* A caller that is told of a timeout, by the runner's flag or by the 504 of
\* the gate, can rely on the kill: nothing of the script's process group is
\* left.  A process that has left the group may be.
TimeoutMeansKilled == \A r \in Requests : caller[r] \in TimedOut => procs[r] \cap Group = {}

\* The timeouts of the three components are nested: a caller gives up first
\* only when its request had to wait for its turn.
GivesUpWhenDelayed == \A r \in Requests : caller[r] = "gaveUp" => r \in delayed

\* Every request that waits for a slot gets its turn, whatever the scripts
\* and the requests before it do: no path of a handler keeps the slot.
TurnComes == \A r \in Requests : gate[r] = "queued" ~> gate[r] # "queued"

=============================================================================
