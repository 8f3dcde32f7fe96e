----------------------- MODULE ConnectorPipelineProofs -----------------------
(***************************************************************************)
(* ConnectorPipeline implements ChatTurns, and no event is handled twice   *)
(* or dropped without a trace, for any number of chats, events, deliveries *)
(* and worker coroutines and any length of the queue and the table.        *)
(***************************************************************************)
EXTENDS ConnectorPipeline, SequenceTheorems, FiniteSetTheorems, TLAPS

\* A chat has a worker only with its queue, and one at most; a worker has a
\* job unless it waits for one.
WorkerInv ==
    /\ \A w \in Workers :
          /\ worker[w].pc = "dead" => worker[w] = Dead
          /\ worker[w].chat # None => queue[worker[w].chat] # None
          /\ worker[w].job = None <=> worker[w].pc \in {"dead", "wait"}
          /\ worker[w].chat = None <=> worker[w].pc = "dead"
    /\ \A v, w \in Workers : worker[v].chat = worker[w].chat /\ worker[v].chat # None => v = w

LineInv ==
    /\ ticket \in [Chats -> Nat]
    /\ queue \in [Chats -> Seq(Job) \cup {None}]
    /\ worker \in [Workers -> WorkerState]
    /\ WorkerInv

-----------------------------------------------------------------------------
(* What the state functions of the refinement do. *)

LEMMA NoneIsNothing == None \notin Seq(Job) /\ None \notin Job /\ None \notin Chats
  BY PipelineAssumption, NoneAssumption

LEMMA SeqIsFunction ==
    ASSUME NEW S, NEW s \in Seq(S)
    PROVE  s = [i \in 1..Len(s) |-> s[i]]
  OBVIOUS

\* The ranks of a sequence of jobs.
LEMMA RanksOf ==
    ASSUME NEW s \in Seq(Job), NEW r, r = [i \in 1..Len(s) |-> s[i].no]
    PROVE  r \in Seq(Nat) /\ Len(r) = Len(s)
<1>1. \A i \in 1..Len(s) : s[i] \in Job
  OBVIOUS
<1>2. \A i \in 1..Len(s) : s[i].no \in Nat
  BY <1>1 DEF Job
<1>3. Len(s) \in Nat
  OBVIOUS
<1>4. QED
  BY <1>2, <1>3

LEMMA AppendRanks ==
    ASSUME NEW s \in Seq(Job), NEW job \in Job, NEW r, r = [i \in 1..Len(s) |-> s[i].no]
    PROVE  [i \in 1..Len(Append(s, job)) |-> Append(s, job)[i].no] = Append(r, job.no)
<1>1. r \in Seq(Nat) /\ Len(r) = Len(s) /\ Len(s) \in Nat
  BY RanksOf
<1>2. job.no \in Nat
  BY DEF Job
<1>3. Append(r, job.no) = [i \in 1..Len(s) + 1 |-> Append(r, job.no)[i]]
  <2>1. Append(r, job.no) \in Seq(Nat) /\ Len(Append(r, job.no)) = Len(s) + 1
    BY <1>1, <1>2
  <2>2. QED
    BY <2>1, SeqIsFunction
<1>4. Len(Append(s, job)) = Len(s) + 1
  OBVIOUS
<1>5. ASSUME NEW i \in 1..Len(s) + 1
      PROVE  Append(s, job)[i].no = Append(r, job.no)[i]
  <2>1. CASE i = Len(s) + 1
    BY <1>1, <1>2, <2>1
  <2>2. CASE i # Len(s) + 1
    <3>1. i \in 1..Len(s)
      BY <1>1, <2>2
    <3>2. Append(s, job)[i] = s[i] /\ Append(r, job.no)[i] = r[i]
      BY <1>1, <1>2, <3>1
    <3>3. QED
      BY <3>1, <3>2
  <2>3. QED
    BY <2>1, <2>2
<1>6. QED
  BY <1>3, <1>4, <1>5

LEMMA JobsType ==
    ASSUME LineInv, NEW ch \in Chats
    PROVE  /\ Jobs(ch) \in Seq(Job)
           /\ queue[ch] # None => Jobs(ch) = queue[ch]
  BY DEF LineInv, Jobs

\* The worker of a chat is at its job, if it has one.
LEMMA OneJob ==
    ASSUME NEW f, NEW ch, NEW w \in Workers, f[w].chat = ch,
           \A v \in Workers : f[v].chat = ch => v = w
    PROVE  {f[v].job : v \in {u \in Workers : f[u].chat = ch}} \ {None} = {f[w].job} \ {None}
  OBVIOUS

LEMMA CurrentOf ==
    ASSUME LineInv, NEW ch \in Chats, NEW w \in Workers, worker[w].chat = ch
    PROVE  /\ \A v \in Workers : worker[v].chat = ch => v = w
           /\ Current(ch) = {worker[w].job} \ {None}
<1>1. \A v \in Workers : worker[v].chat = ch => v = w
  BY NoneIsNothing DEF LineInv, WorkerInv
<1>2. QED
  BY <1>1, OneJob DEF Current

\* A worker that stays with its chat takes a job, or ends it.
LEMMA WorkerMoves ==
    ASSUME LineInv, NEW w \in Workers, worker[w].chat # None,
           NEW pc \in {"wait", "map"}, NEW job \in Job \cup {None}, job = None <=> pc = "wait",
           worker' = [worker EXCEPT ![w] = [pc |-> pc, chat |-> worker[w].chat, job |-> job]],
           \A c \in Chats : queue[c] # None => queue'[c] # None
    PROVE  /\ worker' \in [Workers -> WorkerState]
           /\ WorkerInv'
           /\ worker[w].chat \in Chats
           /\ \A c \in Chats :
                 Current(c)' = IF c = worker[w].chat THEN {job} \ {None} ELSE Current(c)
<1> DEFINE ch == worker[w].chat
<1>1. ch \in Chats
  BY DEF LineInv, WorkerState
<1>2. /\ worker' \in [Workers -> WorkerState]
      /\ worker'[w] = [pc |-> pc, chat |-> ch, job |-> job]
      /\ \A v \in Workers : v # w => worker'[v] = worker[v]
  BY <1>1 DEF LineInv, WorkerState
<1>3. \A v \in Workers : worker'[v].chat = worker[v].chat
  BY <1>2
<1>4. ASSUME NEW v \in Workers
      PROVE  /\ worker'[v].pc = "dead" => worker'[v] = Dead
             /\ worker'[v].chat # None => queue'[worker'[v].chat] # None
             /\ worker'[v].job = None <=> worker'[v].pc \in {"dead", "wait"}
             /\ worker'[v].chat = None <=> worker'[v].pc = "dead"
  <2>1. worker'[v].chat # None => queue'[worker'[v].chat] # None
    BY <1>3 DEF LineInv, WorkerInv, WorkerState
  <2>2. CASE v = w
    BY <1>2, <2>1, <2>2
  <2>3. CASE v # w
    BY <1>2, <2>1, <2>3 DEF LineInv, WorkerInv
  <2>4. QED
    BY <2>2, <2>3
<1>5. \A u, v \in Workers : worker'[u].chat = worker'[v].chat /\ worker'[u].chat # None => u = v
  BY <1>3 DEF LineInv, WorkerInv
<1>6. WorkerInv'
  BY <1>4, <1>5 DEF WorkerInv, Dead
<1>7. \A c \in Chats : c = ch => Current(c)' = {job} \ {None}
  <2>1. \A v \in Workers : worker'[v].chat = ch => v = w
    BY <1>1, <1>3, CurrentOf
  <2>2. {worker'[v].job : v \in {u \in Workers : worker'[u].chat = ch}} \ {None} = {worker'[w].job} \ {None}
    BY <1>2, <2>1, OneJob
  <2>3. QED
    BY <1>2, <2>2 DEF Current
<1>8. \A c \in Chats : c # ch => Current(c)' = Current(c)
  BY <1>1, <1>2 DEF Current
<1>9. QED
  BY <1>1, <1>2, <1>6, <1>7, <1>8

-----------------------------------------------------------------------------
(* The invariant. *)

LEMMA InitLine == Init => LineInv
<1> SUFFICES ASSUME Init PROVE LineInv
  OBVIOUS
<1>1. Dead \in WorkerState
  BY DEF Dead, WorkerState
<1>2. QED
  BY <1>1 DEF Init, LineInv, WorkerInv, Dead

\* A worker goes on with its job.
LEMMA GoToLine ==
    ASSUME LineInv, NEW w \in Workers, worker[w].pc \notin {"dead", "wait"},
           NEW pc \in {"map", "unpublished", "invoke", "send", "failed", "timedOut", "alert"},
           GoTo(w, pc), UNCHANGED <<queue, ticket>>
    PROVE  LineInv' /\ UNCHANGED <<Line, InTurn>>
<1>1. /\ worker' \in [Workers -> WorkerState]
      /\ worker'[w].pc = pc
      /\ \A v \in Workers : worker'[v].chat = worker[v].chat /\ worker'[v].job = worker[v].job
      /\ \A v \in Workers : v # w => worker'[v] = worker[v]
  BY DEF GoTo, LineInv, WorkerState
<1>2. LineInv'
  BY <1>1 DEF LineInv, WorkerInv
<1>3. \A ch \in Chats : Current(ch)' = Current(ch)
  BY <1>1 DEF Current
<1>4. QED
  BY <1>2, <1>3 DEF Line, InTurn, Jobs

\* A worker ends its job.
LEMMA EndJobLine ==
    ASSUME LineInv, NEW w \in Workers, worker[w].pc \notin {"dead", "wait"},
           EndJob(w), UNCHANGED <<queue, ticket>>
    PROVE  LineInv' /\ Turns!Next
<1> DEFINE ch == worker[w].chat
<1>1. ch # None /\ worker' = [worker EXCEPT ![w] = [pc |-> "wait", chat |-> ch, job |-> None]]
  BY DEF LineInv, WorkerInv, EndJob
<1>2. /\ LineInv'
      /\ ch \in Chats
      /\ \A c \in Chats : Current(c)' = IF c = ch THEN {} ELSE Current(c)
  <2>1. {None} \ {None} = {}
    OBVIOUS
  <2>2. QED
    BY <1>1, <2>1, WorkerMoves DEF LineInv
<1>3. InTurn' = [InTurn EXCEPT ![ch] = {}]
  <2>1. {job.no : job \in {}} = {}
    OBVIOUS
  <2>2. ASSUME NEW c \in Chats
        PROVE  InTurn'[c] = IF c = ch THEN {} ELSE InTurn[c]
    <3>1. InTurn'[c] = {job.no : job \in Current(c)'} /\ InTurn[c] = {job.no : job \in Current(c)}
      BY DEF InTurn
    <3>2. CASE c = ch
      <4>1. Current(c)' = {}
        BY <1>2, <3>2
      <4>2. QED
        BY <2>1, <3>1, <3>2, <4>1
    <3>3. CASE c # ch
      <4>1. Current(c)' = Current(c)
        BY <1>2, <3>3
      <4>2. QED
        BY <3>1, <3>3, <4>1
    <3>4. QED
      BY <3>2, <3>3
  <2>3. QED
    BY <1>2, <2>2 DEF InTurn
<1>4. Line' = Line
  BY DEF Line, Jobs
<1>5. InTurn[ch] # {}
  <2>1. Current(ch) = {worker[w].job} \ {None} /\ worker[w].job # None
    BY <1>2, CurrentOf DEF LineInv, WorkerInv
  <2>2. worker[w].job \in Current(ch)
    BY <2>1
  <2>3. worker[w].job.no \in InTurn[ch]
    BY <1>2, <2>2 DEF InTurn
  <2>4. QED
    BY <2>3
<1>6. Turns!End(ch)
  BY <1>3, <1>4, <1>5 DEF Turns!End
<1>7. QED
  BY <1>2, <1>6 DEF Turns!Next

\* A worker takes the job at the head of its queue.
LEMMA TakeLine ==
    ASSUME LineInv, NEW w \in Workers, Take(w)
    PROVE  LineInv' /\ Turns!Next
<1> DEFINE ch == worker[w].chat
           job == Head(queue[ch])
<1>1. ch \in Chats /\ queue[ch] \in Seq(Job) /\ queue[ch] # <<>> /\ Jobs(ch) = queue[ch]
  BY DEF Take, LineInv, WorkerInv, WorkerState, Jobs
<1>2. job \in Job /\ Tail(queue[ch]) \in Seq(Job)
  BY <1>1
<1>3. /\ worker' = [worker EXCEPT ![w] = [pc |-> "map", chat |-> ch, job |-> job]]
      /\ queue' = [queue EXCEPT ![ch] = Tail(queue[ch])]
      /\ ticket' = ticket
  BY DEF Take, history
<1>4. /\ queue' \in [Chats -> Seq(Job) \cup {None}]
      /\ \A c \in Chats : queue[c] # None => queue'[c] # None
  BY <1>1, <1>2, <1>3, NoneIsNothing DEF LineInv
<1>5. /\ LineInv'
      /\ \A c \in Chats : Current(c)' = IF c = ch THEN {job} ELSE Current(c)
  <2>1. ch # None /\ job # None
    BY <1>1, <1>2, NoneIsNothing
  <2>2. {job} \ {None} = {job}
    BY <2>1
  <2>3. QED
    BY <1>2, <1>3, <1>4, <2>1, <2>2, WorkerMoves DEF LineInv
<1>7. Current(ch) = {}
  BY <1>1, CurrentOf DEF Take, LineInv, WorkerInv
<1>8. Len(queue[ch]) \in Nat \ {0} /\ Line[ch] = [i \in 1..Len(queue[ch]) |-> queue[ch][i].no]
  <2>1. Line[ch] = [i \in 1..Len(Jobs(ch)) |-> Jobs(ch)[i].no]
    BY <1>1 DEF Line
  <2>2. QED
    BY <1>1, <2>1
<1>9. Line[ch] \in Seq(Nat) /\ Len(Line[ch]) = Len(queue[ch])
  <2>1. \A i \in 1..Len(queue[ch]) : queue[ch][i] \in Job
    BY <1>1
  <2>2. \A i \in 1..Len(queue[ch]) : queue[ch][i].no \in Nat
    BY <2>1 DEF Job
  <2>3. QED
    BY <1>8, <2>2
<1>10. Line[ch] # <<>> /\ Head(Line[ch]) = job.no
  BY <1>1, <1>8, <1>9
<1>11. InTurn[ch] = {} /\ InTurn' = [InTurn EXCEPT ![ch] = {Head(Line[ch])}]
  <2>1. {j.no : j \in {}} = {} /\ {j.no : j \in {job}} = {job.no}
    OBVIOUS
  <2>2. InTurn[ch] = {}
    BY <1>1, <1>7, <2>1, Zenon DEF InTurn
  <2>3. ASSUME NEW c \in Chats
        PROVE  InTurn'[c] = IF c = ch THEN {job.no} ELSE InTurn[c]
    <3>1. InTurn'[c] = {j.no : j \in Current(c)'} /\ InTurn[c] = {j.no : j \in Current(c)}
      BY DEF InTurn
    <3>2. CASE c = ch
      <4>1. Current(c)' = {job}
        BY <1>5, <3>2
      <4>2. QED
        BY <2>1, <3>1, <3>2, <4>1
    <3>3. CASE c # ch
      <4>1. Current(c)' = Current(c)
        BY <1>5, <3>3
      <4>2. QED
        BY <3>1, <3>3, <4>1
    <3>4. QED
      BY <3>2, <3>3
  <2>4. InTurn' = [InTurn EXCEPT ![ch] = {job.no}]
    BY <1>1, <2>3 DEF InTurn
  <2>5. QED
    BY <1>10, <2>2, <2>4
<1>12. Line' = [Line EXCEPT ![ch] = Tail(Line[ch])]
  <2>1. \A c \in Chats : Jobs(c)' = IF c = ch THEN Tail(queue[ch]) ELSE Jobs(c)
    BY <1>1, <1>2, <1>3, NoneIsNothing DEF Jobs, LineInv
  <2>2. [i \in 1..Len(Tail(queue[ch])) |-> Tail(queue[ch])[i].no] = Tail(Line[ch])
    <3>1. Len(Tail(queue[ch])) = Len(queue[ch]) - 1 /\ Len(Tail(Line[ch])) = Len(queue[ch]) - 1
      BY <1>1, <1>8, <1>9
    <3>2. \A i \in 1..(Len(queue[ch]) - 1) :
             Tail(queue[ch])[i] = queue[ch][i + 1] /\ Tail(Line[ch])[i] = Line[ch][i + 1]
      BY <1>1, <1>8, <1>9
    <3>3. \A i \in 1..(Len(queue[ch]) - 1) : Line[ch][i + 1] = queue[ch][i + 1].no
      BY <1>1, <1>8
    <3>4. Tail(Line[ch]) \in Seq(Nat)
      BY <1>9, <1>10
    <3>5. Tail(Line[ch]) = [i \in 1..(Len(queue[ch]) - 1) |-> Tail(Line[ch])[i]]
      BY <3>1, <3>4, SeqIsFunction
    <3>6. \A i \in 1..(Len(queue[ch]) - 1) : Tail(Line[ch])[i] = Tail(queue[ch])[i].no
      BY <1>8, <3>2, <3>3
    <3>7. QED
      BY <3>1, <3>5, <3>6
  <2>3. QED
    BY <1>1, <2>1, <2>2 DEF Line
<1>13. Turns!Begin(ch)
  BY <1>3, <1>10, <1>11, <1>12 DEF Turns!Begin
<1>14. QED
  BY <1>1, <1>5, <1>13 DEF Turns!Next

\* The worker of a chat that has no queue yet is started without a job.
LEMMA EnsureWorkerLine ==
    ASSUME LineInv, NEW ch \in Chats, EnsureWorker(ch), queue'[ch] # None,
           \A c \in Chats : queue[c] # None => queue'[c] # None
    PROVE  /\ worker' \in [Workers -> WorkerState]
           /\ WorkerInv'
           /\ \A c \in Chats : Current(c)' = Current(c)
<1>1. CASE UNCHANGED worker
  <2>1. \A v \in Workers : worker[v].chat # None => worker[v].chat \in Chats
    BY DEF LineInv, WorkerState
  <2>2. WorkerInv'
    BY <1>1, <2>1 DEF LineInv, WorkerInv
  <2>3. QED
    BY <1>1, <2>2 DEF LineInv, Current
<1>2. ASSUME queue[ch] = None, NEW w \in Workers, worker[w] = Dead,
             worker' = [worker EXCEPT ![w] = [pc |-> "wait", chat |-> ch, job |-> None]]
      PROVE  /\ worker' \in [Workers -> WorkerState]
             /\ WorkerInv'
             /\ \A c \in Chats : Current(c)' = Current(c)
  <2>1. /\ worker' \in [Workers -> WorkerState]
        /\ worker'[w] = [pc |-> "wait", chat |-> ch, job |-> None]
        /\ \A v \in Workers : v # w => worker'[v] = worker[v]
    BY <1>2 DEF LineInv, WorkerState
  <2>2. /\ \A v \in Workers : worker[v].chat # ch
        /\ \A v \in Workers : worker[v].chat # None => worker[v].chat \in Chats
        /\ worker[w].chat = None /\ worker[w].job = None
    BY <1>2, NoneIsNothing DEF LineInv, WorkerInv, WorkerState, Dead
  <2>3. ASSUME NEW v \in Workers
        PROVE  /\ worker'[v].pc = "dead" => worker'[v] = Dead
               /\ worker'[v].chat # None => queue'[worker'[v].chat] # None
               /\ worker'[v].job = None <=> worker'[v].pc \in {"dead", "wait"}
               /\ worker'[v].chat = None <=> worker'[v].pc = "dead"
    <3>1. CASE v = w
      BY <2>1, <3>1, NoneIsNothing
    <3>2. CASE v # w
      BY <2>1, <2>2, <3>2 DEF LineInv, WorkerInv
    <3>3. QED
      BY <3>1, <3>2
  <2>4. \A u, v \in Workers : worker'[u].chat = worker'[v].chat /\ worker'[u].chat # None => u = v
    BY <2>1, <2>2 DEF LineInv, WorkerInv
  <2>5. WorkerInv'
    BY <2>3, <2>4 DEF WorkerInv, Dead
  <2>6. ASSUME NEW c \in Chats
        PROVE  Current(c)' = Current(c)
    <3>1. CASE c = ch
      <4>1. Current(ch) = {}
        BY <2>2 DEF Current
      <4>2. \A v \in Workers : worker'[v].chat = ch => worker'[v].job = None
        BY <2>1, <2>2
      <4>3. Current(c)' = {}
        BY <3>1, <4>2 DEF Current
      <4>4. QED
        BY <3>1, <4>1, <4>3
    <3>2. CASE c # ch
      <4>1. {v \in Workers : worker'[v].chat = c} = {v \in Workers : worker[v].chat = c}
        BY <2>1, <2>2, <3>2, NoneIsNothing
      <4>2. \A v \in Workers : worker[v].chat = c => worker'[v].job = worker[v].job
        BY <2>1, <2>2, NoneIsNothing
      <4>3. QED
        BY <4>1, <4>2 DEF Current
    <3>3. QED
      BY <3>1, <3>2
  <2>7. QED
    BY <2>1, <2>5, <2>6
<1>3. QED
  BY <1>1, <1>2 DEF EnsureWorker

\* An accepted event joins the line of its chat.
LEMMA AcceptLine ==
    ASSUME LineInv, NEW e \in Event, WebhookAccepted(e)
    PROVE  LineInv' /\ Turns!Next
<1> DEFINE ch == e[1]
           job == [event |-> e, no |-> ticket[ch] + 1]
<1>1. ch \in Chats
  BY DEF Event
<1>2. /\ Jobs(ch) \in Seq(Job)
      /\ ticket[ch] \in Nat
      /\ Len(Jobs(ch)) < QueueLimit
      /\ EnsureWorker(ch)
      /\ ticket' = [ticket EXCEPT ![ch] = @ + 1]
      /\ queue' = [queue EXCEPT ![ch] = Append(Jobs(ch), job)]
  BY <1>1, JobsType DEF WebhookAccepted, LineInv
<1>3. job \in Job /\ ticket' \in [Chats -> Nat]
  BY <1>1, <1>2 DEF Job, LineInv
<1>4. Append(Jobs(ch), job) \in Seq(Job) /\ Append(Jobs(ch), job) # None
  BY <1>2, <1>3, NoneIsNothing
<1>5. /\ queue' \in [Chats -> Seq(Job) \cup {None}]
      /\ queue'[ch] = Append(Jobs(ch), job) /\ queue'[ch] # None
      /\ \A c \in Chats : c # ch => queue'[c] = queue[c]
  BY <1>1, <1>2, <1>4 DEF LineInv
<1>6. /\ worker' \in [Workers -> WorkerState]
      /\ WorkerInv'
      /\ \A c \in Chats : Current(c)' = Current(c)
  <2>1. \A c \in Chats : queue[c] # None => queue'[c] # None
    BY <1>5
  <2>2. QED
    BY <1>1, <1>2, <1>5, <2>1, EnsureWorkerLine
<1>7. LineInv'
  BY <1>3, <1>5, <1>6 DEF LineInv
<1>8. InTurn' = InTurn
  BY <1>6 DEF InTurn
<1>9. Line' = [Line EXCEPT ![ch] = Append(Line[ch], ticket[ch] + 1)]
  <2>1. \A c \in Chats : Jobs(c)' = IF c = ch THEN Append(Jobs(ch), job) ELSE Jobs(c)
    BY <1>5 DEF Jobs
  <2>2. Line[ch] = [i \in 1..Len(Jobs(ch)) |-> Jobs(ch)[i].no]
    BY <1>1 DEF Line
  <2>3. [i \in 1..Len(Append(Jobs(ch), job)) |-> Append(Jobs(ch), job)[i].no]
          = Append(Line[ch], ticket[ch] + 1)
    BY <1>2, <1>3, <2>2, AppendRanks
  <2>4. QED
    BY <1>1, <2>1, <2>3 DEF Line
<1>10. Len(Line[ch]) < QueueLimit
  <2>1. Line[ch] = [i \in 1..Len(Jobs(ch)) |-> Jobs(ch)[i].no]
    BY <1>1 DEF Line
  <2>2. QED
    BY <1>2, <2>1, RanksOf
<1>11. Turns!Accept(ch)
  BY <1>2, <1>8, <1>9, <1>10 DEF Turns!Accept
<1>12. QED
  BY <1>1, <1>7, <1>11 DEF Turns!Next

\* A restart loses the line and the turns under way.
LEMMA RestartLine ==
    ASSUME LineInv, Restart
    PROVE  LineInv' /\ Turns!Next
<1>1. Dead \in WorkerState /\ Dead.chat = None /\ Dead.pc = "dead" /\ Dead.job = None
  BY DEF Dead, WorkerState
<1>2. LineInv'
  BY <1>1 DEF LineInv, WorkerInv, Restart
<1>3. \A c \in Chats : Jobs(c)' = <<>>
  BY DEF Restart, Jobs
<1>4. \A c \in Chats : Current(c)' = {}
  BY <1>1 DEF Restart, Current
<1>5. Line' = [c \in Chats |-> <<>>]
  BY <1>3 DEF Line
<1>6. InTurn' = [c \in Chats |-> {}]
  BY <1>4 DEF InTurn
<1>7. Turns!Lose
  BY <1>5, <1>6 DEF Turns!Lose, Restart
<1>8. QED
  BY <1>2, <1>7 DEF Turns!Next

\* Everything else leaves the lines and the turns alone.
LEMMA OtherLine ==
    ASSUME LineInv, UNCHANGED <<queue, ticket, worker>>
    PROVE  LineInv' /\ UNCHANGED Turns!vars
<1>1. LineInv'
  BY DEF LineInv, WorkerInv
<1>2. UNCHANGED <<Line, InTurn>>
  BY DEF Line, InTurn, Jobs, Current
<1>3. QED
  BY <1>1, <1>2 DEF Turns!vars

-----------------------------------------------------------------------------
(* The refinement. *)

\* The detailed pipeline starts as the abstract one does.
LEMMA InitTurns == Init => Turns!Init
<1> SUFFICES ASSUME Init PROVE Turns!Init
  OBVIOUS
<1>1. \A c \in Chats : Jobs(c) = <<>>
  BY DEF Init, Jobs
<1>2. \A c \in Chats : Current(c) = {}
  BY DEF Init, Current, Dead
<1>3. Line = [c \in Chats |-> <<>>]
  BY <1>1 DEF Line
<1>4. InTurn = [c \in Chats |-> {}]
  BY <1>2 DEF InTurn
<1>5. QED
  BY <1>3, <1>4 DEF Init, Turns!Init

LEMMA WebhookLine ==
    ASSUME LineInv, NEW e \in Event, WebhookNext(e) \/ BusyReply(e)
    PROVE  LineInv' /\ [Turns!Next]_(Turns!vars)
<1>1. CASE WebhookAccepted(e)
  BY <1>1, AcceptLine
<1>2. CASE WebhookRefused(e) \/ WebhookDuplicate(e) \/ WebhookRejected(e) \/ BusyReply(e)
  <2>1. UNCHANGED <<queue, ticket, worker>>
    BY <1>2 DEF WebhookRefused, WebhookDuplicate, WebhookRejected, BusyReply, history
  <2>2. QED
    BY <2>1, OtherLine
<1>3. QED
  BY <1>1, <1>2 DEF WebhookNext

LEMMA WorkerLine ==
    ASSUME LineInv, NEW w \in Workers, WorkerNext(w)
    PROVE  LineInv' /\ [Turns!Next]_(Turns!vars)
<1>1. CASE Take(w)
  BY <1>1, TakeLine
<1>2. CASE StartAgent(w) \/ NotPublished(w) \/ AgentAnswers(w) \/ ProcessFails(w)
           \/ ProcessTimesOut(w) \/ FailureReply(w)
  <2>1. worker[w].pc \notin {"dead", "wait"} /\ UNCHANGED <<queue, ticket>>
    BY <1>2 DEF StartAgent, NotPublished, AgentAnswers, ProcessFails, ProcessTimesOut,
                FailureReply, history
  <2>2. \E pc \in {"map", "unpublished", "invoke", "send", "failed", "timedOut", "alert"} :
           GoTo(w, pc)
    BY <1>2 DEF StartAgent, NotPublished, AgentAnswers, ProcessFails, ProcessTimesOut,
                FailureReply
  <2>3. LineInv' /\ UNCHANGED <<Line, InTurn>>
    BY <2>1, <2>2, GoToLine
  <2>4. UNCHANGED Turns!vars
    BY <2>1, <2>3 DEF Turns!vars
  <2>5. QED
    BY <2>3, <2>4
<1>3. CASE UnpublishedReply(w) \/ AgentSilent(w) \/ SendAnswer(w) \/ Alert(w)
           \/ TimeoutReply(w)
  <2>1. /\ worker[w].pc \notin {"dead", "wait"}
        /\ EndJob(w)
        /\ UNCHANGED <<queue, ticket>>
    BY <1>3 DEF UnpublishedReply, AgentSilent, SendAnswer, Alert, TimeoutReply
  <2>2. QED
    BY <2>1, EndJobLine
<1>4. QED
  BY <1>1, <1>2, <1>3 DEF WorkerNext

LEMMA NextLine == LineInv /\ [Next]_vars => LineInv' /\ [Turns!Next]_(Turns!vars)
<1> SUFFICES ASSUME LineInv, [Next]_vars
             PROVE  LineInv' /\ [Turns!Next]_(Turns!vars)
  OBVIOUS
<1>1. CASE \E e \in Event : WebhookNext(e) \/ BusyReply(e)
  BY <1>1, WebhookLine
<1>2. CASE \E w \in Workers : WorkerNext(w)
  BY <1>2, WorkerLine
<1>3. CASE Restart
  BY <1>3, RestartLine
<1>4. CASE \/ \E enabled \in BOOLEAN : CreateConnector(enabled) \/ UpdateConnector(enabled)
           \/ DeleteConnector \/ Publish \/ Unpublish \/ DeleteAgent \/ Age
           \/ UNCHANGED vars
  <2>1. UNCHANGED <<queue, ticket, worker>>
    BY <1>4 DEF CreateConnector, UpdateConnector, DeleteConnector, Publish, Unpublish,
                DeleteAgent, Age, pipeline, history, vars
  <2>2. QED
    BY <2>1, OtherLine
<1>5. QED
  BY <1>1, <1>2, <1>3, <1>4 DEF Next

\* A chat keeps one worker: every job that is being processed belongs to it.
THEOREM LineAlways == Spec => []LineInv
<1>1. LineInv /\ [Next]_vars => LineInv'
  BY NextLine
<1>2. QED
  BY <1>1, InitLine, PTL DEF Spec

\* The pipeline, with its queues created on the fly, its worker coroutines,
\* their failures, timeouts and the restarts of the process, implements lines
\* whose members take their turns one at a time in the order of acceptance.
THEOREM Implements == Spec => ImplementsTurns
<1>1. LineInv /\ [Next]_vars => LineInv' /\ [Turns!Next]_(Turns!vars)
  BY NextLine
<1>2. QED
  BY <1>1, InitLine, InitTurns, PTL DEF Spec, ImplementsTurns, Turns!Spec

-----------------------------------------------------------------------------
(* The table of the events that were seen. *)

LEMMA RemoveAtFacts ==
    ASSUME NEW S, NEW s \in Seq(S), NEW i \in 1..Len(s)
    PROVE  /\ RemoveAt(s, i) \in Seq(S)
           /\ Len(RemoveAt(s, i)) = Len(s) - 1
           /\ \A k \in 1..(Len(s) - 1) : RemoveAt(s, i)[k] = IF k < i THEN s[k] ELSE s[k + 1]
<1> DEFINE a == SubSeq(s, 1, i - 1)
           b == SubSeq(s, i + 1, Len(s))
<1>1. Len(s) \in Nat /\ i \in Nat /\ \A k \in 1..Len(s) : s[k] \in S
  OBVIOUS
<1>2. /\ a \in Seq(S) /\ Len(a) = i - 1
      /\ \A k \in 1..(i - 1) : a[k] = s[k]
  <2>1. 1 \in Int /\ i - 1 \in Int /\ \A k \in 1..(i - 1) : s[k] \in S
    BY <1>1
  <2>2. /\ a \in Seq(S) /\ Len(a) = IF 1 <= i - 1 THEN i - 1 - 1 + 1 ELSE 0
        /\ \A k \in 1..(i - 1 - 1 + 1) : a[k] = s[1 + k - 1]
    BY <2>1, SubSeqProperties
  <2>3. QED
    BY <1>1, <2>2
<1>3. /\ b \in Seq(S) /\ Len(b) = Len(s) - i
      /\ \A k \in 1..(Len(s) - i) : b[k] = s[i + k]
  <2>1. i + 1 \in Int /\ Len(s) \in Int /\ \A k \in (i + 1)..Len(s) : s[k] \in S
    BY <1>1
  <2>2. /\ b \in Seq(S) /\ Len(b) = IF i + 1 <= Len(s) THEN Len(s) - (i + 1) + 1 ELSE 0
        /\ \A k \in 1..(Len(s) - (i + 1) + 1) : b[k] = s[i + 1 + k - 1]
    BY <2>1, SubSeqProperties
  <2>3. QED
    BY <1>1, <2>2
<1>4. RemoveAt(s, i) = a \o b
  BY DEF RemoveAt
<1> HIDE DEF a, b
<1>5. /\ a \o b \in Seq(S) /\ Len(a \o b) = Len(a) + Len(b)
      /\ \A k \in 1..(Len(a) + Len(b)) : (a \o b)[k] = IF k <= Len(a) THEN a[k] ELSE b[k - Len(a)]
  BY <1>2, <1>3, ConcatProperties
<1>6. ASSUME NEW k \in 1..(Len(s) - 1)
      PROVE  (a \o b)[k] = IF k < i THEN s[k] ELSE s[k + 1]
  <2>1. CASE k < i
    BY <1>1, <1>2, <1>3, <1>5, <2>1
  <2>2. CASE ~(k < i)
    <3>1. (a \o b)[k] = b[k - (i - 1)] /\ k - (i - 1) \in 1..(Len(s) - i)
      BY <1>1, <1>2, <1>3, <1>5, <2>2
    <3>2. b[k - (i - 1)] = s[i + (k - (i - 1))] /\ i + (k - (i - 1)) = k + 1
      BY <1>1, <1>3, <3>1
    <3>3. QED
      BY <1>1, <2>2, <3>1, <3>2
  <2>3. QED
    BY <2>1, <2>2
<1>7. QED
  BY <1>1, <1>2, <1>3, <1>4, <1>5, <1>6

\* A member of a sequence without repetitions is gone once it is removed.
LEMMA WithoutFacts ==
    ASSUME NEW S, NEW s \in Seq(S), IsInjective(s), NEW e \in ToSet(s)
    PROVE  /\ Without(s, e) \in Seq(S)
           /\ Len(Without(s, e)) = Len(s) - 1
           /\ IsInjective(Without(s, e))
           /\ ToSet(Without(s, e)) = ToSet(s) \ {e}
<1> DEFINE i == CHOOSE k \in DOMAIN s : s[k] = e
           r == Without(s, e)
<1>1. Len(s) \in Nat /\ DOMAIN s = 1..Len(s)
  OBVIOUS
<1>2. i \in 1..Len(s) /\ s[i] = e
  BY <1>1 DEF ToSet
<1>3. /\ r \in Seq(S) /\ Len(r) = Len(s) - 1
      /\ \A k \in 1..(Len(s) - 1) : r[k] = IF k < i THEN s[k] ELSE s[k + 1]
  <2>1. r = RemoveAt(s, i)
    BY DEF Without
  <2> HIDE DEF i, r
  <2>2. QED
    BY <1>2, <2>1, RemoveAtFacts
<1> HIDE DEF i, r
<1>4. \A j, k \in 1..Len(s) : s[j] = s[k] => j = k
  BY <1>1 DEF IsInjective
<1>5. DOMAIN r = 1..(Len(s) - 1)
  BY <1>3
<1>6. IsInjective(r)
  <2>1. ASSUME NEW j \in 1..(Len(s) - 1), NEW k \in 1..(Len(s) - 1), r[j] = r[k]
        PROVE  j = k
    <3>1. /\ j \in 1..Len(s) /\ j + 1 \in 1..Len(s) /\ k \in 1..Len(s) /\ k + 1 \in 1..Len(s)
          /\ i \in Int /\ j \in Int /\ k \in Int
      BY <1>1, <1>2
    <3>2. CASE j < i /\ k < i
      BY <1>3, <1>4, <2>1, <3>1, <3>2
    <3>3. CASE ~(j < i) /\ ~(k < i)
      <4>1. s[j + 1] = s[k + 1]
        BY <1>3, <2>1, <3>3
      <4>2. QED
        BY <1>4, <3>1, <4>1
    <3>4. CASE j < i /\ ~(k < i)
      <4>1. s[j] = s[k + 1]
        BY <1>3, <2>1, <3>4
      <4>2. QED
        BY <1>4, <3>1, <3>4, <4>1
    <3>5. CASE ~(j < i) /\ k < i
      <4>1. s[j + 1] = s[k]
        BY <1>3, <2>1, <3>5
      <4>2. QED
        BY <1>4, <3>1, <3>5, <4>1
    <3>6. QED
      BY <3>2, <3>3, <3>4, <3>5
  <2>2. QED
    BY <1>5, <2>1 DEF IsInjective
<1>7. ASSUME NEW x \in ToSet(r)
      PROVE  x \in ToSet(s) \ {e}
  <2>1. PICK k \in 1..(Len(s) - 1) : r[k] = x
    BY <1>5, <1>7 DEF ToSet
  <2>2. \E l \in 1..Len(s) : l # i /\ s[l] = x
    BY <1>1, <1>2, <1>3, <2>1
  <2>3. QED
    BY <1>1, <1>2, <1>4, <2>2 DEF ToSet
<1>8. ASSUME NEW x \in ToSet(s) \ {e}
      PROVE  x \in ToSet(r)
  <2>1. PICK l \in 1..Len(s) : s[l] = x /\ l # i
    BY <1>1, <1>2, <1>8 DEF ToSet
  <2>2. \E k \in 1..(Len(s) - 1) : r[k] = x
    <3>1. CASE l < i
      BY <1>1, <1>2, <1>3, <2>1, <3>1
    <3>2. CASE l > i
      <4>1. l - 1 \in 1..(Len(s) - 1) /\ r[l - 1] = s[l - 1 + 1]
        BY <1>1, <1>2, <1>3, <3>2
      <4>2. l - 1 + 1 = l
        BY <1>1
      <4>3. QED
        BY <2>1, <4>1, <4>2
    <3>3. QED
      BY <1>1, <1>2, <2>1, <3>1, <3>2
  <2>3. QED
    BY <1>5, <2>2 DEF ToSet
<1>9. QED
  BY <1>3, <1>6, <1>7, <1>8 DEF r

LEMMA AppendFacts ==
    ASSUME NEW S, NEW s \in Seq(S), IsInjective(s), NEW e \in S, e \notin ToSet(s)
    PROVE  /\ Append(s, e) \in Seq(S)
           /\ Len(Append(s, e)) = Len(s) + 1
           /\ IsInjective(Append(s, e))
           /\ ToSet(Append(s, e)) = ToSet(s) \cup {e}
<1> DEFINE r == Append(s, e)
<1>1. Len(s) \in Nat /\ DOMAIN s = 1..Len(s)
  OBVIOUS
<1>2. /\ r \in Seq(S) /\ Len(r) = Len(s) + 1 /\ DOMAIN r = 1..(Len(s) + 1)
      /\ \A k \in 1..Len(s) : r[k] = s[k]
      /\ r[Len(s) + 1] = e
  OBVIOUS
<1> HIDE DEF r
<1>3. \A k \in 1..Len(s) : s[k] # e
  BY <1>1 DEF ToSet
<1>4. \A j, k \in 1..Len(s) : s[j] = s[k] => j = k
  BY <1>1 DEF IsInjective
<1>5. \A k \in 1..(Len(s) + 1) : k \in 1..Len(s) \/ k = Len(s) + 1
  BY <1>1
<1>6. IsInjective(r)
  <2>1. \A j, k \in 1..(Len(s) + 1) : r[j] = r[k] => j = k
    BY <1>2, <1>3, <1>4, <1>5
  <2>2. QED
    BY <1>2, <2>1 DEF IsInjective
<1>7. ToSet(r) = ToSet(s) \cup {e}
  <2>1. \A x \in ToSet(r) : x \in ToSet(s) \cup {e}
    BY <1>1, <1>2, <1>5 DEF ToSet
  <2>2. \A k \in 1..Len(s) : k \in 1..(Len(s) + 1) /\ Len(s) + 1 \in 1..(Len(s) + 1)
    BY <1>1
  <2>3. Len(s) + 1 \in 1..(Len(s) + 1)
    BY <1>1
  <2>4. \A x \in ToSet(s) \cup {e} : x \in ToSet(r)
    BY <1>1, <1>2, <2>2, <2>3 DEF ToSet
  <2>5. QED
    BY <2>1, <2>4
<1>8. QED
  BY <1>2, <1>6, <1>7 DEF r

LEMMA TailFacts ==
    ASSUME NEW S, NEW s \in Seq(S), IsInjective(s), s # <<>>
    PROVE  /\ Tail(s) \in Seq(S) /\ Len(Tail(s)) = Len(s) - 1
           /\ Head(s) \in ToSet(s)
           /\ IsInjective(Tail(s))
           /\ ToSet(Tail(s)) = ToSet(s) \ {Head(s)}
<1> DEFINE r == Tail(s)
<1>1. Len(s) \in Nat \ {0} /\ DOMAIN s = 1..Len(s) /\ Head(s) = s[1]
  OBVIOUS
<1>2. /\ r \in Seq(S) /\ Len(r) = Len(s) - 1 /\ DOMAIN r = 1..(Len(s) - 1)
      /\ \A k \in 1..(Len(s) - 1) : r[k] = s[k + 1]
  BY <1>1
<1> HIDE DEF r
<1>3. \A j, k \in 1..Len(s) : s[j] = s[k] => j = k
  BY <1>1 DEF IsInjective
<1>4. IsInjective(r)
  <2>1. ASSUME NEW j \in 1..(Len(s) - 1), NEW k \in 1..(Len(s) - 1), r[j] = r[k]
        PROVE  j = k
    BY <1>1, <1>2, <1>3, <2>1
  <2>2. QED
    BY <1>2, <2>1 DEF IsInjective
<1>5. ASSUME NEW x \in ToSet(r)
      PROVE  x \in ToSet(s) \ {s[1]}
  <2>1. PICK k \in 1..(Len(s) - 1) : r[k] = x
    BY <1>2, <1>5 DEF ToSet
  <2>2. k + 1 \in 1..Len(s) /\ 1 \in 1..Len(s) /\ k + 1 # 1 /\ s[k + 1] = x
    BY <1>1, <1>2, <2>1
  <2>3. QED
    BY <1>1, <1>3, <2>2 DEF ToSet
<1>6. ASSUME NEW x \in ToSet(s) \ {s[1]}
      PROVE  x \in ToSet(r)
  <2>1. PICK k \in 1..Len(s) : s[k] = x
    BY <1>1, <1>6 DEF ToSet
  <2>2. k # 1
    BY <1>6, <2>1
  <2>3. k - 1 \in 1..(Len(s) - 1) /\ r[k - 1] = s[k - 1 + 1] /\ k - 1 + 1 = k
    BY <1>1, <1>2, <2>1, <2>2
  <2>4. QED
    BY <1>2, <2>1, <2>3 DEF ToSet
<1>7. s[1] \in ToSet(s)
  BY <1>1 DEF ToSet
<1>8. QED
  BY <1>1, <1>2, <1>4, <1>5, <1>6, <1>7 DEF r

\* The table holds its entries in two orders, that of eviction and that of
\* expiry, and never more of them than its capacity.
TableInv ==
    /\ seen \in Seq(Event) /\ Len(seen) <= Capacity /\ IsInjective(seen)
    /\ young \in Seq(Event) /\ IsInjective(young) /\ ToSet(young) = ToSet(seen)

\* What leaves the table is noted as forgotten.
Noted ==
    /\ ToSet(seen) \subseteq ToSet(seen)' \cup forgotten'
    /\ forgotten \subseteq forgotten'

LEMMA AgeTable ==
    ASSUME TableInv, Age
    PROVE  TableInv' /\ Noted /\ ToSet(seen)' \subseteq ToSet(seen)
<1> DEFINE e == Head(young)
<1>1. /\ Tail(young) \in Seq(Event)
      /\ e \in ToSet(young) /\ IsInjective(Tail(young))
      /\ ToSet(Tail(young)) = ToSet(young) \ {e}
  BY TailFacts DEF TableInv, Age
<1>2. seen' = Without(seen, e) /\ young' = Tail(young) /\ forgotten' = forgotten \cup {e}
  BY DEF Age
<1> HIDE DEF e
<1>3. /\ Without(seen, e) \in Seq(Event)
      /\ Len(Without(seen, e)) = Len(seen) - 1
      /\ IsInjective(Without(seen, e))
      /\ ToSet(Without(seen, e)) = ToSet(seen) \ {e}
  BY <1>1, WithoutFacts DEF TableInv
<1>4. Len(seen) \in Nat /\ Len(seen') <= Capacity
  BY <1>2, <1>3, PipelineAssumption DEF TableInv
<1>5. ToSet(seen)' = ToSet(seen) \ {e} /\ ToSet(young)' = ToSet(young) \ {e}
  BY <1>1, <1>2, <1>3 DEF ToSet
<1>6. IsInjective(seen)' /\ IsInjective(young)'
  BY <1>1, <1>2, <1>3 DEF IsInjective
<1>7. TableInv'
  BY <1>1, <1>2, <1>3, <1>4, <1>5, <1>6 DEF TableInv
<1>8. QED
  BY <1>2, <1>5, <1>7 DEF Noted

LEMMA SeenAgainTable ==
    ASSUME TableInv, NEW e \in Event, SeenAgain(e)
    PROVE  TableInv' /\ Noted /\ ToSet(seen)' = ToSet(seen)
<1> DEFINE r == Without(seen, e)
<1>1. e \in ToSet(seen) /\ seen' = Append(r, e) /\ young' = young /\ forgotten' = forgotten
  BY DEF SeenAgain
<1>2. r \in Seq(Event) /\ Len(r) = Len(seen) - 1 /\ IsInjective(r) /\ ToSet(r) = ToSet(seen) \ {e}
  BY <1>1, WithoutFacts DEF TableInv
<1> HIDE DEF r
<1>3. /\ Append(r, e) \in Seq(Event)
      /\ Len(Append(r, e)) = Len(r) + 1
      /\ IsInjective(Append(r, e))
      /\ ToSet(Append(r, e)) = ToSet(r) \cup {e}
  BY <1>2, AppendFacts
<1>4. Len(seen) \in Nat /\ Len(seen') <= Capacity
  BY <1>1, <1>2, <1>3, PipelineAssumption DEF TableInv
<1>5. ToSet(seen)' = ToSet(seen) /\ ToSet(young)' = ToSet(young)
  <2>1. ToSet(seen)' = ToSet(Append(r, e)) /\ ToSet(young)' = ToSet(young)
    BY <1>1 DEF ToSet
  <2>2. QED
    BY <1>1, <1>2, <1>3, <2>1
<1>6. IsInjective(seen)' /\ IsInjective(young)'
  <2>1. IsInjective(seen)' = IsInjective(Append(r, e)) /\ IsInjective(young)' = IsInjective(young)
    BY <1>1 DEF IsInjective
  <2>2. QED
    BY <1>3, <2>1 DEF TableInv
<1>7. TableInv'
  BY <1>1, <1>2, <1>3, <1>4, <1>5, <1>6 DEF TableInv
<1>8. QED
  BY <1>1, <1>5, <1>7 DEF Noted

LEMMA FirstSeenTable ==
    ASSUME TableInv, NEW e \in Event, FirstSeen(e)
    PROVE  /\ TableInv' /\ Noted
           /\ e \notin ToSet(seen)
           /\ e \in ToSet(seen)'
           /\ ToSet(seen)' \subseteq ToSet(seen) \cup {e}
<1> DEFINE full == Append(seen, e)
           late == Append(young, e)
<1>1. e \notin ToSet(seen) /\ Len(seen) \in Nat /\ Capacity \in Nat \ {0}
  BY PipelineAssumption DEF FirstSeen, TableInv
<1>2. /\ full \in Seq(Event) /\ Len(full) = Len(seen) + 1
      /\ IsInjective(full) /\ ToSet(full) = ToSet(seen) \cup {e}
  BY <1>1, AppendFacts DEF TableInv
<1>3. late \in Seq(Event) /\ IsInjective(late) /\ ToSet(late) = ToSet(seen) \cup {e}
  BY <1>1, AppendFacts DEF TableInv
<1>4. CASE Len(full) > Capacity
  <2> DEFINE h == Head(full)
  <2>1. seen' = Tail(full) /\ young' = Without(late, h) /\ forgotten' = forgotten \cup {h}
    BY <1>4 DEF FirstSeen
  <2>2. seen # <<>> /\ h = Head(seen) /\ h \in ToSet(seen) /\ full # <<>>
    <3>1. seen # <<>>
      BY <1>1, <1>2, <1>4
    <3>2. h = Head(seen) /\ full # <<>>
      BY <3>1 DEF TableInv
    <3>3. Head(seen) \in ToSet(seen)
      BY <3>1, TailFacts DEF TableInv
    <3>4. QED
      BY <3>1, <3>2, <3>3
  <2>3. /\ Tail(full) \in Seq(Event) /\ Len(Tail(full)) = Len(full) - 1
        /\ IsInjective(Tail(full)) /\ ToSet(Tail(full)) = ToSet(full) \ {h}
    BY <1>2, <2>2, TailFacts
  <2> HIDE DEF full, late, h
  <2>4. /\ Without(late, h) \in Seq(Event) /\ IsInjective(Without(late, h))
        /\ ToSet(Without(late, h)) = ToSet(late) \ {h}
    BY <1>3, <2>2, WithoutFacts
  <2>5. seen' \in Seq(Event) /\ Len(seen') <= Capacity /\ young' \in Seq(Event)
    BY <1>1, <1>2, <2>1, <2>3, <2>4 DEF TableInv
  <2>6. ToSet(seen)' = (ToSet(seen) \cup {e}) \ {h} /\ ToSet(young)' = ToSet(seen)'
    <3>1. ToSet(seen)' = ToSet(Tail(full)) /\ ToSet(young)' = ToSet(Without(late, h))
      BY <2>1 DEF ToSet
    <3>2. QED
      BY <1>2, <1>3, <2>3, <2>4, <3>1
  <2>7. IsInjective(seen)' /\ IsInjective(young)'
    <3>1. /\ IsInjective(seen)' = IsInjective(Tail(full))
          /\ IsInjective(young)' = IsInjective(Without(late, h))
      BY <2>1 DEF IsInjective
    <3>2. QED
      BY <2>3, <2>4, <3>1
  <2>8. TableInv'
    BY <2>5, <2>6, <2>7 DEF TableInv
  <2>9. QED
    BY <1>1, <2>1, <2>2, <2>6, <2>8 DEF Noted
<1>5. CASE ~(Len(full) > Capacity)
  <2>1. seen' = full /\ young' = late /\ forgotten' = forgotten
    BY <1>5 DEF FirstSeen
  <2> HIDE DEF full, late
  <2>2. seen' \in Seq(Event) /\ Len(seen') <= Capacity /\ young' \in Seq(Event)
    BY <1>1, <1>2, <1>3, <1>5, <2>1
  <2>3. ToSet(seen)' = ToSet(seen) \cup {e} /\ ToSet(young)' = ToSet(seen)'
    <3>1. ToSet(seen)' = ToSet(full) /\ ToSet(young)' = ToSet(late)
      BY <2>1 DEF ToSet
    <3>2. QED
      BY <1>2, <1>3, <3>1
  <2>4. IsInjective(seen)' /\ IsInjective(young)'
    <3>1. IsInjective(seen)' = IsInjective(full) /\ IsInjective(young)' = IsInjective(late)
      BY <2>1 DEF IsInjective
    <3>2. QED
      BY <1>2, <1>3, <3>1
  <2>5. TableInv'
    BY <2>2, <2>3, <2>4 DEF TableInv
  <2>6. QED
    BY <1>1, <2>1, <2>3, <2>5 DEF Noted
<1>6. QED
  BY <1>4, <1>5

LEMMA EmptyTable ==
    ASSUME seen' = <<>>, young' = <<>>
    PROVE  TableInv' /\ ToSet(seen)' = {}
<1>1. ToSet(seen)' = {} /\ ToSet(young)' = {}
  BY DEF ToSet
<1>2. IsInjective(seen)' /\ IsInjective(young)'
  BY DEF IsInjective
<1>3. QED
  BY <1>1, <1>2, PipelineAssumption DEF TableInv

LEMMA SameTable ==
    ASSUME TableInv, UNCHANGED <<seen, young, forgotten>>
    PROVE  TableInv' /\ Noted /\ ToSet(seen)' = ToSet(seen)
  BY DEF TableInv, Noted, ToSet, IsInjective

-----------------------------------------------------------------------------
(* How often an event may yet be handled. *)

\* A job lies in the queue, or with the worker, of the chat of its event.
JobsInv ==
    /\ \A ch \in Chats : \A i \in DOMAIN Jobs(ch) : Jobs(ch)[i].event[1] = ch
    /\ \A w \in Workers : worker[w].job # None => worker[w].job.event[1] = worker[w].chat

Places(s, e) == {i \in DOMAIN s : s[i].event = e}

\* A worker is about to run the agent on e.
Starting(e) == \E w \in Workers : worker[w].pc = "map" /\ worker[w].job.event = e

\* The runs of the agent on e, and the jobs that may still lead to one.
Due(e) ==
    Cardinality(Places(Jobs(e[1]), e)) + (IF Starting(e) THEN 1 ELSE 0) + handled[e]

\* Every run goes back to a delivery of its own; and what was not forgotten
\* was registered before it was queued, once.
DueInv ==
    \A e \in Event :
        /\ Due(e) <= delivered[e]
        /\ e \notin forgotten => Due(e) <= IF e \in ToSet(seen) THEN 1 ELSE 0

LEMMA PlacesFinite ==
    ASSUME NEW s \in Seq(Job), NEW e
    PROVE  IsFiniteSet(Places(s, e)) /\ Cardinality(Places(s, e)) \in Nat
<1>1. Len(s) \in Int /\ DOMAIN s = 1..Len(s) /\ 1 \in Int
  OBVIOUS
<1>2. IsFiniteSet(1..Len(s))
  BY <1>1, FS_Interval
<1>3. Places(s, e) \in SUBSET (1..Len(s))
  BY <1>1 DEF Places
<1> DEFINE P == Places(s, e)
<1> HIDE DEF P
<1>4. IsFiniteSet(P)
  BY <1>2, <1>3, FS_Subset DEF P
<1>5. Cardinality(P) \in Nat
  BY <1>4, FS_CardinalityType
<1>6. QED
  BY <1>4, <1>5 DEF P

LEMMA NoPlaces == \A e : Cardinality(Places(<<>>, e)) = 0
<1>1. \A e : Places(<<>>, e) = {}
  BY DEF Places
<1>2. QED
  BY <1>1, FS_EmptySet

LEMMA AppendPlaces ==
    ASSUME NEW s \in Seq(Job), NEW job \in Job, NEW e
    PROVE  Cardinality(Places(Append(s, job), e))
             = Cardinality(Places(s, e)) + IF job.event = e THEN 1 ELSE 0
<1> DEFINE P == Places(s, e)
           Q == Places(Append(s, job), e)
           n == Len(s) + 1
<1>1. IsFiniteSet(P) /\ Cardinality(P) \in Nat
  BY PlacesFinite
<1>2. Len(s) \in Nat /\ DOMAIN s = 1..Len(s) /\ DOMAIN Append(s, job) = 1..n
  OBVIOUS
<1>3. (\A i \in 1..Len(s) : Append(s, job)[i] = s[i]) /\ Append(s, job)[n] = job
  OBVIOUS
<1>4. 1..n = (1..Len(s)) \cup {n}
  BY <1>2
<1>5. n \notin P
  BY <1>2 DEF Places
<1>6. CASE job.event = e
  <2>1. Q = P \cup {n}
    BY <1>2, <1>3, <1>4, <1>6 DEF Places
  <2> HIDE DEF P, Q, n
  <2>2. Cardinality(P \cup {n}) = Cardinality(P) + 1
    BY <1>1, <1>5, FS_AddElement
  <2>3. QED
    BY <1>6, <2>1, <2>2 DEF P, Q
<1>7. CASE job.event # e
  <2>1. Q = P
    BY <1>2, <1>3, <1>4, <1>7 DEF Places
  <2>2. QED
    BY <1>1, <1>7, <2>1
<1>8. QED
  BY <1>6, <1>7

LEMMA TailPlaces ==
    ASSUME NEW s \in Seq(Job), s # <<>>, NEW e
    PROVE  Cardinality(Places(s, e))
             = Cardinality(Places(Tail(s), e)) + IF Head(s).event = e THEN 1 ELSE 0
<1> DEFINE P == Places(s, e)
           Q == Places(Tail(s), e)
           R == P \ {1}
           n == Len(s)
           f == [i \in Q |-> i + 1]
<1>1. n \in Nat \ {0} /\ DOMAIN s = 1..n /\ Tail(s) \in Seq(Job) /\ Head(s) = s[1]
  OBVIOUS
<1>2. /\ DOMAIN Tail(s) = 1..(n - 1)
      /\ \A i \in 1..(n - 1) : Tail(s)[i] = s[i + 1]
  BY <1>1
<1>3. /\ IsFiniteSet(P) /\ Cardinality(P) \in Nat
      /\ IsFiniteSet(Q) /\ Cardinality(Q) \in Nat
  BY <1>1, PlacesFinite
<1>4. \A i \in Q : i \in 1..(n - 1) /\ i + 1 \in R
  BY <1>1, <1>2 DEF Places
<1>5. \A k \in R : k - 1 \in Q /\ k \in Int
  <2>1. ASSUME NEW k \in R
        PROVE  k - 1 \in Q
    <3>1. k \in 1..n /\ k # 1 /\ s[k].event = e
      BY <1>1 DEF Places
    <3>2. k - 1 \in 1..(n - 1) /\ Tail(s)[k - 1] = s[k - 1 + 1] /\ k - 1 + 1 = k
      BY <1>1, <1>2, <3>1
    <3>3. QED
      BY <1>2, <3>1, <3>2 DEF Places
  <2>2. QED
    BY <1>1, <2>1 DEF Places
<1> HIDE DEF P, Q, R, n
<1>6. Cardinality(R) = Cardinality(Q)
  <2>1. f \in Bijection(Q, R)
    <3>1. f \in [Q -> R]
      BY <1>4
    <3>2. \A i, j \in Q : f[i] = f[j] => i = j
      BY <1>1, <1>4
    <3>3. \A k \in R : \E i \in Q : f[i] = k
      <4>1. ASSUME NEW k \in R
            PROVE  k - 1 \in Q /\ f[k - 1] = k
        BY <1>5
      <4>2. QED
        BY <4>1
    <3>4. QED
      BY <3>1, <3>2, <3>3 DEF Bijection, Injection, Surjection, IsInjective
  <2>2. ExistsBijection(Q, R)
    BY <2>1 DEF ExistsBijection
  <2>3. QED
    BY <1>3, <2>2, FS_Bijection
<1>7. Cardinality(R) = IF 1 \in P THEN Cardinality(P) - 1 ELSE Cardinality(P)
  <2>1. Cardinality(P \ {1}) = IF 1 \in P THEN Cardinality(P) - 1 ELSE Cardinality(P)
    BY <1>3, FS_RemoveElement
  <2>2. QED
    BY <2>1 DEF R
<1>8. 1 \in P <=> Head(s).event = e
  BY <1>1 DEF P, Places, n
<1>9. CASE Head(s).event = e
  BY <1>3, <1>6, <1>7, <1>8, <1>9 DEF P, Q
<1>10. CASE Head(s).event # e
  BY <1>3, <1>6, <1>7, <1>8, <1>10 DEF P, Q
<1>11. QED
  BY <1>9, <1>10

\* What the invariant knows of the variables the refinement leaves aside.
RowsInv ==
    /\ connector \in ConnectorState
    /\ agent \in AgentState
    /\ delivered \in [Event -> 0..MaxDeliveries]
    /\ handled \in [Event -> Nat]
    /\ \A ch \in Chats : queue[ch] # None => Len(queue[ch]) <= QueueLimit
    /\ busy \subseteq Event /\ forgotten \subseteq Event /\ settled \subseteq Event
    /\ crashes \in 0..MaxCrashes

StepInv == LineInv /\ JobsInv /\ RowsInv

LEMMA SameJobs ==
    ASSUME UNCHANGED queue
    PROVE  \A ch : Jobs(ch)' = Jobs(ch)
  BY DEF Jobs

\* The worker of a chat alone can be about to run the agent on an event of it.
LEMMA OneStarter ==
    ASSUME LineInv, JobsInv, NEW v \in Workers, NEW w \in Workers,
           worker[v].job # None, worker[w].job # None,
           worker[v].job.event = worker[w].job.event
    PROVE  v = w
<1>1. worker[v].chat = worker[v].job.event[1] /\ worker[w].chat = worker[w].job.event[1]
  BY DEF JobsInv
<1>2. worker[v].chat # None
  BY DEF LineInv, WorkerInv
<1>3. QED
  BY <1>1, <1>2 DEF LineInv, WorkerInv

LEMMA JobOfWorker ==
    ASSUME LineInv, NEW w \in Workers, worker[w].pc \notin {"dead", "wait"}
    PROVE  /\ worker[w].job \in Job /\ worker[w].job # None
           /\ worker[w].job.event \in Event
           /\ worker[w].chat \in Chats
<1>1. worker[w].job \in Job /\ worker[w].job # None
  BY DEF LineInv, WorkerInv, WorkerState
<1>2. worker[w].chat \in Chats
  BY DEF LineInv, WorkerInv, WorkerState
<1>3. QED
  BY <1>1, <1>2 DEF Job

LEMMA DueType ==
    ASSUME StepInv, NEW k \in Event
    PROVE  /\ Cardinality(Places(Jobs(k[1]), k)) \in Nat
           /\ handled[k] \in Nat
           /\ Due(k) \in Nat
<1>1. k[1] \in Chats
  BY DEF Event
<1>2. Cardinality(Places(Jobs(k[1]), k)) \in Nat
  BY <1>1, JobsType, PlacesFinite DEF StepInv
<1>3. handled[k] \in Nat
  BY DEF StepInv, RowsInv
<1>4. QED
  BY <1>2, <1>3 DEF Due

\* Most steps add neither a job nor a run.
LEMMA DueStays ==
    ASSUME StepInv, NEW k \in Event, Jobs(k[1])' = Jobs(k[1]), handled' = handled,
           Starting(k)' => Starting(k)
    PROVE  Due(k)' \in Nat /\ Due(k)' <= Due(k)
<1> DEFINE c == Cardinality(Places(Jobs(k[1]), k))
<1>1. c \in Nat /\ handled[k] \in Nat
  BY DueType
<1>2. c' = c
  BY DEF Places
<1>3. Due(k) = c + (IF Starting(k) THEN 1 ELSE 0) + handled[k]
  BY DEF Due
<1>4. Due(k)' = c + (IF Starting(k)' THEN 1 ELSE 0) + handled[k]
  BY <1>2 DEF Due
<1> HIDE DEF c
<1>5. QED
  BY <1>1, <1>3, <1>4

\* The worker EnsureWorker starts has no job.
LEMMA EnsureWorkerJobs ==
    ASSUME LineInv, NEW ch, EnsureWorker(ch), NEW v \in Workers
    PROVE  \/ worker'[v] = worker[v]
           \/ worker'[v].job = None /\ worker'[v].pc = "wait" /\ worker[v] = Dead
  BY DEF EnsureWorker, LineInv

LEMMA AcceptJobs ==
    ASSUME StepInv, NEW e \in Event, WebhookAccepted(e)
    PROVE  /\ JobsInv'
           /\ \A k \in Event : Due(k)' = Due(k) + IF k = e THEN 1 ELSE 0
           /\ \A ch \in Chats : queue'[ch] # None => Len(queue'[ch]) <= QueueLimit
<1> DEFINE ch == e[1]
           job == [event |-> e, no |-> ticket[ch] + 1]
<1>1. ch \in Chats
  BY DEF Event
<1>2. /\ Jobs(ch) \in Seq(Job)
      /\ ticket[ch] \in Nat
      /\ queue' = [queue EXCEPT ![ch] = Append(Jobs(ch), job)]
      /\ EnsureWorker(ch)
      /\ Len(Jobs(ch)) < QueueLimit
      /\ handled' = handled
  BY <1>1, JobsType DEF WebhookAccepted, LineInv, StepInv
<1>3. job \in Job /\ job.event = e
  BY <1>1, <1>2 DEF Job
<1>4. Append(Jobs(ch), job) \in Seq(Job) /\ Append(Jobs(ch), job) # None
  BY <1>2, <1>3, NoneIsNothing
<1>5. /\ queue'[ch] = Append(Jobs(ch), job)
      /\ \A c \in Chats : c # ch => queue'[c] = queue[c]
  BY <1>1, <1>2 DEF LineInv, StepInv
<1>6. /\ Jobs(ch)' = Append(Jobs(ch), job)
      /\ \A c \in Chats : c # ch => Jobs(c)' = Jobs(c)
  BY <1>4, <1>5 DEF Jobs
<1> HIDE DEF job
<1>7. ASSUME NEW c \in Chats, NEW i \in DOMAIN Jobs(c)'
      PROVE  Jobs(c)'[i].event[1] = c
  <2>1. CASE c # ch
    <3>1. Jobs(c)' = Jobs(c)
      BY <1>6, <2>1
    <3>2. QED
      BY <1>7, <3>1 DEF StepInv, JobsInv
  <2>2. CASE c = ch
    <3>1. Jobs(c)' = Append(Jobs(ch), job)
      BY <1>6, <2>2
    <3>2. i \in 1..(Len(Jobs(ch)) + 1)
      BY <1>2, <1>3, <1>7, <3>1
    <3>3. CASE i = Len(Jobs(ch)) + 1
      BY <1>2, <1>3, <2>2, <3>1, <3>3
    <3>4. CASE i # Len(Jobs(ch)) + 1
      <4>1. i \in 1..Len(Jobs(ch)) /\ i \in DOMAIN Jobs(ch)
        BY <1>2, <3>2, <3>4
      <4>2. Append(Jobs(ch), job)[i] = Jobs(ch)[i]
        BY <1>2, <1>3, <4>1
      <4>3. QED
        BY <1>1, <2>2, <3>1, <4>1, <4>2 DEF StepInv, JobsInv
    <3>5. QED
      BY <3>3, <3>4
  <2>3. QED
    BY <2>1, <2>2
<1>8. \A v \in Workers : \/ worker'[v] = worker[v]
                         \/ /\ worker'[v].job = None /\ worker'[v].pc = "wait"
                            /\ worker[v] = Dead
  BY <1>2, EnsureWorkerJobs DEF StepInv
<1>9. JobsInv'
  BY <1>7, <1>8 DEF StepInv, JobsInv
<1>10. \A k : Starting(k)' <=> Starting(k)
  BY <1>8 DEF Starting, Dead
<1>11. ASSUME NEW k \in Event
       PROVE  Due(k)' = Due(k) + IF k = e THEN 1 ELSE 0
  <2> DEFINE s == Jobs(k[1])
             p == Cardinality(Places(s, k))
  <2>1. p \in Nat /\ handled[k] \in Nat /\ k[1] \in Chats
    BY DueType DEF Event
  <2>2. p' = p + IF k = e THEN 1 ELSE 0
    <3>1. CASE k[1] = ch
      <4>1. Cardinality(Places(Append(s, job), k)) = p + IF job.event = k THEN 1 ELSE 0
        BY <1>2, <1>3, <3>1, AppendPlaces
      <4>2. Places(s, k)' = Places(Append(s, job), k)
        BY <1>6, <3>1 DEF Places
      <4>3. QED
        BY <1>3, <4>1, <4>2
    <3>2. CASE k[1] # ch
      <4>1. s' = s /\ k # e
        BY <1>6, <2>1, <3>2
      <4>2. p' = p
        BY <4>1 DEF Places
      <4>3. QED
        BY <2>1, <4>1, <4>2
    <3>3. QED
      BY <3>1, <3>2
  <2>3. Due(k) = p + (IF Starting(k) THEN 1 ELSE 0) + handled[k]
    BY DEF Due
  <2>4. Due(k)' = p' + (IF Starting(k) THEN 1 ELSE 0) + handled[k]
    BY <1>2, <1>10 DEF Due
  <2> HIDE DEF p
  <2>5. QED
    BY <2>1, <2>2, <2>3, <2>4
<1>12. ASSUME NEW c \in Chats, queue'[c] # None
       PROVE  Len(queue'[c]) <= QueueLimit
  <2>1. CASE c = ch
    <3>1. Len(Append(Jobs(ch), job)) = Len(Jobs(ch)) + 1 /\ Len(Jobs(ch)) \in Nat
      BY <1>2, <1>3
    <3>2. QED
      BY <1>2, <1>5, <2>1, <3>1, PipelineAssumption
  <2>2. CASE c # ch
    BY <1>5, <1>12, <2>2 DEF StepInv, RowsInv
  <2>3. QED
    BY <2>1, <2>2
<1>13. QED
  BY <1>9, <1>11, <1>12

LEMMA TakeJobs ==
    ASSUME StepInv, NEW w \in Workers, Take(w)
    PROVE  /\ JobsInv'
           /\ \A k \in Event : Due(k)' = Due(k)
           /\ \A ch \in Chats : queue'[ch] # None => Len(queue'[ch]) <= QueueLimit
<1>0. PICK ch, job, rest : ch = worker[w].chat /\ job = Head(queue[ch]) /\ rest = Tail(queue[ch])
  OBVIOUS
<1>1. ch \in Chats /\ queue[ch] \in Seq(Job) /\ queue[ch] # <<>> /\ Jobs(ch) = queue[ch]
  BY <1>0 DEF Take, StepInv, LineInv, WorkerInv, WorkerState, Jobs
<1>2. /\ job \in Job /\ job # None /\ job = queue[ch][1]
      /\ rest \in Seq(Job) /\ rest # None
      /\ Len(queue[ch]) \in Nat \ {0} /\ Len(rest) = Len(queue[ch]) - 1
      /\ DOMAIN rest = 1..(Len(queue[ch]) - 1) /\ DOMAIN queue[ch] = 1..Len(queue[ch])
      /\ \A i \in 1..(Len(queue[ch]) - 1) : rest[i] = queue[ch][i + 1]
  BY <1>0, <1>1, NoneIsNothing
<1>3. /\ worker' = [worker EXCEPT ![w] = [pc |-> "map", chat |-> ch, job |-> job]]
      /\ queue' = [queue EXCEPT ![ch] = rest]
      /\ handled' = handled /\ worker[w].pc = "wait"
  BY <1>0 DEF Take, history
<1>4. /\ queue'[ch] = rest
      /\ \A c \in Chats : c # ch => queue'[c] = queue[c]
      /\ worker'[w] = [pc |-> "map", chat |-> ch, job |-> job]
      /\ \A v \in Workers : v # w => worker'[v] = worker[v]
  BY <1>1, <1>3 DEF StepInv, LineInv
<1>5. /\ Jobs(ch)' = rest
      /\ \A c \in Chats : c # ch => Jobs(c)' = Jobs(c)
  BY <1>2, <1>4 DEF Jobs
<1>6. /\ job.event[1] = ch
      /\ \A i \in DOMAIN rest : rest[i].event[1] = ch
  <2>1. \A i \in 1..Len(queue[ch]) : queue[ch][i].event[1] = ch
    BY <1>1, <1>2 DEF StepInv, JobsInv
  <2>2. \A i \in 1..(Len(queue[ch]) - 1) : i + 1 \in 1..Len(queue[ch])
    BY <1>2
  <2>3. 1 \in 1..Len(queue[ch])
    BY <1>2
  <2>4. QED
    BY <1>2, <2>1, <2>2, <2>3
<1>8. ASSUME NEW c \in Chats, queue'[c] # None
      PROVE  Len(queue'[c]) <= QueueLimit
  <2>1. CASE c = ch
    <3>1. Len(queue[ch]) <= QueueLimit /\ QueueLimit \in Nat
      BY <1>1, NoneIsNothing, PipelineAssumption DEF StepInv, RowsInv
    <3>2. QED
      BY <1>2, <1>4, <2>1, <3>1
  <2>2. CASE c # ch
    BY <1>4, <1>8, <2>2 DEF StepInv, RowsInv
  <2>3. QED
    BY <2>1, <2>2
<1>9. JobsInv'
  <2>1. ASSUME NEW c \in Chats, NEW i \in DOMAIN Jobs(c)'
        PROVE  Jobs(c)'[i].event[1] = c
    BY <1>1, <1>5, <1>6, <2>1 DEF StepInv, JobsInv
  <2>2. ASSUME NEW v \in Workers, worker'[v].job # None
        PROVE  worker'[v].job.event[1] = worker'[v].chat
    <3>1. CASE v = w
      BY <1>4, <1>6, <3>1
    <3>2. CASE v # w
      BY <1>4, <2>2, <3>2 DEF StepInv, JobsInv
    <3>3. QED
      BY <3>1, <3>2
  <2>3. QED
    BY <2>1, <2>2 DEF JobsInv
<1>10. \A k \in Event : Starting(k)' <=> Starting(k) \/ job.event = k
  BY <1>3, <1>4 DEF Starting
<1>11. ~Starting(job.event)
  <2>1. ASSUME NEW v \in Workers, worker[v].pc = "map", worker[v].job.event = job.event
        PROVE  FALSE
    <3>1. worker[v].job # None /\ worker[v].chat = ch
      BY <1>6, <2>1 DEF StepInv, LineInv, WorkerInv, JobsInv
    <3>2. v = w
      BY <1>0, <1>1, <3>1, NoneIsNothing DEF StepInv, LineInv, WorkerInv
    <3>3. QED
      BY <1>3, <2>1, <3>2
  <2>2. QED
    BY <2>1 DEF Starting
<1>12. ASSUME NEW k \in Event
       PROVE  Due(k)' = Due(k)
  <2> DEFINE s == Jobs(k[1])
             p == Cardinality(Places(s, k))
  <2>1. p \in Nat /\ handled[k] \in Nat /\ k[1] \in Chats
    BY DueType DEF Event
  <2>2. p = p' + IF job.event = k THEN 1 ELSE 0
    <3>1. CASE k[1] = ch
      <4>1. p = Cardinality(Places(rest, k)) + IF job.event = k THEN 1 ELSE 0
        BY <1>0, <1>1, <3>1, TailPlaces
      <4>2. Places(s, k)' = Places(rest, k)
        BY <1>5, <3>1 DEF Places
      <4>3. QED
        BY <4>1, <4>2
    <3>2. CASE k[1] # ch
      <4>1. s' = s /\ k # job.event
        BY <1>5, <1>6, <2>1, <3>2
      <4>2. p' = p
        BY <4>1 DEF Places
      <4>3. QED
        BY <2>1, <4>1, <4>2
    <3>3. QED
      BY <3>1, <3>2
  <2>3. p' \in Nat
    <3>1. CASE k[1] = ch
      <4>1. Places(s, k)' = Places(rest, k)
        BY <1>5, <3>1 DEF Places
      <4>2. QED
        BY <1>2, <4>1, PlacesFinite
    <3>2. CASE k[1] # ch
      BY <1>5, <2>1, <3>2 DEF Places
    <3>3. QED
      BY <3>1, <3>2
  <2>4. Due(k) = p + (IF Starting(k) THEN 1 ELSE 0) + handled[k]
    BY DEF Due
  <2>5. Due(k)' = p' + (IF Starting(k) \/ job.event = k THEN 1 ELSE 0) + handled[k]
    BY <1>3, <1>10 DEF Due
  <2> HIDE DEF p
  <2>6. CASE job.event = k
    BY <1>11, <2>1, <2>2, <2>3, <2>4, <2>5, <2>6
  <2>7. CASE job.event # k
    BY <2>1, <2>2, <2>3, <2>4, <2>5, <2>7
  <2>8. QED
    BY <2>6, <2>7
<1>13. QED
  BY <1>8, <1>9, <1>12

LEMMA StartAgentJobs ==
    ASSUME StepInv, NEW w \in Workers, StartAgent(w)
    PROVE  /\ JobsInv'
           /\ \A k \in Event : Due(k)' = Due(k)
           /\ handled' \in [Event -> Nat]
<1>0. PICK e : e = worker[w].job.event
  OBVIOUS
<1>1. e \in Event /\ worker[w].job # None /\ worker[w].pc = "map"
  BY <1>0, JobOfWorker DEF StartAgent, StepInv
<1>2. /\ worker' = [worker EXCEPT ![w].pc = "invoke"]
      /\ handled' = [handled EXCEPT ![e] = @ + 1]
      /\ queue' = queue
  BY <1>0 DEF StartAgent, GoTo
<1>3. handled \in [Event -> Nat]
  BY DEF StepInv, RowsInv
<1>4. /\ handled' \in [Event -> Nat]
      /\ \A k \in Event : handled'[k] = IF k = e THEN handled[k] + 1 ELSE handled[k]
  BY <1>1, <1>2, <1>3
<1>5. /\ worker'[w].pc = "invoke"
      /\ \A v \in Workers : worker'[v].job = worker[v].job /\ worker'[v].chat = worker[v].chat
      /\ \A v \in Workers : v # w => worker'[v] = worker[v]
  BY <1>2 DEF StepInv, LineInv, WorkerState
<1>6. \A ch : Jobs(ch)' = Jobs(ch)
  BY <1>2, SameJobs
<1>7. JobsInv'
  BY <1>5, <1>6 DEF StepInv, JobsInv
<1>8. Starting(e) /\ ~Starting(e)'
  <2>1. \A v \in Workers : worker[v].pc = "map" /\ worker[v].job.event = e => v = w
    <3>1. \A v \in Workers : worker[v].pc = "map" => worker[v].job # None
      BY DEF StepInv, LineInv, WorkerInv
    <3>2. QED
      BY <1>0, <1>1, <3>1, OneStarter DEF StepInv
  <2>2. QED
    BY <1>0, <1>1, <1>5, <2>1 DEF Starting
<1>9. \A k : k # e => (Starting(k)' <=> Starting(k))
  BY <1>0, <1>1, <1>5 DEF Starting
<1>10. ASSUME NEW k \in Event
       PROVE  Due(k)' = Due(k)
  <2> DEFINE p == Cardinality(Places(Jobs(k[1]), k))
  <2>1. p \in Nat /\ handled[k] \in Nat
    BY DueType
  <2>2. p' = p
    BY <1>6 DEF Places
  <2>3. Due(k) = p + (IF Starting(k) THEN 1 ELSE 0) + handled[k]
    BY DEF Due
  <2>4. Due(k)' = p + (IF Starting(k)' THEN 1 ELSE 0) + handled'[k]
    BY <2>2 DEF Due
  <2> HIDE DEF p
  <2>5. CASE k = e
    BY <1>4, <1>8, <2>1, <2>3, <2>4, <2>5
  <2>6. CASE k # e
    BY <1>4, <1>9, <2>1, <2>3, <2>4, <2>6
  <2>7. QED
    BY <2>5, <2>6
<1>11. QED
  BY <1>4, <1>7, <1>10

\* A worker whose job goes on, but not to the agent.
LEMMA GoToJobs ==
    ASSUME StepInv, NEW w \in Workers, NEW pc, pc # "map", GoTo(w, pc),
           UNCHANGED <<queue, handled>>
    PROVE  /\ JobsInv'
           /\ \A k \in Event : Due(k)' \in Nat /\ Due(k)' <= Due(k)
<1>1. /\ worker'[w].pc = pc
      /\ \A v \in Workers : worker'[v].job = worker[v].job /\ worker'[v].chat = worker[v].chat
      /\ \A v \in Workers : v # w => worker'[v] = worker[v]
  BY DEF GoTo, StepInv, LineInv, WorkerState
<1>2. \A ch : Jobs(ch)' = Jobs(ch)
  BY SameJobs
<1>3. JobsInv'
  BY <1>1, <1>2 DEF StepInv, JobsInv
<1>4. \A k : Starting(k)' => Starting(k)
  BY <1>1 DEF Starting
<1>5. QED
  BY <1>2, <1>3, <1>4, DueStays

LEMMA EndJobJobs ==
    ASSUME StepInv, NEW w \in Workers, EndJob(w), UNCHANGED <<queue, handled>>
    PROVE  /\ JobsInv'
           /\ \A k \in Event : Due(k)' \in Nat /\ Due(k)' <= Due(k)
<1>1. /\ worker'[w].pc = "wait" /\ worker'[w].job = None
      /\ \A v \in Workers : v # w => worker'[v] = worker[v]
  BY DEF EndJob, StepInv, LineInv, WorkerState
<1>2. \A ch : Jobs(ch)' = Jobs(ch)
  BY SameJobs
<1>3. JobsInv'
  BY <1>1, <1>2 DEF StepInv, JobsInv
<1>4. \A k : Starting(k)' => Starting(k)
  BY <1>1 DEF Starting
<1>5. QED
  BY <1>2, <1>3, <1>4, DueStays

LEMMA RestartJobs ==
    ASSUME StepInv, Restart
    PROVE  /\ JobsInv'
           /\ \A k \in Event : Due(k)' \in Nat /\ Due(k)' <= Due(k)
<1>1. \A c \in Chats : Jobs(c)' = <<>>
  BY DEF Restart, Jobs
<1>2. \A v \in Workers : worker'[v].pc = "dead" /\ worker'[v].job = None
  BY DEF Restart, Dead
<1>3. JobsInv'
  BY <1>1, <1>2 DEF JobsInv
<1>4. ASSUME NEW k \in Event
      PROVE  Due(k)' \in Nat /\ Due(k)' <= Due(k)
  <2> DEFINE p == Cardinality(Places(Jobs(k[1]), k))
  <2>1. p \in Nat /\ handled[k] \in Nat /\ k[1] \in Chats
    BY DueType DEF Event
  <2>2. Places(Jobs(k[1]), k)' = Places(<<>>, k)
    BY <1>1, <2>1 DEF Places
  <2>3. p' = 0
    BY <2>2, NoPlaces
  <2>4. ~Starting(k)'
    BY <1>2 DEF Starting
  <2>5. Due(k) = p + (IF Starting(k) THEN 1 ELSE 0) + handled[k]
    BY DEF Due
  <2>6. Due(k)' = 0 + 0 + handled[k]
    BY <2>3, <2>4 DEF Due, Restart
  <2> HIDE DEF p
  <2>7. QED
    BY <2>1, <2>5, <2>6
<1>5. QED
  BY <1>3, <1>4

\* Everything else leaves queues and workers alone.
LEMMA OtherJobs ==
    ASSUME StepInv, UNCHANGED <<queue, worker, handled>>
    PROVE  /\ JobsInv'
           /\ \A k \in Event : Due(k)' \in Nat /\ Due(k)' <= Due(k)
<1>1. \A ch : Jobs(ch)' = Jobs(ch)
  BY SameJobs
<1>2. JobsInv'
  BY <1>1 DEF StepInv, JobsInv
<1>3. \A k : Starting(k)' => Starting(k)
  BY DEF Starting
<1>4. QED
  BY <1>1, <1>2, <1>3, DueStays

\* A delivery leaves room for one run more.
LEMMA DeliverRows ==
    ASSUME StepInv, NEW e \in Event, Deliver(e)
    PROVE  /\ delivered' \in [Event -> 0..MaxDeliveries]
           /\ \A k \in Event : delivered[k] <= delivered'[k]
           /\ delivered'[e] = delivered[e] + 1
  BY PipelineAssumption DEF Deliver, StepInv, RowsInv

LEMMA DueKept ==
    ASSUME DueInv, StepInv, Noted,
           \A k \in Event : Due(k)' \in Nat /\ Due(k)' <= Due(k),
           \A k \in Event : delivered'[k] \in Nat /\ delivered[k] <= delivered'[k]
    PROVE  DueInv'
<1> SUFFICES ASSUME NEW k \in Event
             PROVE  /\ Due(k)' <= delivered'[k]
                    /\ k \notin forgotten' => Due(k)' <= IF k \in ToSet(seen)' THEN 1 ELSE 0
  BY DEF DueInv
<1>1. Due(k) \in Nat /\ Due(k)' \in Nat /\ Due(k)' <= Due(k)
  BY DueType
<1>2. /\ Due(k) <= delivered[k]
      /\ k \notin forgotten => Due(k) <= IF k \in ToSet(seen) THEN 1 ELSE 0
  BY DEF DueInv
<1>3. delivered[k] \in Int /\ delivered'[k] \in Int /\ delivered[k] <= delivered'[k]
  BY PipelineAssumption DEF StepInv, RowsInv
<1>4. k \notin forgotten' => k \notin forgotten /\ (k \in ToSet(seen) => k \in ToSet(seen)')
  BY DEF Noted
<1> DEFINE d == Due(k)
           n == Due(k)'
           old == k \in ToSet(seen)
           new == k \in ToSet(seen)'
<1> HIDE DEF d, n, old, new
<1>5. ASSUME k \notin forgotten'
      PROVE  n <= IF new THEN 1 ELSE 0
  <2>1. d \in Nat /\ n \in Nat /\ n <= d /\ d <= (IF old THEN 1 ELSE 0) /\ (old => new)
    BY <1>1, <1>2, <1>4, <1>5 DEF d, n, old, new
  <2>2. QED
    BY <2>1
<1>6. n <= delivered'[k]
  <2>1. d \in Nat /\ n \in Nat /\ n <= d /\ d <= delivered[k]
    BY <1>1, <1>2 DEF d, n
  <2>2. QED
    BY <1>3, <2>1
<1>7. QED
  BY <1>5, <1>6 DEF n, new

LEMMA AcceptDue ==
    ASSUME StepInv, TableInv, DueInv, NEW e \in Event, WebhookAccepted(e)
    PROVE  DueInv'
<1> SUFFICES ASSUME NEW k \in Event
             PROVE  /\ Due(k)' <= delivered'[k]
                    /\ k \notin forgotten' => Due(k)' <= IF k \in ToSet(seen)' THEN 1 ELSE 0
  BY DEF DueInv
<1>1. FirstSeen(e) /\ Deliver(e)
  BY DEF WebhookAccepted
<1>2. /\ Noted /\ e \notin ToSet(seen) /\ e \in ToSet(seen)'
  BY <1>1, FirstSeenTable
<1>3. /\ delivered[k] \in Int /\ delivered'[k] \in Int /\ delivered[k] <= delivered'[k]
      /\ k = e => delivered'[k] = delivered[k] + 1
  BY <1>1, DeliverRows, PipelineAssumption DEF StepInv, RowsInv
<1>4. Due(k) \in Nat /\ Due(k)' = Due(k) + IF k = e THEN 1 ELSE 0
  BY DueType, AcceptJobs
<1>5. /\ Due(k) <= delivered[k]
      /\ k \notin forgotten => Due(k) <= IF k \in ToSet(seen) THEN 1 ELSE 0
  BY DEF DueInv
<1>6. k \notin forgotten' => k \notin forgotten /\ (k \in ToSet(seen) => k \in ToSet(seen)')
  BY <1>2 DEF Noted
<1> DEFINE d == Due(k)
           n == Due(k)'
           old == k \in ToSet(seen)
           new == k \in ToSet(seen)'
<1> HIDE DEF d, n, old, new
<1>7. CASE k = e
  <2>1. d \in Nat /\ n = d + 1 /\ d <= delivered[k] /\ ~old /\ new
    BY <1>2, <1>4, <1>5, <1>7 DEF d, n, old, new
  <2>2. k \notin forgotten' => d <= 0
    BY <1>5, <1>6, <2>1 DEF d, old
  <2>3. n <= delivered'[k]
    BY <1>3, <1>7, <2>1
  <2>4. k \notin forgotten' => n <= IF new THEN 1 ELSE 0
    BY <2>1, <2>2
  <2>5. QED
    BY <2>3, <2>4 DEF n, new
<1>8. CASE k # e
  <2>1. d \in Nat /\ n = d /\ d <= delivered[k]
    BY <1>4, <1>5, <1>8 DEF d, n
  <2>2. k \notin forgotten' => d <= (IF old THEN 1 ELSE 0) /\ (old => new)
    BY <1>5, <1>6 DEF d, old, new
  <2>3. n <= delivered'[k]
    BY <1>3, <2>1
  <2>4. k \notin forgotten' => n <= IF new THEN 1 ELSE 0
    BY <2>1, <2>2
  <2>5. QED
    BY <2>3, <2>4 DEF n, new
<1>9. QED
  BY <1>7, <1>8

-----------------------------------------------------------------------------
(* What becomes of an event that waits or is being processed. *)

LEMMA PendingSame ==
    ASSUME NEW k \in Event, queue' = queue,
           \A v \in Workers : worker'[v].job = worker[v].job
    PROVE  Pending(k) => Pending(k)'
  BY DEF Pending

LEMMA PendingEnds ==
    ASSUME StepInv, NEW k \in Event, NEW w \in Workers, EndJob(w), queue' = queue, Pending(k)
    PROVE  Pending(k)' \/ k \in settled'
<1>1. /\ \A v \in Workers : v # w => worker'[v] = worker[v]
      /\ worker[w].job.event \in settled'
  BY DEF EndJob, StepInv, LineInv
<1>2. QED
  BY <1>1 DEF Pending

LEMMA PendingTaken ==
    ASSUME StepInv, NEW k \in Event, NEW w \in Workers, Take(w), Pending(k)
    PROVE  Pending(k)'
<1>0. PICK ch, job, rest : ch = worker[w].chat /\ job = Head(queue[ch]) /\ rest = Tail(queue[ch])
  OBVIOUS
<1>1. ch \in Chats /\ queue[ch] \in Seq(Job) /\ queue[ch] # <<>>
  BY <1>0 DEF Take, StepInv, LineInv, WorkerInv, WorkerState
<1>2. /\ job \in Job /\ job # None /\ job = queue[ch][1]
      /\ rest \in Seq(Job) /\ rest # None
      /\ Len(queue[ch]) \in Nat \ {0} /\ Len(rest) = Len(queue[ch]) - 1
      /\ DOMAIN rest = 1..(Len(queue[ch]) - 1) /\ DOMAIN queue[ch] = 1..Len(queue[ch])
      /\ \A i \in 1..(Len(queue[ch]) - 1) : rest[i] = queue[ch][i + 1]
  BY <1>0, <1>1, NoneIsNothing
<1>3. /\ queue'[ch] = rest
      /\ \A c \in Chats : c # ch => queue'[c] = queue[c]
      /\ worker'[w].job = job
      /\ \A v \in Workers : v # w => worker'[v] = worker[v]
      /\ worker[w].job = None
  BY <1>0, <1>1 DEF Take, StepInv, LineInv, WorkerInv
<1>4. k[1] \in Chats
  BY DEF Event
<1>5. CASE \E v \in Workers : worker[v].job # None /\ worker[v].job.event = k
  BY <1>3, <1>5 DEF Pending
<1>6. ASSUME queue[k[1]] # None, NEW i \in DOMAIN queue[k[1]], queue[k[1]][i].event = k
      PROVE  Pending(k)'
  <2>1. CASE k[1] # ch
    BY <1>3, <1>4, <1>6, <2>1 DEF Pending
  <2>2. CASE k[1] = ch /\ i = 1
    BY <1>2, <1>3, <1>6, <2>2 DEF Pending
  <2>3. CASE k[1] = ch /\ i # 1
    <3>0. i \in 1..Len(queue[ch]) /\ Len(queue[ch]) \in Nat
      BY <1>2, <1>6, <2>3
    <3>1. i - 1 \in 1..(Len(queue[ch]) - 1) /\ rest[i - 1] = queue[ch][i - 1 + 1] /\ i - 1 + 1 = i
      <4>1. i - 1 \in 1..(Len(queue[ch]) - 1) /\ i - 1 + 1 = i
        BY <2>3, <3>0
      <4>2. QED
        BY <1>2, <4>1
    <3>2. i - 1 \in DOMAIN rest /\ rest[i - 1].event = k
      BY <1>2, <1>6, <2>3, <3>1
    <3>3. QED
      BY <1>2, <1>3, <2>3, <3>2 DEF Pending
  <2>4. QED
    BY <2>1, <2>2, <2>3
<1>7. QED
  BY <1>5, <1>6 DEF Pending

LEMMA PendingAccepted ==
    ASSUME StepInv, NEW e \in Event, WebhookAccepted(e), NEW k \in Event, Pending(k) \/ k = e
    PROVE  Pending(k)'
<1> DEFINE ch == e[1]
           job == [event |-> e, no |-> ticket[ch] + 1]
<1>1. ch \in Chats /\ k[1] \in Chats
  BY DEF Event
<1>2. /\ Jobs(ch) \in Seq(Job) /\ (queue[ch] # None => Jobs(ch) = queue[ch])
      /\ ticket[ch] \in Nat
      /\ queue' = [queue EXCEPT ![ch] = Append(Jobs(ch), job)]
      /\ EnsureWorker(ch)
  BY <1>1, JobsType DEF WebhookAccepted, LineInv, StepInv
<1>3. job \in Job /\ job.event = e
  BY <1>1, <1>2 DEF Job
<1>4. Append(Jobs(ch), job) \in Seq(Job) /\ Append(Jobs(ch), job) # None
  BY <1>2, <1>3, NoneIsNothing
<1>5. /\ queue'[ch] = Append(Jobs(ch), job)
      /\ \A c \in Chats : c # ch => queue'[c] = queue[c]
  BY <1>1, <1>2 DEF LineInv, StepInv
<1> HIDE DEF job
<1>6. /\ Len(Jobs(ch)) \in Nat /\ DOMAIN Jobs(ch) = 1..Len(Jobs(ch))
      /\ DOMAIN Append(Jobs(ch), job) = 1..(Len(Jobs(ch)) + 1)
      /\ Append(Jobs(ch), job)[Len(Jobs(ch)) + 1] = job
      /\ \A i \in 1..Len(Jobs(ch)) : Append(Jobs(ch), job)[i] = Jobs(ch)[i]
  BY <1>2, <1>3
<1>7. CASE k = e
  <2>1. Len(Jobs(ch)) + 1 \in DOMAIN queue'[ch] /\ queue'[ch][Len(Jobs(ch)) + 1].event = e
    BY <1>3, <1>5, <1>6
  <2>2. QED
    BY <1>4, <1>5, <1>7, <2>1 DEF Pending
<1>8. CASE \E v \in Workers : worker[v].job # None /\ worker[v].job.event = k
  <2>1. \A v \in Workers : worker[v].job # None => worker'[v] = worker[v]
    BY <1>2, EnsureWorkerJobs DEF StepInv, Dead
  <2>2. QED
    BY <1>8, <2>1 DEF Pending
<1>9. ASSUME queue[k[1]] # None, NEW i \in DOMAIN queue[k[1]], queue[k[1]][i].event = k
      PROVE  Pending(k)'
  <2>1. CASE k[1] # ch
    BY <1>1, <1>5, <1>9, <2>1 DEF Pending
  <2>2. CASE k[1] = ch
    <3>1. i \in 1..Len(Jobs(ch)) /\ i \in 1..(Len(Jobs(ch)) + 1) /\ Jobs(ch)[i].event = k
      BY <1>2, <1>6, <1>9, <2>2
    <3>2. i \in DOMAIN queue'[ch] /\ queue'[ch][i].event = k
      BY <1>5, <1>6, <3>1
    <3>3. QED
      BY <1>4, <1>5, <2>2, <3>2 DEF Pending
  <2>3. QED
    BY <2>1, <2>2
<1>10. QED
  BY <1>7, <1>8, <1>9 DEF Pending

-----------------------------------------------------------------------------
(* The invariant of the whole pipeline. *)

PipeInv == StepInv /\ TableInv /\ DueInv /\ NothingDropped

LEMMA InitPipe == Init => PipeInv
<1> SUFFICES ASSUME Init PROVE PipeInv
  OBVIOUS
<1>1. \A c \in Chats : Jobs(c) = <<>>
  BY DEF Init, Jobs
<1>2. \A v \in Workers : worker[v].pc = "dead" /\ worker[v].job = None
  BY DEF Init, Dead
<1>3. JobsInv
  BY <1>1, <1>2 DEF JobsInv
<1>4. RowsInv
  BY PipelineAssumption DEF Init, RowsInv, ConnectorState, AgentState
<1>5. StepInv
  BY <1>3, <1>4, InitLine DEF StepInv
<1>6. ToSet(seen) = {} /\ IsInjective(seen) /\ young = seen
  BY DEF Init, ToSet, IsInjective
<1>7. TableInv
  BY <1>6, PipelineAssumption DEF Init, TableInv
<1>8. ASSUME NEW k \in Event
      PROVE  Due(k) = 0 /\ delivered[k] = 0
  <2>1. k[1] \in Chats
    BY DEF Event
  <2>2. Cardinality(Places(Jobs(k[1]), k)) = 0
    BY <1>1, <2>1, NoPlaces
  <2>3. ~Starting(k) /\ handled[k] = 0 /\ delivered[k] = 0
    BY <1>2 DEF Starting, Init
  <2>4. QED
    BY <2>2, <2>3 DEF Due
<1>9. DueInv
  BY <1>8 DEF DueInv
<1>10. NothingDropped
  BY <1>6 DEF NothingDropped
<1>11. QED
  BY <1>5, <1>7, <1>9, <1>10 DEF PipeInv

\* Most steps leave the deliveries alone.
LEMMA SameDeliveries ==
    ASSUME StepInv, delivered' = delivered
    PROVE  \A k \in Event : delivered'[k] \in Nat /\ delivered[k] <= delivered'[k]
  BY PipelineAssumption DEF StepInv, RowsInv

LEMMA WebhookPipe ==
    ASSUME PipeInv, LineInv', NEW e \in Event, WebhookNext(e)
    PROVE  PipeInv'
<1>1. StepInv /\ TableInv /\ DueInv /\ RowsInv
  BY DEF PipeInv, StepInv
<1>2. /\ Deliver(e)
      /\ delivered' \in [Event -> 0..MaxDeliveries]
      /\ \A k \in Event : delivered'[k] \in Nat /\ delivered[k] <= delivered'[k]
  <2>1. Deliver(e)
    BY DEF WebhookNext, WebhookRefused, WebhookDuplicate, WebhookAccepted, WebhookRejected
  <2>2. QED
    BY <1>1, <2>1, DeliverRows, PipelineAssumption
<1>3. CASE WebhookAccepted(e)
  <2>1. /\ JobsInv' /\ DueInv'
        /\ \A ch \in Chats : queue'[ch] # None => Len(queue'[ch]) <= QueueLimit
    BY <1>1, <1>3, AcceptJobs, AcceptDue
  <2>2. TableInv' /\ ToSet(seen)' \subseteq ToSet(seen) \cup {e}
    BY <1>1, <1>3, FirstSeenTable DEF WebhookAccepted
  <2>3. forgotten' \subseteq Event
    <3>1. forgotten' \subseteq forgotten \cup {Head(Append(seen, e))}
      BY <1>3 DEF WebhookAccepted, FirstSeen
    <3>2. Append(seen, e) \in Seq(Event) /\ Append(seen, e) # <<>>
      BY <1>1 DEF TableInv
    <3>3. Head(Append(seen, e)) \in Event
      BY <3>2
    <3>4. QED
      BY <1>1, <3>1, <3>3 DEF RowsInv
  <2>4. RowsInv'
    BY <1>1, <1>2, <1>3, <2>1, <2>3 DEF WebhookAccepted, RowsInv
  <2>5. ASSUME NEW k \in ToSet(seen)'
        PROVE  Pending(k)' \/ k \in busy' \/ k \in settled'
    <3>1. k \in Event
      BY <1>1, <2>2, <2>5 DEF TableInv, ToSet
    <3>2. busy' = busy /\ settled' = settled
      BY <1>3 DEF WebhookAccepted
    <3>3. CASE Pending(k) \/ k = e
      BY <1>1, <1>3, <3>1, <3>3, PendingAccepted
    <3>4. CASE k \in busy \/ k \in settled
      BY <3>2, <3>4
    <3>5. QED
      BY <2>2, <2>5, <3>3, <3>4 DEF PipeInv, NothingDropped
  <2>6. NothingDropped'
    BY <2>5 DEF NothingDropped
  <2>7. QED
    BY <2>1, <2>2, <2>4, <2>6 DEF PipeInv, StepInv
<1>4. CASE WebhookRefused(e) \/ WebhookDuplicate(e) \/ WebhookRejected(e)
  <2>1. /\ UNCHANGED <<connector, agent, queue, worker, handled, settled, crashes>>
        /\ busy' = busy \/ (WebhookRejected(e) /\ busy' = busy \cup {e})
    BY <1>4 DEF WebhookRefused, WebhookDuplicate, WebhookRejected, history
  <2>2. JobsInv' /\ \A k \in Event : Due(k)' \in Nat /\ Due(k)' <= Due(k)
    BY <1>1, <2>1, OtherJobs
  <2>3. /\ TableInv' /\ Noted
        /\ \/ ToSet(seen)' \subseteq ToSet(seen)
           \/ WebhookRejected(e) /\ ToSet(seen)' \subseteq ToSet(seen) \cup {e}
    <3>1. CASE WebhookRefused(e)
      <4>1. UNCHANGED <<seen, young, forgotten>>
        BY <3>1 DEF WebhookRefused, history
      <4>2. QED
        BY <1>1, <4>1, SameTable
    <3>2. CASE WebhookDuplicate(e)
      BY <1>1, <3>2, SeenAgainTable DEF WebhookDuplicate
    <3>3. CASE WebhookRejected(e)
      BY <1>1, <3>3, FirstSeenTable DEF WebhookRejected
    <3>4. QED
      BY <1>4, <3>1, <3>2, <3>3
  <2>4. forgotten' \subseteq Event
    <3>1. \/ forgotten' = forgotten
          \/ forgotten' \subseteq forgotten \cup {Head(Append(seen, e))}
      BY <1>4 DEF WebhookRefused, WebhookDuplicate, WebhookRejected, SeenAgain, FirstSeen, history
    <3>2. Append(seen, e) \in Seq(Event) /\ Append(seen, e) # <<>>
      BY <1>1 DEF TableInv
    <3>3. Head(Append(seen, e)) \in Event
      BY <3>2
    <3>4. QED
      BY <1>1, <3>1, <3>3 DEF RowsInv
  <2>5. RowsInv'
    BY <1>1, <1>2, <2>1, <2>4 DEF RowsInv
  <2>6. DueInv'
    BY <1>1, <1>2, <2>2, <2>3, DueKept
  <2>7. ASSUME NEW k \in ToSet(seen)'
        PROVE  Pending(k)' \/ k \in busy' \/ k \in settled'
    <3>1. k \in Event
      BY <1>1, <2>3, <2>7 DEF TableInv, ToSet
    <3>2. CASE k \in ToSet(seen) /\ Pending(k)
      BY <2>1, <3>1, <3>2, PendingSame
    <3>3. CASE k \in ToSet(seen) /\ (k \in busy \/ k \in settled)
      BY <2>1, <3>3
    <3>4. CASE k \notin ToSet(seen)
      <4>1. WebhookRejected(e) /\ k = e
        BY <2>3, <2>7, <3>4
      <4>2. QED
        BY <4>1 DEF WebhookRejected
    <3>5. QED
      BY <3>2, <3>3, <3>4 DEF PipeInv, NothingDropped
  <2>8. NothingDropped'
    BY <2>7 DEF NothingDropped
  <2>9. QED
    BY <2>2, <2>3, <2>5, <2>6, <2>8 DEF PipeInv, StepInv
<1>5. QED
  BY <1>3, <1>4 DEF WebhookNext

\* The steps that neither register nor accept an event.
LEMMA QuietPipe ==
    ASSUME PipeInv, LineInv', JobsInv', RowsInv', delivered' = delivered,
           UNCHANGED <<seen, young, forgotten>>,
           \A k \in Event : Due(k)' \in Nat /\ Due(k)' <= Due(k),
           \A k \in Event : Pending(k) => Pending(k)' \/ k \in settled',
           busy \subseteq busy' \cup settled', settled \subseteq settled'
    PROVE  PipeInv'
<1>1. StepInv /\ TableInv /\ DueInv
  BY DEF PipeInv
<1>2. TableInv' /\ Noted /\ ToSet(seen)' = ToSet(seen)
  BY <1>1, SameTable
<1>3. DueInv'
  BY <1>1, <1>2, SameDeliveries, DueKept
<1>4. ToSet(seen) \subseteq Event
  BY <1>1 DEF TableInv, ToSet
<1>5. NothingDropped'
  BY <1>2, <1>4 DEF PipeInv, NothingDropped
<1>6. QED
  BY <1>2, <1>3, <1>5 DEF PipeInv, StepInv

LEMMA WorkerPipe ==
    ASSUME PipeInv, LineInv', NEW w \in Workers, WorkerNext(w)
    PROVE  PipeInv'
<1>1. StepInv /\ RowsInv /\ LineInv
  BY DEF PipeInv, StepInv
<1>2. /\ delivered' = delivered /\ UNCHANGED <<seen, young, forgotten>>
      /\ UNCHANGED <<connector, agent, busy, crashes>>
  BY DEF WorkerNext, Take, StartAgent, NotPublished, UnpublishedReply, AgentAnswers,
         AgentSilent, SendAnswer, ProcessFails, ProcessTimesOut, FailureReply, Alert,
         TimeoutReply, history
<1>3. CASE Take(w)
  <2>1. settled' = settled /\ handled' = handled
    BY <1>3 DEF Take, history
  <2>2. /\ JobsInv'
        /\ \A k \in Event : Due(k)' = Due(k)
        /\ \A ch \in Chats : queue'[ch] # None => Len(queue'[ch]) <= QueueLimit
    BY <1>1, <1>3, TakeJobs
  <2>3. RowsInv'
    BY <1>1, <1>2, <2>1, <2>2 DEF RowsInv
  <2>4. \A k \in Event : Due(k)' \in Nat /\ Due(k)' <= Due(k)
    BY <1>1, <2>2, DueType
  <2>5. \A k \in Event : Pending(k) => Pending(k)'
    BY <1>1, <1>3, PendingTaken
  <2>6. QED
    BY <1>2, <2>1, <2>2, <2>3, <2>4, <2>5, QuietPipe
<1>4. CASE StartAgent(w)
  <2>1. settled' = settled /\ queue' = queue
    BY <1>4 DEF StartAgent
  <2>2. /\ JobsInv'
        /\ \A k \in Event : Due(k)' = Due(k)
        /\ handled' \in [Event -> Nat]
    BY <1>1, <1>4, StartAgentJobs
  <2>3. RowsInv'
    BY <1>1, <1>2, <2>1, <2>2 DEF RowsInv
  <2>4. \A k \in Event : Due(k)' \in Nat /\ Due(k)' <= Due(k)
    BY <1>1, <2>2, DueType
  <2>5. \A v \in Workers : worker'[v].job = worker[v].job
    BY <1>1, <1>4 DEF StartAgent, GoTo, LineInv, WorkerState
  <2>6. \A k \in Event : Pending(k) => Pending(k)'
    BY <2>1, <2>5, PendingSame
  <2>7. QED
    BY <1>2, <2>1, <2>2, <2>3, <2>4, <2>6, QuietPipe
<1>5. CASE NotPublished(w) \/ AgentAnswers(w) \/ ProcessFails(w) \/ ProcessTimesOut(w)
           \/ FailureReply(w)
  <2>1. UNCHANGED <<queue, handled, settled>>
    BY <1>5 DEF NotPublished, AgentAnswers, ProcessFails, ProcessTimesOut, FailureReply, history
  <2>2. PICK pc \in {"unpublished", "send", "failed", "timedOut", "alert"} : GoTo(w, pc)
    BY <1>5 DEF NotPublished, AgentAnswers, ProcessFails, ProcessTimesOut, FailureReply
  <2>3. JobsInv' /\ \A k \in Event : Due(k)' \in Nat /\ Due(k)' <= Due(k)
    BY <1>1, <2>1, <2>2, GoToJobs
  <2>4. RowsInv'
    BY <1>1, <1>2, <2>1 DEF RowsInv
  <2>5. \A v \in Workers : worker'[v].job = worker[v].job
    BY <1>1, <2>2 DEF GoTo, LineInv, WorkerState
  <2>6. \A k \in Event : Pending(k) => Pending(k)'
    BY <2>1, <2>5, PendingSame
  <2>7. QED
    BY <1>2, <2>1, <2>3, <2>4, <2>6, QuietPipe
<1>6. CASE UnpublishedReply(w) \/ AgentSilent(w) \/ SendAnswer(w) \/ Alert(w)
           \/ TimeoutReply(w)
  <2>1. /\ EndJob(w) /\ worker[w].pc \notin {"dead", "wait"}
        /\ UNCHANGED <<queue, handled>>
    BY <1>6 DEF UnpublishedReply, AgentSilent, SendAnswer, Alert, TimeoutReply
  <2>2. settled' = settled \cup {worker[w].job.event} /\ worker[w].job.event \in Event
    BY <1>1, <2>1, JobOfWorker DEF EndJob
  <2>3. JobsInv' /\ \A k \in Event : Due(k)' \in Nat /\ Due(k)' <= Due(k)
    BY <1>1, <2>1, EndJobJobs
  <2>4. RowsInv'
    BY <1>1, <1>2, <2>1, <2>2 DEF RowsInv
  <2>5. \A k \in Event : Pending(k) => Pending(k)' \/ k \in settled'
    BY <1>1, <2>1, PendingEnds
  <2>6. QED
    BY <1>2, <2>2, <2>3, <2>4, <2>5, QuietPipe
<1>7. QED
  BY <1>3, <1>4, <1>5, <1>6 DEF WorkerNext

LEMMA RestartPipe ==
    ASSUME PipeInv, LineInv', Restart
    PROVE  PipeInv'
<1>1. StepInv /\ RowsInv /\ TableInv /\ DueInv
  BY DEF PipeInv, StepInv
<1>2. JobsInv' /\ \A k \in Event : Due(k)' \in Nat /\ Due(k)' <= Due(k)
  BY <1>1, RestartJobs
<1>3. TableInv' /\ ToSet(seen)' = {}
  BY EmptyTable DEF Restart
<1>4. Noted
  BY <1>3 DEF Restart, Noted
<1>5. ToSet(seen) \subseteq Event
  BY <1>1 DEF TableInv, ToSet
<1>6. RowsInv'
  BY <1>1, <1>5, PipelineAssumption DEF Restart, RowsInv
<1>7. DueInv'
  BY <1>1, <1>2, <1>4, SameDeliveries, DueKept DEF Restart
<1>8. NothingDropped'
  BY <1>3 DEF NothingDropped
<1>9. QED
  BY <1>2, <1>3, <1>6, <1>7, <1>8 DEF PipeInv, StepInv

LEMMA AgePipe ==
    ASSUME PipeInv, LineInv', Age
    PROVE  PipeInv'
<1>1. StepInv /\ RowsInv /\ TableInv /\ DueInv
  BY DEF PipeInv, StepInv
<1>2. UNCHANGED <<connector, agent, delivered, queue, worker, busy, handled, settled, crashes>>
  BY DEF Age
<1>3. JobsInv' /\ \A k \in Event : Due(k)' \in Nat /\ Due(k)' <= Due(k)
  BY <1>1, <1>2, OtherJobs
<1>4. TableInv' /\ Noted /\ ToSet(seen)' \subseteq ToSet(seen)
  BY <1>1, AgeTable
<1>5. forgotten' \subseteq Event
  BY <1>1 DEF Age, TableInv, RowsInv
<1>6. RowsInv'
  BY <1>1, <1>2, <1>5 DEF RowsInv
<1>7. DueInv'
  BY <1>1, <1>2, <1>3, <1>4, SameDeliveries, DueKept
<1>8. ToSet(seen) \subseteq Event
  BY <1>1 DEF TableInv, ToSet
<1>9. \A k \in Event : Pending(k) => Pending(k)'
  BY <1>2, PendingSame
<1>10. NothingDropped'
  BY <1>2, <1>4, <1>8, <1>9 DEF PipeInv, NothingDropped
<1>11. QED
  BY <1>3, <1>4, <1>6, <1>7, <1>10 DEF PipeInv, StepInv

\* The busy reply and the administration.
LEMMA OtherPipe ==
    ASSUME PipeInv, LineInv', UNCHANGED <<queue, worker, handled, delivered, crashes>>,
           UNCHANGED <<seen, young, forgotten>>,
           connector' \in ConnectorState, agent' \in AgentState,
           busy' \subseteq busy, settled' \subseteq settled \cup busy,
           settled \subseteq settled', busy \subseteq busy' \cup settled'
    PROVE  PipeInv'
<1>1. StepInv /\ RowsInv
  BY DEF PipeInv, StepInv
<1>2. JobsInv' /\ \A k \in Event : Due(k)' \in Nat /\ Due(k)' <= Due(k)
  BY <1>1, OtherJobs
<1>3. RowsInv'
  BY <1>1 DEF RowsInv
<1>4. \A k \in Event : Pending(k) => Pending(k)'
  BY PendingSame
<1>5. QED
  BY <1>2, <1>3, <1>4, QuietPipe

LEMMA NextPipe == PipeInv /\ [Next]_vars => PipeInv'
<1> SUFFICES ASSUME PipeInv, [Next]_vars
             PROVE  PipeInv'
  OBVIOUS
<1>1. LineInv'
  BY NextLine DEF PipeInv, StepInv
<1>2. connector \in ConnectorState /\ agent \in AgentState
  BY DEF PipeInv, StepInv, RowsInv
<1>3. CASE \E e \in Event : WebhookNext(e)
  BY <1>1, <1>3, WebhookPipe
<1>4. CASE \E e \in Event : BusyReply(e)
  <2>1. PICK e \in Event : BusyReply(e)
    BY <1>4
  <2>2. busy' = busy \ {e} /\ settled' = settled \cup {e} /\ e \in busy
    BY <2>1 DEF BusyReply
  <2>3. /\ UNCHANGED <<queue, worker, handled, delivered, crashes>>
        /\ UNCHANGED <<seen, young, forgotten>>
        /\ UNCHANGED <<connector, agent>>
    BY <2>1 DEF BusyReply
  <2>4. QED
    BY <1>1, <1>2, <2>2, <2>3, OtherPipe
<1>5. CASE \E w \in Workers : WorkerNext(w)
  BY <1>1, <1>5, WorkerPipe
<1>6. CASE \/ \E enabled \in BOOLEAN : CreateConnector(enabled) \/ UpdateConnector(enabled)
           \/ DeleteConnector \/ Publish \/ Unpublish \/ DeleteAgent
           \/ UNCHANGED vars
  <2>1. UNCHANGED pipeline
    BY <1>6 DEF CreateConnector, UpdateConnector, DeleteConnector, Publish, Unpublish,
                DeleteAgent, pipeline, vars, history
  <2>2. connector' \in ConnectorState /\ agent' \in AgentState
    BY <1>2, <1>6 DEF CreateConnector, UpdateConnector, DeleteConnector, Publish, Unpublish,
                      DeleteAgent, vars, ConnectorState, AgentState
  <2>3. QED
    BY <1>1, <2>1, <2>2, OtherPipe DEF pipeline, history
<1>7. CASE Age
  BY <1>1, <1>7, AgePipe
<1>8. CASE Restart
  BY <1>1, <1>8, RestartPipe
<1>9. QED
  BY <1>3, <1>4, <1>5, <1>6, <1>7, <1>8 DEF Next

THEOREM PipeAlways == Spec => []PipeInv
<1>1. PipeInv /\ [Next]_vars => PipeInv'
  BY NextPipe
<1>2. QED
  BY <1>1, InitPipe, PTL DEF Spec

\* The queues, the workers, the table of seen events, which keeps to its
\* capacity, and the counters are well formed.
THEOREM TypeOKAlways == Spec => []TypeOK
<1>1. PipeInv => TypeOK
  <2> SUFFICES ASSUME PipeInv PROVE TypeOK
    OBVIOUS
  <2>1. StepInv /\ RowsInv /\ LineInv /\ TableInv /\ DueInv
    BY DEF PipeInv, StepInv
  <2>2. ASSUME NEW k \in Event
        PROVE  handled[k] \in 0..MaxDeliveries
    <3> DEFINE p == Cardinality(Places(Jobs(k[1]), k))
    <3>1. p \in Nat /\ handled[k] \in Nat
      BY <2>1, DueType
    <3>2. Due(k) = p + (IF Starting(k) THEN 1 ELSE 0) + handled[k]
      BY DEF Due
    <3>3. Due(k) <= delivered[k] /\ delivered[k] \in 0..MaxDeliveries
      BY <2>1 DEF DueInv, RowsInv
    <3> HIDE DEF p
    <3>4. handled[k] <= Due(k) /\ Due(k) \in Nat
      BY <3>1, <3>2
    <3>5. QED
      BY <3>1, <3>3, <3>4, PipelineAssumption
  <2>3. handled \in [Event -> 0..MaxDeliveries]
    BY <2>1, <2>2 DEF RowsInv
  <2>4. QED
    BY <2>1, <2>3 DEF RowsInv, TableInv, LineInv, TypeOK
<1>2. QED
  BY <1>1, PipeAlways, PTL

\* However often the platform repeats a delivery, and whatever the workers
\* fail at, the agent runs once on an event that was not forgotten.
THEOREM HandledOnceAlways == Spec => []HandledOnce
<1>1. PipeInv => HandledOnce
  <2> SUFFICES ASSUME PipeInv, NEW k \in Event, k \notin forgotten
               PROVE  handled[k] <= 1
    BY DEF HandledOnce
  <2> DEFINE p == Cardinality(Places(Jobs(k[1]), k))
             old == k \in ToSet(seen)
  <2>1. p \in Nat /\ handled[k] \in Nat
    BY DueType DEF PipeInv
  <2>2. Due(k) = p + (IF Starting(k) THEN 1 ELSE 0) + handled[k]
    BY DEF Due
  <2>3. Due(k) <= IF old THEN 1 ELSE 0
    BY DEF PipeInv, DueInv
  <2> HIDE DEF p, old
  <2>4. handled[k] <= Due(k) /\ Due(k) \in Nat
    BY <2>1, <2>2
  <2>5. QED
    BY <2>1, <2>3, <2>4
<1>2. QED
  BY <1>1, PipeAlways, PTL

\* An event the gateway would take for a repetition has not got lost: it
\* waits, is being processed or refused, or came to its end.
THEOREM NothingDroppedAlways == Spec => []NothingDropped
<1>1. PipeInv => NothingDropped
  BY DEF PipeInv
<1>2. QED
  BY <1>1, PipeAlways, PTL

=============================================================================
