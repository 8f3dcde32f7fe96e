------------------------- MODULE PendingTasksProofs -------------------------
(***************************************************************************)
(* Theorems about PendingTasks, for every set of conversations, agents,    *)
(* targets, tasks, turns and calls: types, the foreign key and the         *)
(* separation of conversations whatever overlaps; where an answer goes and *)
(* which question it answers in the conversations whose clients wait.      *)
(***************************************************************************)
EXTENDS PendingTasks, TLAPS

-----------------------------------------------------------------------------
(* Type correctness. *)

\* What each step of a turn and of a call has already established: type
\* correctness is inductive only together with it.
WellFormed ==
    /\ \A r \in Rounds : round[r].pc # "idle" =>
          round[r].thread \in Threads /\ round[r].agent \in Agents
    /\ \A c \in Calls : call[c].pc # "idle" =>
          call[c].thread \in Threads /\ call[c].agent \in Agents
    /\ \A c \in Calls : call[c].pc \in {"stream", "load", "save"} =>
          call[c].target \in Targets
    /\ \A c \in Calls : call[c].pc \in {"load", "save"} =>
          call[c].ask \in Question
    /\ \A c \in Calls : call[c].pc = "stream" /\ call[c].kind # "call" =>
          call[c].task \in Tasks

TypeInv == TypeOK /\ WellFormed

LEMMA FreeCallType == FreeCall \in CallState
BY DEF FreeCall, NewCall, CallState

LEMMA IdleRoundType == IdleRound \in RoundState
BY DEF IdleRound, RoundState

LEMMA InitTypeInv == Init => TypeInv
<1> SUFFICES ASSUME Init PROVE TypeInv
  OBVIOUS
<1>1. TypeOK
  BY PendingAssumption, FreeCallType, IdleRoundType DEF Init, TypeOK, DownstreamTask
<1>2. WellFormed
  BY DEF Init, WellFormed, FreeCall, NewCall, IdleRound
<1> QED
  BY <1>1, <1>2 DEF TypeInv

LEMMA RoundTypeInv ==
  ASSUME TypeInv, NEW r \in Rounds, RoundNext(r)
  PROVE  TypeInv'
<1> USE DEF TypeInv, TypeOK
<1>1. ASSUME NEW a \in Agents, NEW th \in Threads, StartRound(r, a, th)
      PROVE  TypeInv'
  <2>1. round' \in [Rounds -> RoundState]
    BY <1>1 DEF StartRound, RoundState
  <2> QED
    BY <1>1, <2>1 DEF StartRound, WellFormed
<1>2. ASSUME NoticeExpired(r) PROVE TypeInv'
  BY <1>2 DEF NoticeExpired, WellFormed, RoundState
<1>3. ASSUME NoticePurge(r) PROVE TypeInv'
  BY <1>3 DEF NoticePurge, Remove, WellFormed, RoundState
<1>4. ASSUME NEW c \in Calls, NEW x \in Targets, LaunchCall(r, c, x)
      PROVE  TypeInv'
  <2>1. call' \in [Calls -> CallState]
    BY <1>4 DEF LaunchCall, NewCall, CallState, RoundState
  <2> QED
    BY <1>4, <2>1 DEF LaunchCall, WellFormed, NewCall
<1>5. ASSUME NEW c \in Calls, LaunchResume(r, c)
      PROVE  TypeInv'
  <2>1. call' \in [Calls -> CallState]
    BY <1>5 DEF LaunchResume, NewCall, CallState, RoundState
  <2> QED
    BY <1>5, <2>1 DEF LaunchResume, WellFormed, NewCall
<1>6. ASSUME EndInterrupted(r) PROVE TypeInv'
  BY <1>6, IdleRoundType DEF EndInterrupted, WellFormed, IdleRound, Row
<1>7. ASSUME EndPlain(r) PROVE TypeInv'
  BY <1>7, IdleRoundType DEF EndPlain, WellFormed, IdleRound
<1>8. ASSUME EndExpired(r) PROVE TypeInv'
  BY <1>8 DEF EndExpired, WellFormed, RoundState
<1>9. ASSUME EndPurge(r) PROVE TypeInv'
  BY <1>9, IdleRoundType DEF EndPurge, Remove, WellFormed, IdleRound
<1>10. ASSUME AbortRound(r) PROVE TypeInv'
  BY <1>10, IdleRoundType, FreeCallType DEF AbortRound, WellFormed, IdleRound, FreeCall, NewCall
<1> QED
  BY <1>1, <1>2, <1>3, <1>4, <1>5, <1>6, <1>7, <1>8, <1>9, <1>10 DEF RoundNext

LEMMA CallTypeInv ==
  ASSUME TypeInv, NEW c \in Calls, CallNext(c)
  PROVE  TypeInv'
<1> USE DEF TypeInv, TypeOK
<1> DEFINE th == call[c].thread
<1>1. ASSUME NEW a \in Agents, NEW h \in Threads, StartRpc(c, a, h)
      PROVE  TypeInv'
  <2>1. call' \in [Calls -> CallState]
    BY <1>1 DEF StartRpc, NewCall, CallState
  <2> QED
    BY <1>1, <2>1 DEF StartRpc, WellFormed, NewCall
<1>2. ASSUME Finish(c), UNCHANGED <<alive, bound, task, round>>,
             table' \in [Threads -> Row \cup {None}],
             shown' \in [Threads -> Question \cup {None}]
      PROVE  TypeInv'
  BY <1>2, FreeCallType DEF Finish, WellFormed, FreeCall, NewCall
<1>3. ASSUME AbortRpc(c) PROVE TypeInv'
  BY <1>2, <1>3 DEF AbortRpc
<1>4. ASSUME GetNothing(c) PROVE TypeInv'
  BY <1>2, <1>4 DEF GetNothing
<1>5. ASSUME GetExpired(c) PROVE TypeInv'
  BY <1>5 DEF GetExpired, WellFormed, CallState
<1>6. ASSUME Resumable(c) PROVE th \in Threads /\ table[th] \in Row
  BY <1>6 DEF Resumable, WellFormed
<1>7. ASSUME GetRecord(c) PROVE TypeInv'
  <2>1. th \in Threads /\ table[th] \in Row
    BY <1>6, <1>7 DEF GetRecord
  <2>2. table[th].target \in Targets /\ table[th].task \in Tasks
    BY <2>1 DEF Row
  <2>3. call' \in [Calls -> CallState]
    BY <1>7, <2>2 DEF GetRecord, MoveTo, CallState
  <2> QED
    BY <1>7, <2>2, <2>3 DEF GetRecord, Resumable, MoveTo, WellFormed
<1>8. ASSUME GetUnmatched(c) PROVE TypeInv'
  <2>1. th \in Threads /\ table[th] \in Row
    BY <1>6, <1>8 DEF GetUnmatched
  <2>2. call' \in [Calls -> CallState]
    BY <1>8, <2>1 DEF GetUnmatched, MoveTo, CallState, Row
  <2> QED
    BY <1>8, <2>1, <2>2 DEF GetUnmatched, MoveTo, Resumable, WellFormed, CallState
<1>9. ASSUME StreamSettled(c) PROVE TypeInv'
  <2>1. call' \in [Calls -> CallState]
    BY <1>9, FreeCallType DEF StreamSettled, CallState
  <2> QED
    BY <1>9, <2>1 DEF StreamSettled, WellFormed, FreeCall, NewCall, CallState
<1>10. ASSUME NEW k \in Tasks, StreamAsks(c, k) PROVE TypeInv'
  <2>1. <<k, 1>> \in Question
    BY PendingAssumption DEF Question
  <2>2. call' \in [Calls -> CallState]
    BY <1>10, <2>1 DEF StreamAsks, MoveTo, CallState
  <2>3. task' \in [Tasks -> DownstreamTask]
    BY <1>10, PendingAssumption DEF StreamAsks, MoveTo, DownstreamTask, WellFormed
  <2> QED
    BY <1>10, <2>1, <2>2, <2>3 DEF StreamAsks, MoveTo, WellFormed, CallState
<1>11. ASSUME StreamAsksAgain(c) PROVE TypeInv'
  <2> DEFINE k == call[c].task
  <2>1. k \in Tasks /\ task[k].n + 1 \in 1..MaxAsk
    BY <1>11, PendingAssumption DEF StreamAsksAgain, MoveTo, WellFormed, DownstreamTask
  <2>2. <<k, task[k].n + 1>> \in Question
    BY <2>1 DEF Question
  <2>3. call' \in [Calls -> CallState]
    BY <1>11, <2>2 DEF StreamAsksAgain, MoveTo, CallState
  <2>4. task' \in [Tasks -> DownstreamTask]
    BY <1>11, <2>1, PendingAssumption DEF StreamAsksAgain, MoveTo, DownstreamTask
  <2> QED
    BY <1>11, <2>2, <2>3, <2>4 DEF StreamAsksAgain, MoveTo, WellFormed, CallState
<1>12. ASSUME UpsertLoad(c) PROVE TypeInv'
  <2>1. table[th] \in Row \cup {None}
    BY <1>12 DEF UpsertLoad, MoveTo, WellFormed
  <2>2. call' \in [Calls -> CallState]
    BY <1>12, <2>1 DEF UpsertLoad, MoveTo, CallState
  <2> QED
    BY <1>12, <2>2 DEF UpsertLoad, MoveTo, WellFormed, CallState
<1>13. ASSUME UpsertSave(c) PROVE TypeInv'
  <2>1. /\ th \in Threads
        /\ Written(c) \in Row
    BY <1>13 DEF UpsertSave, WellFormed, Written, Row, Question
  <2>2. ASSUME call[c].seen # None
        PROVE  Merge(Written(c), call[c].seen, table[th]) \in Row
    <3>1. table[th] \in Row /\ call[c].seen \in Row
      BY <1>13, <2>1, <2>2 DEF UpsertSave, CanInsert, CanUpdate, CallState
    <3> QED
      BY <2>1, <3>1 DEF Merge, Changed, Row
  <2>3. table' \in [Threads -> Row \cup {None}]
    BY <1>13, <2>1, <2>2 DEF UpsertSave
  <2>4. shown' \in [Threads -> Question \cup {None}]
    BY <1>13, <2>1 DEF UpsertSave, WellFormed
  <2> QED
    BY <1>2, <1>13, <2>3, <2>4 DEF UpsertSave
<1>14. ASSUME UpsertFails(c) PROVE TypeInv'
  BY <1>2, <1>14 DEF UpsertFails
<1>15. ASSUME DeleteRow(c) PROVE TypeInv'
  BY <1>2, <1>15 DEF DeleteRow, Remove
<1> QED
  BY <1>1, <1>3, <1>4, <1>5, <1>7, <1>8, <1>9, <1>10, <1>11, <1>12, <1>13,
     <1>14, <1>15 DEF CallNext

LEMMA OutsideTypeInv ==
  ASSUME TypeInv, OutsideNext
  PROVE  TypeInv'
<1> USE DEF TypeInv, TypeOK
<1>1. ASSUME NEW th \in Threads, DeleteConversation(th) PROVE TypeInv'
  BY <1>1 DEF DeleteConversation, Remove, WellFormed
<1>2. ASSUME NEW a \in Agents, DeleteAgent(a) PROVE TypeInv'
  BY <1>2 DEF DeleteAgent, WellFormed
<1>3. ASSUME NEW a \in Agents, NEW targets \in SUBSET Targets, Rebind(a, targets)
      PROVE  TypeInv'
  BY <1>3 DEF Rebind, WellFormed
<1>4. ASSUME NEW th \in Threads, Expire(th) PROVE TypeInv'
  BY <1>4 DEF Expire, WellFormed, Row
<1> QED
  BY <1>1, <1>2, <1>3, <1>4 DEF OutsideNext

LEMMA StepTypeInv == TypeInv /\ [Next]_vars => TypeInv'
<1>1. ASSUME TypeInv, UNCHANGED vars PROVE TypeInv'
  BY <1>1 DEF vars, TypeInv, TypeOK, WellFormed
<1> QED
  BY <1>1, RoundTypeInv, CallTypeInv, OutsideTypeInv DEF Next

\* Every reachable state is well typed, and every step of a turn or a call
\* finds the thread, agent, target and task that the steps before it fixed.
THEOREM TypeCorrect == Spec => []TypeInv
BY InitTypeInv, StepTypeInv, PTL DEF Spec

\* The type invariant that the runs check.
THEOREM TypeOKAlways == Spec => []TypeOK
BY TypeCorrect, PTL DEF TypeInv

-----------------------------------------------------------------------------
(* The foreign key covers every interleaving of upsert and agent deletion. *)

LEMMA InitRowsOfLiveAgents == Init => RowsOfLiveAgents
BY DEF Init, RowsOfLiveAgents

LEMMA StepRowsOfLiveAgents ==
  TypeInv /\ RowsOfLiveAgents /\ [Next]_vars => RowsOfLiveAgents'
<1> SUFFICES ASSUME TypeInv, RowsOfLiveAgents, [Next]_vars
             PROVE  RowsOfLiveAgents'
  OBVIOUS
<1> USE DEF TypeInv, TypeOK, RowsOfLiveAgents
<1>1. ASSUME UNCHANGED <<table, alive>> PROVE RowsOfLiveAgents'
  BY <1>1
<1>2. ASSUME NEW th, Remove(th), UNCHANGED alive PROVE RowsOfLiveAgents'
  BY <1>2 DEF Remove
<1>3. ASSUME NEW r \in Rounds, RoundNext(r) PROVE RowsOfLiveAgents'
  BY <1>1, <1>2, <1>3
     DEF RoundNext, StartRound, NoticeExpired, NoticePurge, LaunchCall, LaunchResume,
         EndInterrupted, EndPlain, EndExpired, EndPurge, AbortRound
<1>4. ASSUME NEW c \in Calls, UpsertSave(c) PROVE RowsOfLiveAgents'
  <2> DEFINE th == call[c].thread
  <2>1. th \in Threads
    BY <1>4 DEF UpsertSave, WellFormed
  <2>2. CASE call[c].seen = None
    BY <1>4, <2>1, <2>2, NoneAssumption DEF UpsertSave, CanInsert, CanUpdate, Written
  <2>3. CASE call[c].seen # None
    <3>1. table[th] # None /\ call[c].agent \in alive \cup {call[c].seen.agent}
      BY <1>4, <2>3 DEF UpsertSave, CanInsert, CanUpdate
    <3>2. Merge(Written(c), call[c].seen, table[th]).agent \in alive
      BY <2>1, <3>1 DEF Merge, Changed, Written
    <3>3. table' = [table EXCEPT ![th] = Merge(Written(c), call[c].seen, table[th])]
      BY <1>4, <2>3 DEF UpsertSave
    <3> QED
      BY <1>4, <2>1, <3>2, <3>3 DEF UpsertSave
  <2> QED
    BY <2>2, <2>3
<1>5. ASSUME NEW c \in Calls, CallNext(c) PROVE RowsOfLiveAgents'
  BY <1>1, <1>2, <1>4, <1>5
     DEF CallNext, StartRpc, AbortRpc, GetNothing, GetExpired, GetRecord, GetUnmatched,
         StreamSettled, StreamAsks, StreamAsksAgain, UpsertLoad, UpsertFails, DeleteRow
<1>6. ASSUME OutsideNext PROVE RowsOfLiveAgents'
  <2>1. ASSUME NEW th \in Threads, DeleteConversation(th) PROVE RowsOfLiveAgents'
    BY <1>2, <2>1 DEF DeleteConversation
  <2>2. ASSUME NEW a \in Agents, DeleteAgent(a) PROVE RowsOfLiveAgents'
    BY <2>2 DEF DeleteAgent
  <2>3. ASSUME NEW a \in Agents, NEW targets \in SUBSET Targets, Rebind(a, targets)
        PROVE  RowsOfLiveAgents'
    BY <1>1, <2>3 DEF Rebind
  <2>4. ASSUME NEW th \in Threads, Expire(th) PROVE RowsOfLiveAgents'
    BY <2>4 DEF Expire, Row
  <2> QED
    BY <1>6, <2>1, <2>2, <2>3, <2>4 DEF OutsideNext
<1> QED
  BY <1>1, <1>3, <1>5, <1>6 DEF Next, vars

\* No interleaving of turns, resume requests and the deletion of an agent
\* leaves a record of an agent that no longer exists.
THEOREM RowsOfLiveAgentsAlways == Spec => []RowsOfLiveAgents
BY TypeCorrect, InitRowsOfLiveAgents, StepRowsOfLiveAgents, PTL DEF Spec

-----------------------------------------------------------------------------
(* Conversations do not mix. *)

\* What is under way refers to tasks of its own conversation as well, and a
\* task that was not created yet belongs to no conversation.
HomeInv ==
    /\ RowsStayHome
    /\ ResumesStayHome
    /\ \A k \in Tasks : task[k].n = 0 => task[k].home = None
    /\ \A c \in Calls : call[c].pc = "idle" => call[c].task = None
    /\ \A c \in Calls : call[c].pc \in {"load", "save"} =>
          task[call[c].ask[1]].home = call[c].thread

LEMMA InitHomeInv == Init => HomeInv
BY DEF Init, HomeInv, RowsStayHome, ResumesStayHome, FreeCall, NewCall

LEMMA RoundHomeInv ==
  ASSUME TypeInv, HomeInv, NEW r \in Rounds, RoundNext(r)
  PROVE  HomeInv'
<1> USE DEF TypeInv, TypeOK, HomeInv, RowsStayHome, ResumesStayHome
<1>1. ASSUME UNCHANGED <<task, call>>,
             \A th \in Threads : table'[th] \in {table[th], None}
      PROVE  HomeInv'
  BY <1>1
<1>2. ASSUME NEW c \in Calls, NEW x \in Targets, LaunchCall(r, c, x)
      PROVE  HomeInv'
  BY <1>2 DEF LaunchCall, NewCall
<1>3. ASSUME NEW c \in Calls, LaunchResume(r, c) PROVE HomeInv'
  BY <1>3 DEF LaunchResume, NewCall
<1>4. ASSUME AbortRound(r) PROVE HomeInv'
  BY <1>4 DEF AbortRound, FreeCall, NewCall
<1> QED
  BY <1>1, <1>2, <1>3, <1>4
     DEF RoundNext, StartRound, NoticeExpired, NoticePurge, EndInterrupted, EndPlain,
         EndExpired, EndPurge, Remove

LEMMA CallHomeInv ==
  ASSUME TypeInv, HomeInv, NEW c \in Calls, CallNext(c)
  PROVE  HomeInv'
<1> USE DEF TypeInv, TypeOK, HomeInv, RowsStayHome, ResumesStayHome
<1> DEFINE th == call[c].thread
<1>1. ASSUME Finish(c), UNCHANGED task,
             \A h \in Threads : table'[h] \in {table[h], None}
      PROVE  HomeInv'
  BY <1>1 DEF Finish, FreeCall, NewCall
<1>2. ASSUME NEW a \in Agents, NEW h \in Threads, StartRpc(c, a, h) PROVE HomeInv'
  BY <1>2 DEF StartRpc, NewCall
<1>3. ASSUME GetExpired(c) PROVE HomeInv'
  BY <1>3 DEF GetExpired, CallState
<1>4. ASSUME Resumable(c)
      PROVE  th \in Threads /\ table[th].task \in Tasks /\ task[table[th].task].home = th
  BY <1>4 DEF Resumable, WellFormed, Row
<1>5. ASSUME GetRecord(c) PROVE HomeInv'
  BY <1>4, <1>5 DEF GetRecord, MoveTo
<1>6. ASSUME GetUnmatched(c) PROVE HomeInv'
  BY <1>4, <1>6 DEF GetUnmatched, MoveTo
<1>7. ASSUME StreamSettled(c) PROVE HomeInv'
  BY <1>7 DEF StreamSettled, FreeCall, NewCall, CallState
<1>8. ASSUME NEW k \in Tasks, StreamAsks(c, k) PROVE HomeInv'
  <2>1. task[k].home = None /\ th # None
    BY <1>8, PendingAssumption DEF StreamAsks, WellFormed
  <2>2. \A j \in Tasks : j # k => task'[j] = task[j]
    BY <1>8 DEF StreamAsks
  <2>3. task'[k].home = th /\ task'[k].n = 1
    BY <1>8 DEF StreamAsks
  <2>4. RowsStayHome'
    BY <1>8, <2>1, <2>2, PendingAssumption DEF StreamAsks, Row, Question
  <2>5. ResumesStayHome'
    BY <1>8, <2>1, <2>2, PendingAssumption DEF StreamAsks, MoveTo, WellFormed, CallState
  <2>6. \A d \in Calls : call'[d].pc \in {"load", "save"} =>
           task'[call'[d].ask[1]].home = call'[d].thread
    <3>1. ASSUME NEW d \in Calls, d # c, call'[d].pc \in {"load", "save"}
          PROVE  task'[call'[d].ask[1]].home = call'[d].thread
      <4>1. call'[d] = call[d]
        BY <1>8, <3>1 DEF StreamAsks, MoveTo
      <4>2. call[d].ask[1] \in Tasks /\ call[d].thread # None
        BY <3>1, <4>1, PendingAssumption DEF WellFormed, Question
      <4>3. call[d].ask[1] # k
        BY <3>1, <4>1, <4>2, <2>1
      <4> QED
        BY <3>1, <4>1, <4>2, <4>3, <2>2
    <3>2. task'[call'[c].ask[1]].home = call'[c].thread
      BY <1>8, <2>3 DEF StreamAsks, MoveTo
    <3> QED
      BY <3>1, <3>2
  <2> QED
    BY <1>8, <2>2, <2>3, <2>4, <2>5, <2>6 DEF StreamAsks, MoveTo
<1>9. ASSUME StreamAsksAgain(c) PROVE HomeInv'
  <2> DEFINE k == call[c].task
  <2>1. k \in Tasks /\ k # None
    BY <1>9, PendingAssumption DEF StreamAsksAgain, WellFormed
  <2>2. \A j \in Tasks : /\ task'[j].home = task[j].home
                         /\ task'[j].n = 0 => task[j].n = 0
    BY <1>9, <2>1 DEF StreamAsksAgain, DownstreamTask
  <2>3. RowsStayHome'
    BY <1>9, <2>2 DEF StreamAsksAgain, Row, Question
  <2>4. ResumesStayHome'
    BY <1>9, <2>1, <2>2 DEF StreamAsksAgain, MoveTo, CallState
  <2>5. \A d \in Calls : call'[d].pc \in {"load", "save"} =>
           task'[call'[d].ask[1]].home = call'[d].thread
    BY <1>9, <2>1, <2>2 DEF StreamAsksAgain, MoveTo, WellFormed, Question
  <2> QED
    BY <1>9, <2>1, <2>2, <2>3, <2>4, <2>5 DEF StreamAsksAgain, MoveTo
<1>10. ASSUME UpsertLoad(c) PROVE HomeInv'
  BY <1>10 DEF UpsertLoad, MoveTo
<1>11. ASSUME UpsertSave(c) PROVE HomeInv'
  <2>1. /\ th \in Threads
        /\ task[call[c].ask[1]].home = th
    BY <1>11 DEF UpsertSave, WellFormed
  <2>2. call[c].seen # None => table[th] # None
    BY <1>11 DEF UpsertSave, CanInsert, CanUpdate
  <2>3. /\ task[table'[th].task].home = th
        /\ task[table'[th].question[1]].home = th
    BY <1>11, <2>1, <2>2 DEF UpsertSave, Written, Merge, Changed
  <2>4. RowsStayHome'
    BY <1>11, <2>3 DEF UpsertSave
  <2> QED
    BY <1>11, <2>4 DEF UpsertSave, Finish, FreeCall, NewCall
<1> QED
  BY <1>1, <1>2, <1>3, <1>5, <1>6, <1>7, <1>8, <1>9, <1>10, <1>11
     DEF CallNext, AbortRpc, GetNothing, UpsertFails, DeleteRow, Remove

LEMMA StepHomeInv == TypeInv /\ HomeInv /\ [Next]_vars => HomeInv'
<1> SUFFICES ASSUME TypeInv, HomeInv, [Next]_vars PROVE HomeInv'
  OBVIOUS
<1> USE DEF HomeInv, RowsStayHome, ResumesStayHome
<1>1. ASSUME UNCHANGED vars PROVE HomeInv'
  BY <1>1 DEF vars
<1>2. ASSUME UNCHANGED <<task, call>>,
             \A th \in Threads : table'[th] \in {table[th], None}
      PROVE  HomeInv'
  BY <1>2
<1>3. ASSUME NEW th \in Threads, Expire(th) PROVE HomeInv'
  BY <1>3 DEF Expire, TypeInv, TypeOK, Row
<1>4. ASSUME OutsideNext PROVE HomeInv'
  BY <1>2, <1>3, <1>4
     DEF OutsideNext, DeleteConversation, DeleteAgent, Rebind, Remove, TypeInv, TypeOK
<1> QED
  BY <1>1, <1>4, RoundHomeInv, CallHomeInv DEF Next

\* The row of a conversation holds a task and a question that were asked in
\* it, and a resume forwards the answer to a task asked in it.
THEOREM ConversationsApartAlways == Spec => []ConversationsApart
BY TypeCorrect, InitHomeInv, StepHomeInv, PTL DEF Spec, HomeInv, ConversationsApart

-----------------------------------------------------------------------------
(* Orderly conversations: one turn or resume request at a time, whatever *)
(* overlaps in the others.                                                *)

\* Turns and calls of different owners are on different conversations where
\* these are orderly, and a tool runs only while its turn is open.
AloneInv ==
    /\ \A r \in Rounds : round[r].pc = "idle" => round[r].thread = None
    /\ \A c \in Calls : call[c].pc = "idle" => call[c] = FreeCall
    /\ \A q, r \in Rounds :
          round[q].thread = round[r].thread /\ round[r].thread \in Orderly => q = r
    /\ \A c, d \in Calls :
          call[c].thread = call[d].thread /\ call[d].thread \in Orderly => c = d
    /\ \A c \in Calls : call[c].pc # "idle" /\ call[c].kind = "rpc" =>
          /\ call[c].round = None
          /\ call[c].thread \in Orderly =>
                \A r \in Rounds : round[r].thread # call[c].thread
    /\ \A c \in Calls : call[c].pc # "idle" /\ call[c].kind # "rpc" =>
          /\ call[c].round \in Rounds
          /\ round[call[c].round].pc = "open"
          /\ round[call[c].round].thread = call[c].thread

\* The target of a row is where its task waits.
RowOK(th) == table[th] # None => task[table[th].task].host = table[th].target

\* The client of a conversation is shown a question only while nothing is
\* under way there, and it is the question of the row.
ShownOK(th) ==
    shown[th] # None =>
        Quiet(th) /\ (table[th] # None => table[th].question = shown[th])

\* The row is the one loaded before, up to its age.
SameRow(now, seen) ==
    /\ seen # None
    /\ now.agent = seen.agent
    /\ now.target = seen.target
    /\ now.task = seen.task
    /\ now.question = seen.question

\* What a call has read of the row of its conversation is still so.
CallOK(c) ==
    LET me == call[c]
        row == table[me.thread]
    IN  /\ me.pc = "stream" /\ me.task # None => task[me.task].host = me.target
        /\ me.pc \in {"load", "save"} => task[me.ask[1]].host = me.target
        /\ me.pc = "save" /\ row # None => SameRow(row, me.seen)

OrderlyInv ==
    /\ AloneInv
    /\ \A th \in Orderly : RowOK(th) /\ ShownOK(th)
    /\ \A c \in Calls : call[c].thread \in Orderly => CallOK(c)

\* Orderly conversations are conversations, so None is not one of them.
LEMMA OrderlyThreads == Orderly \subseteq Threads /\ None \notin Orderly
BY PendingAssumption

\* Conversations that are left, and calls that are over, disturb nobody.
LEMMA AloneKept ==
    ASSUME TypeInv, AloneInv,
           \A q \in Rounds : round'[q].thread = round[q].thread \/ round'[q].thread = None,
           \A q \in Rounds : round'[q].pc = "idle" => round'[q].thread = None,
           \A c \in Calls : call'[c] = call[c] \/ call'[c] = FreeCall,
           \A c \in Calls, q \in Rounds :
              call'[c].pc # "idle" /\ call'[c].round = q =>
                 round'[q].pc = round[q].pc /\ round'[q].thread = round[q].thread
    PROVE  AloneInv'
<1>1. FreeCall.pc = "idle" /\ FreeCall.thread = None
  BY DEF FreeCall, NewCall
<1>2. ASSUME NEW c \in Calls, call'[c].pc = "idle" PROVE call'[c] = FreeCall
  BY <1>2 DEF AloneInv
<1>3. ASSUME NEW p \in Rounds, NEW q \in Rounds,
             round'[p].thread = round'[q].thread, round'[q].thread \in Orderly
      PROVE  p = q
  <2>1. round[p].thread = round[q].thread /\ round[q].thread \in Orderly
    BY <1>3, OrderlyThreads
  <2>2. QED
    BY <2>1 DEF AloneInv
<1>4. ASSUME NEW c \in Calls, NEW d \in Calls,
             call'[c].thread = call'[d].thread, call'[d].thread \in Orderly
      PROVE  c = d
  <2>1. call'[c] = call[c] /\ call'[d] = call[d]
    BY <1>1, <1>4, OrderlyThreads
  <2>2. QED
    BY <1>4, <2>1 DEF AloneInv
<1>5. ASSUME NEW c \in Calls, call'[c].pc # "idle", call'[c].kind = "rpc"
      PROVE  /\ call'[c].round = None
             /\ call'[c].thread \in Orderly =>
                   \A q \in Rounds : round'[q].thread # call'[c].thread
  <2>1. call'[c] = call[c] /\ call[c].thread # None
    BY <1>1, <1>5, PendingAssumption DEF TypeInv, WellFormed
  <2>2. /\ call[c].round = None
        /\ call[c].thread \in Orderly =>
              \A q \in Rounds : round[q].thread # call[c].thread
    BY <1>5, <2>1 DEF AloneInv
  <2>3. QED
    BY <2>1, <2>2
<1>6. ASSUME NEW c \in Calls, call'[c].pc # "idle", call'[c].kind # "rpc"
      PROVE  /\ call'[c].round \in Rounds
             /\ round'[call'[c].round].pc = "open"
             /\ round'[call'[c].round].thread = call'[c].thread
  <2>1. call'[c] = call[c]
    BY <1>1, <1>6
  <2>2. /\ call[c].round \in Rounds
        /\ round[call[c].round].pc = "open"
        /\ round[call[c].round].thread = call[c].thread
    BY <1>6, <2>1 DEF AloneInv
  <2>3. QED
    BY <1>6, <2>1, <2>2
<1>7. QED
  BY <1>2, <1>3, <1>4, <1>5, <1>6 DEF AloneInv

LEMMA InitOrderlyInv == Init => OrderlyInv
<1> SUFFICES ASSUME Init PROVE OrderlyInv
  OBVIOUS
<1>1. AloneInv
  BY OrderlyThreads DEF Init, AloneInv, IdleRound, FreeCall, NewCall
<1>2. \A th \in Orderly : RowOK(th) /\ ShownOK(th)
  BY OrderlyThreads DEF Init, RowOK, ShownOK
<1>3. \A c \in Calls : CallOK(c)
  BY DEF Init, CallOK, FreeCall, NewCall
<1>4. QED
  BY <1>1, <1>2, <1>3 DEF OrderlyInv

\* What a row or a call knows of the table survives a step that leaves
\* alone the conversation and the targets of the tasks asked in it.
LEMMA RowKept ==
    ASSUME TypeInv, HomeInv, NEW th \in Threads, RowOK(th), table'[th] = table[th],
           \A k \in Tasks : task[k].n # 0 => task'[k].host = task[k].host
    PROVE  RowOK(th)'
<1>1. CASE table[th] = None
  BY <1>1 DEF RowOK
<1>2. CASE table[th] # None
  <2>1. table[th].task \in Tasks /\ task[table[th].task].home = th
    BY <1>2 DEF TypeInv, TypeOK, Row, HomeInv, RowsStayHome
  <2>2. task[table[th].task].n # 0
    BY <2>1, PendingAssumption DEF HomeInv
  <2>3. QED
    BY <2>1, <2>2 DEF RowOK
<1>3. QED
  BY <1>1, <1>2

LEMMA CallKept ==
    ASSUME TypeInv, HomeInv, NEW c \in Calls, call[c].pc # "idle", CallOK(c),
           call'[c] = call[c], table'[call[c].thread] = table[call[c].thread],
           \A k \in Tasks : task[k].n # 0 => task'[k].host = task[k].host
    PROVE  CallOK(c)'
<1> DEFINE me == call[c]
<1>1. me.thread \in Threads /\ me.thread # None
  BY PendingAssumption DEF TypeInv, WellFormed
<1>2. me.pc = "stream" /\ me.task # None => task'[me.task].host = me.target
  <2> SUFFICES ASSUME me.pc = "stream", me.task # None
               PROVE  task'[me.task].host = me.target
    OBVIOUS
  <2>1. me.task \in Tasks /\ task[me.task].home = me.thread
    BY DEF TypeInv, TypeOK, CallState, HomeInv, ResumesStayHome
  <2>2. task[me.task].n # 0
    BY <1>1, <2>1 DEF HomeInv
  <2>3. QED
    BY <2>1, <2>2 DEF CallOK
<1>3. me.pc \in {"load", "save"} => task'[me.ask[1]].host = me.target
  <2> SUFFICES ASSUME me.pc \in {"load", "save"}
               PROVE  task'[me.ask[1]].host = me.target
    OBVIOUS
  <2>1. me.ask[1] \in Tasks /\ task[me.ask[1]].home = me.thread
    BY DEF TypeInv, WellFormed, Question, HomeInv
  <2>2. task[me.ask[1]].n # 0
    BY <1>1, <2>1 DEF HomeInv
  <2>3. QED
    BY <2>1, <2>2 DEF CallOK
<1>4. QED
  BY <1>2, <1>3 DEF CallOK

\* A call that goes on or ends, and touches no other conversation.
LEMMA CallMoves ==
    ASSUME TypeInv, HomeInv, OrderlyInv, NEW c \in Calls, call[c].pc # "idle",
           NEW th \in Threads, th = call[c].thread, NEW me, call' = [call EXCEPT ![c] = me],
           \/ me = FreeCall
           \/ /\ me.pc # "idle"
              /\ me.kind = call[c].kind
              /\ me.round = call[c].round
              /\ me.thread = call[c].thread,
           UNCHANGED round,
           \A h \in Threads : h # th =>
               table'[h] = table[h] /\ shown'[h] = shown[h],
           th \in Orderly => CallOK(c)' /\ RowOK(th)' /\ ShownOK(th)',
           \A k \in Tasks : task[k].n # 0 => task'[k].host = task[k].host
    PROVE  OrderlyInv'
<1>1. call'[c] = me /\ \A d \in Calls : d # c => call'[d] = call[d]
  BY DEF TypeInv, TypeOK
<1>2. FreeCall.pc = "idle" /\ FreeCall.thread = None
  BY DEF FreeCall, NewCall
<1>3. AloneInv'
  BY <1>1, <1>2, OrderlyThreads DEF OrderlyInv, AloneInv
<1>4. ASSUME NEW h \in Orderly PROVE RowOK(h)' /\ ShownOK(h)'
  <2>1. CASE h = th
    BY <2>1
  <2>2. CASE h # th
    <3>1. RowOK(h)'
      BY <2>2, RowKept, OrderlyThreads DEF OrderlyInv
    <3>2. Quiet(h) => Quiet(h)'
      BY <1>1, <1>2, <2>2, OrderlyThreads DEF Quiet
    <3>3. QED
      BY <2>2, <3>1, <3>2, OrderlyThreads DEF OrderlyInv, ShownOK
  <2>3. QED
    BY <2>1, <2>2
<1>5. ASSUME NEW d \in Calls, call'[d].thread \in Orderly PROVE CallOK(d)'
  <2>1. CASE d = c
    BY <1>1, <1>2, <1>5, <2>1, OrderlyThreads
  <2>2. CASE d # c
    <3>1. call'[d] = call[d] /\ call[d].thread \in Threads
      BY <1>1, <1>5, <2>2, OrderlyThreads
    <3>2. call[d].pc # "idle"
      BY <1>2, <1>5, <3>1, OrderlyThreads DEF OrderlyInv, AloneInv
    <3>3. call[d].thread # th
      BY <1>5, <2>2, <3>1 DEF OrderlyInv, AloneInv
    <3>4. QED
      BY <1>5, <3>1, <3>2, <3>3, CallKept DEF OrderlyInv
  <2>3. QED
    BY <2>1, <2>2
<1>6. QED
  BY <1>3, <1>4, <1>5 DEF OrderlyInv

\* A call that is under way finds its client waiting and its row typed.
LEMMA UnderWay ==
    ASSUME TypeInv, OrderlyInv, NEW c \in Calls, NEW th, th = call[c].thread,
           call[c].pc # "idle"
    PROVE  /\ th \in Threads /\ call[c] \in CallState /\ table[th] \in Row \cup {None}
           /\ th \in Orderly => shown[th] = None /\ CallOK(c) /\ RowOK(th)
  BY DEF TypeInv, TypeOK, WellFormed, OrderlyInv, ShownOK, Quiet

\* A call that goes on and writes nothing.
LEMMA CallGoesOn ==
    ASSUME TypeInv, HomeInv, OrderlyInv, NEW c \in Calls, call[c].pc # "idle",
           NEW me, call' = [call EXCEPT ![c] = me], me.pc # "idle",
           me.kind = call[c].kind, me.round = call[c].round, me.thread = call[c].thread,
           UNCHANGED <<table, round, shown>>,
           call[c].thread \in Orderly => CallOK(c)',
           \A k \in Tasks : task[k].n # 0 => task'[k].host = task[k].host
    PROVE  OrderlyInv'
<1>1. PICK th : th = call[c].thread
  OBVIOUS
<1>2. th \in Threads /\ (th \in Orderly => shown[th] = None /\ RowOK(th))
  BY <1>1, UnderWay
<1>3. th \in Orderly => RowOK(th)' /\ ShownOK(th)'
  BY <1>2, RowKept DEF ShownOK
<1>4. QED
  BY <1>1, <1>2, <1>3, CallMoves

\* A call that ends, with what it did to its own conversation.
LEMMA CallEnds ==
    ASSUME TypeInv, HomeInv, OrderlyInv, NEW c \in Calls, NEW th, th = call[c].thread,
           call[c].pc # "idle", Finish(c), UNCHANGED <<task, round>>,
           \A h \in Threads : h # th => table'[h] = table[h] /\ shown'[h] = shown[h],
           th \in Orderly => RowOK(th)',
           th \in Orderly /\ shown'[th] # None =>
              /\ call[c].kind = "rpc"
              /\ table'[th] # None => table'[th].question = shown'[th]
    PROVE  OrderlyInv'
<1>1. th \in Threads
  BY UnderWay
<1>2. FreeCall.pc = "idle" /\ FreeCall.thread = None
  BY DEF FreeCall, NewCall
<1>3. call'[c] = FreeCall /\ \A d \in Calls : d # c => call'[d] = call[d]
  BY DEF Finish, TypeInv, TypeOK
<1>4. CallOK(c)'
  BY <1>2, <1>3 DEF CallOK
<1>5. th \in Orderly /\ call[c].kind = "rpc" => Quiet(th)'
  BY <1>2, <1>3, OrderlyThreads DEF Quiet, OrderlyInv, AloneInv
<1>6. th \in Orderly => ShownOK(th)'
  BY <1>5 DEF ShownOK
<1>7. QED
  BY <1>1, <1>4, <1>6, CallMoves DEF Finish

LEMMA StartRpcOrderly ==
    ASSUME TypeInv, HomeInv, OrderlyInv,
           NEW c \in Calls, NEW a \in Agents, NEW h \in Threads, StartRpc(c, a, h)
    PROVE  OrderlyInv'
<1> DEFINE me == NewCall("rpc", "get", None, h, a, bound[a], None)
<1>1. /\ call'[c] = me
      /\ \A d \in Calls : d # c => call'[d] = call[d]
      /\ call[c] = FreeCall /\ (h \in Orderly => Quiet(h))
      /\ UNCHANGED <<table, task, round>>
      /\ \A g \in Threads : shown'[g] = IF g = h THEN None ELSE shown[g]
  BY PendingAssumption DEF StartRpc, TypeInv, TypeOK
<1>2. /\ me.pc = "get" /\ me.kind = "rpc" /\ me.round = None /\ me.thread = h
      /\ FreeCall.pc = "idle" /\ FreeCall.thread = None /\ FreeCall.round = None
  BY DEF NewCall, FreeCall
<1> HIDE DEF me
<1>3. AloneInv'
  BY <1>1, <1>2 DEF OrderlyInv, AloneInv, Quiet
<1>4. ASSUME NEW g \in Orderly PROVE RowOK(g)' /\ ShownOK(g)'
  <2>1. Quiet(g) /\ g # h => Quiet(g)'
    BY <1>1, <1>2 DEF Quiet
  <2>2. QED
    BY <1>1, <2>1, OrderlyThreads DEF OrderlyInv, RowOK, ShownOK
<1>5. ASSUME NEW d \in Calls, call'[d].thread \in Orderly PROVE CallOK(d)'
  BY <1>1, <1>2, <1>5 DEF OrderlyInv, CallOK
<1>6. QED
  BY <1>3, <1>4, <1>5 DEF OrderlyInv

LEMMA CallOrderlyInv ==
    ASSUME TypeInv, HomeInv, OrderlyInv, NEW c \in Calls, CallNext(c)
    PROVE  OrderlyInv'
<1>1. PICK th : th = call[c].thread
  OBVIOUS
<1>2. call[c].pc # "idle" =>
         /\ th \in Threads /\ call[c] \in CallState /\ table[th] \in Row \cup {None}
         /\ th \in Orderly => shown[th] = None /\ CallOK(c) /\ RowOK(th)
  BY <1>1, UnderWay
<1>3. ASSUME call[c].pc # "idle", Finish(c), UNCHANGED <<task, round, shown>>,
             \A h \in Threads : h # th => table'[h] = table[h],
             table'[th] \in {table[th], None}
      PROVE  OrderlyInv'
  <2>1. th \in Orderly => RowOK(th)'
    BY <1>2, <1>3 DEF RowOK
  <2>2. QED
    BY <1>1, <1>2, <1>3, <2>1, CallEnds
<1>4. ASSUME AbortRpc(c) \/ GetNothing(c) \/ UpsertFails(c) PROVE OrderlyInv'
  <2>1. call[c].pc # "idle"
    BY <1>4 DEF AbortRpc, GetNothing, UpsertFails, OrderlyInv, AloneInv, FreeCall, NewCall
  <2>2. QED
    BY <1>3, <1>4, <2>1 DEF AbortRpc, GetNothing, UpsertFails
<1>5. ASSUME DeleteRow(c) PROVE OrderlyInv'
  <2>1. call[c].pc # "idle" /\ table' = [table EXCEPT ![th] = None]
    BY <1>1, <1>5 DEF DeleteRow, Remove
  <2>2. QED
    BY <1>2, <1>3, <1>5, <2>1 DEF DeleteRow, TypeInv, TypeOK
<1>6. ASSUME GetExpired(c) PROVE OrderlyInv'
  <2> DEFINE me == [call[c] EXCEPT !.pc = "purge"]
  <2>1. call[c].pc = "get" /\ call' = [call EXCEPT ![c] = me]
    BY <1>6 DEF GetExpired
  <2>2. /\ me.pc = "purge" /\ me.kind = call[c].kind
        /\ me.round = call[c].round /\ me.thread = th
    BY <1>1, <1>2, <2>1 DEF CallState
  <2>3. call'[c] = me
    BY <2>1 DEF TypeInv, TypeOK
  <2> HIDE DEF me
  <2>4. CallOK(c)'
    BY <2>2, <2>3 DEF CallOK
  <2>5. QED
    BY <1>1, <1>6, <2>1, <2>2, <2>4, CallGoesOn DEF GetExpired
<1>7. ASSUME NEW pc \in {"stream", "load", "save", "delete"}, NEW x, NEW k, NEW q, NEW row,
             call[c].pc # "idle", MoveTo(c, pc, x, k, q, row),
             UNCHANGED <<table, round, shown>>,
             \A j \in Tasks : task[j].n # 0 => task'[j].host = task[j].host,
             th \in Orderly /\ pc = "stream" => task'[k].host = x,
             th \in Orderly /\ pc \in {"load", "save"} => task'[q[1]].host = x,
             pc = "save" => row = table[th]
      PROVE  OrderlyInv'
  <2> DEFINE me == [kind |-> call[c].kind, pc |-> pc, round |-> call[c].round,
                    thread |-> call[c].thread, agent |-> call[c].agent,
                    wrappers |-> call[c].wrappers, target |-> x, task |-> k,
                    ask |-> q, seen |-> row]
  <2>1. /\ call' = [call EXCEPT ![c] = me]
        /\ call'[c] = me
    BY <1>7 DEF MoveTo, TypeInv, TypeOK
  <2>2. /\ me.pc = pc /\ me.kind = call[c].kind /\ me.round = call[c].round
        /\ me.thread = th /\ me.target = x /\ me.task = k /\ me.ask = q /\ me.seen = row
    BY <1>1
  <2> HIDE DEF me
  <2>3. th \in Orderly => CallOK(c)'
    BY <1>7, <2>1, <2>2 DEF CallOK, SameRow
  <2>4. QED
    BY <1>1, <1>7, <2>1, <2>2, <2>3, CallGoesOn
<1>8. ASSUME Resumable(c)
      PROVE  /\ call[c].pc = "get"
             /\ th \in Orderly => task[table[th].task].host = table[th].target
  BY <1>1, <1>2, <1>8 DEF Resumable, RowOK
<1>9. ASSUME GetRecord(c) PROVE OrderlyInv'
  <2>1. /\ Resumable(c) /\ UNCHANGED <<table, task, round, shown>>
        /\ MoveTo(c, "stream", table[th].target, table[th].task, None, None)
    BY <1>1, <1>9 DEF GetRecord
  <2>2. QED
    BY <1>7, <1>8, <2>1
<1>10. ASSUME GetUnmatched(c) PROVE OrderlyInv'
  <2>1. /\ Resumable(c) /\ UNCHANGED <<table, task, round, shown>>
        /\ MoveTo(c, "delete", None, table[th].task, None, None)
    BY <1>1, <1>10 DEF GetUnmatched
  <2>2. QED
    BY <1>7, <1>8, <2>1
<1>11. ASSUME StreamSettled(c) PROVE OrderlyInv'
  <2>1. call[c].pc = "stream" /\ UNCHANGED <<table, task, round, shown>>
    BY <1>11 DEF StreamSettled
  <2>2. CASE call[c].kind = "call"
    BY <1>3, <1>11, <2>1, <2>2 DEF StreamSettled, Finish
  <2>3. CASE call[c].kind # "call"
    <3> DEFINE me == [call[c] EXCEPT !.pc = "delete"]
    <3>1. call' = [call EXCEPT ![c] = me] /\ call'[c] = me
      BY <1>11, <2>3 DEF StreamSettled, TypeInv, TypeOK
    <3>2. /\ me.pc = "delete" /\ me.kind = call[c].kind /\ me.task = call[c].task
          /\ me.round = call[c].round /\ me.thread = th
      BY <1>1, <1>2, <2>1 DEF CallState
    <3> HIDE DEF me
    <3>3. CallOK(c)'
      BY <3>1, <3>2 DEF CallOK
    <3>4. QED
      BY <1>1, <2>1, <3>1, <3>2, <3>3, CallGoesOn
  <2>4. QED
    BY <2>2, <2>3
<1>12. ASSUME NEW k \in Tasks, StreamAsks(c, k) PROVE OrderlyInv'
  <2>1. /\ call[c].pc = "stream" /\ task[k].n = 0
        /\ UNCHANGED <<table, round, shown>>
        /\ MoveTo(c, "load", call[c].target, None, <<k, 1>>, None)
    BY <1>12 DEF StreamAsks
  <2>2. /\ \A j \in Tasks : j # k => task'[j] = task[j]
        /\ task'[k].host = call[c].target
    BY <1>12 DEF StreamAsks, TypeInv, TypeOK
  <2>3. <<k, 1>>[1] = k
    OBVIOUS
  <2>4. QED
    BY <1>7, <2>1, <2>2, <2>3
<1>13. ASSUME StreamAsksAgain(c) PROVE OrderlyInv'
  <2> DEFINE k == call[c].task
  <2>1. /\ call[c].pc = "stream" /\ UNCHANGED <<table, round, shown>>
        /\ task[k].host = call[c].target
        /\ MoveTo(c, "load", call[c].target, k, <<k, task[k].n + 1>>, None)
        /\ task' = [task EXCEPT ![k].n = @ + 1]
    BY <1>13 DEF StreamAsksAgain
  <2>2. k \in Tasks
    BY <1>13 DEF StreamAsksAgain, TypeInv, WellFormed
  <2>3. \A j \in Tasks : task'[j].host = task[j].host
    BY <2>1, <2>2 DEF TypeInv, TypeOK, DownstreamTask
  <2>4. <<k, task[k].n + 1>>[1] = k
    OBVIOUS
  <2>5. QED
    BY <1>7, <2>1, <2>2, <2>3, <2>4
<1>14. ASSUME UpsertLoad(c) PROVE OrderlyInv'
  <2>1. /\ call[c].pc = "load" /\ UNCHANGED <<table, task, round, shown>>
        /\ MoveTo(c, "save", call[c].target, call[c].task, call[c].ask, table[th])
    BY <1>1, <1>14 DEF UpsertLoad
  <2>2. th \in Orderly => task[call[c].ask[1]].host = call[c].target
    BY <1>2, <2>1 DEF CallOK
  <2>3. QED
    BY <1>7, <2>1, <2>2
<1>15. ASSUME UpsertSave(c) PROVE OrderlyInv'
  <2>1. call[c].pc = "save" /\ th \in Threads /\ table[th] \in Row \cup {None}
    BY <1>2, <1>15 DEF UpsertSave
  <2> DEFINE now == IF call[c].seen = None THEN Written(c)
                    ELSE Merge(Written(c), call[c].seen, table[th])
  <2>2. /\ table' = [table EXCEPT ![th] = now]
        /\ shown' = IF call[c].kind = "rpc"
                    THEN [shown EXCEPT ![th] = call[c].ask] ELSE shown
        /\ Finish(c) /\ UNCHANGED <<task, round>>
    BY <1>1, <1>15 DEF UpsertSave
  <2>3. th \in Orderly => /\ now.target = call[c].target
                          /\ now.task = call[c].ask[1]
                          /\ now.question = call[c].ask
    <3> SUFFICES ASSUME th \in Orderly
                 PROVE  /\ now.target = call[c].target
                        /\ now.task = call[c].ask[1]
                        /\ now.question = call[c].ask
      OBVIOUS
    <3>1. CASE call[c].seen = None
      BY <3>1 DEF Written
    <3>2. CASE call[c].seen # None
      <4>1. table[th] # None
        BY <1>1, <1>15, <3>2 DEF UpsertSave, CanInsert, CanUpdate
      <4>2. SameRow(table[th], call[c].seen)
        BY <1>1, <1>2, <2>1, <4>1 DEF CallOK
      <4>3. QED
        BY <3>2, <4>2 DEF Merge, Changed, Written, SameRow
    <3>3. QED
      BY <3>1, <3>2
  <2>4. table'[th] = now /\ \A h \in Threads : h # th => table'[h] = table[h]
    BY <2>1, <2>2 DEF TypeInv, TypeOK
  <2> HIDE DEF now
  <2>5. th \in Orderly => task[call[c].ask[1]].host = call[c].target
    BY <1>2, <2>1 DEF CallOK
  <2>6. th \in Orderly => RowOK(th)'
    BY <2>2, <2>3, <2>4, <2>5 DEF RowOK
  <2>7. /\ \A h \in Threads : h # th => shown'[h] = shown[h]
        /\ th \in Orderly /\ shown'[th] # None =>
              call[c].kind = "rpc" /\ shown'[th] = call[c].ask
    BY <1>2, <2>1, <2>2 DEF TypeInv, TypeOK
  <2>8. QED
    BY <1>1, <2>1, <2>2, <2>3, <2>4, <2>6, <2>7, CallEnds
<1>16. ASSUME NEW a \in Agents, NEW h \in Threads, StartRpc(c, a, h) PROVE OrderlyInv'
  BY <1>16, StartRpcOrderly
<1>17. QED
  BY <1>4, <1>5, <1>6, <1>9, <1>10, <1>11, <1>12, <1>13, <1>14, <1>15, <1>16 DEF CallNext

\* A step that may let rows expire or go, and stops showing questions.
LEMMA TableShrinks ==
    ASSUME TypeInv, OrderlyInv, UNCHANGED <<task, round, call>>,
           \A th \in Threads :
              /\ table'[th] # None =>
                    table[th] # None /\ SameRow(table'[th], table[th])
              /\ shown'[th] \in {shown[th], None}
    PROVE  OrderlyInv'
<1>1. AloneInv'
  BY DEF OrderlyInv, AloneInv
<1>2. ASSUME NEW th \in Orderly PROVE RowOK(th)' /\ ShownOK(th)'
  BY OrderlyThreads DEF OrderlyInv, RowOK, ShownOK, SameRow, Quiet
<1>3. ASSUME NEW c \in Calls, call[c].thread \in Orderly PROVE CallOK(c)'
  BY <1>3, OrderlyThreads DEF OrderlyInv, CallOK, SameRow
<1>4. QED
  BY <1>1, <1>2, <1>3 DEF OrderlyInv

\* A turn that goes on or ends while no tool of it runs.
LEMMA RoundMoves ==
    ASSUME TypeInv, OrderlyInv, NEW r \in Rounds, round[r].pc # "idle", CallsOf(r) = {},
           NEW th \in Threads, th = round[r].thread,
           NEW me, round' = [round EXCEPT ![r] = me],
           me = IdleRound \/ (me.pc # "idle" /\ me.thread = th),
           UNCHANGED <<task, call>>,
           \A h \in Threads : h # th => table'[h] = table[h] /\ shown'[h] = shown[h],
           table'[th] \in {table[th], None},
           th \in Orderly /\ shown'[th] # None =>
              me = IdleRound /\ (table'[th] # None => table'[th].question = shown'[th])
    PROVE  OrderlyInv'
<1>1. round'[r] = me /\ \A q \in Rounds : q # r => round'[q] = round[q]
  BY DEF TypeInv, TypeOK
<1>2. IdleRound.pc = "idle" /\ IdleRound.thread = None
  BY DEF IdleRound
<1>3. \A c \in Calls : call[c].pc # "idle" =>
         call[c].round # r /\ (th \in Orderly => call[c].thread # th)
  <2> SUFFICES ASSUME NEW c \in Calls, call[c].pc # "idle"
               PROVE  call[c].round # r /\ (th \in Orderly => call[c].thread # th)
    OBVIOUS
  <2>1. call[c].round # r
    BY DEF CallsOf
  <2>2. CASE call[c].kind = "rpc"
    BY <2>1, <2>2 DEF OrderlyInv, AloneInv
  <2>3. CASE call[c].kind # "rpc"
    BY <2>1, <2>3 DEF OrderlyInv, AloneInv
  <2>4. QED
    BY <2>1, <2>2, <2>3
<1>4. AloneInv'
  <2>1. \A q \in Rounds : round'[q].thread = round[q].thread \/ round'[q].thread = None
    BY <1>1, <1>2
  <2>2. \A q \in Rounds : round'[q].pc = "idle" => round'[q].thread = None
    BY <1>1, <1>2 DEF OrderlyInv, AloneInv
  <2>3. \A c \in Calls, q \in Rounds : call'[c].pc # "idle" /\ call'[c].round = q =>
           round'[q].pc = round[q].pc /\ round'[q].thread = round[q].thread
    BY <1>1, <1>3
  <2>4. QED
    BY <2>1, <2>2, <2>3, AloneKept DEF OrderlyInv
<1>5. ASSUME NEW h \in Orderly PROVE RowOK(h)' /\ ShownOK(h)'
  <2>1. RowOK(h)'
    BY OrderlyThreads DEF OrderlyInv, RowOK
  <2>2. CASE h = th
    <3>1. me = IdleRound => Quiet(th)'
      <4>1. \A c \in Calls : call[c].thread # th
        BY <1>3, <2>2, OrderlyThreads DEF OrderlyInv, AloneInv, FreeCall, NewCall
      <4>2. me = IdleRound => \A q \in Rounds : round'[q].thread # th
        BY <1>1, <1>2, <2>2, OrderlyThreads DEF OrderlyInv, AloneInv
      <4>3. QED
        BY <4>1, <4>2 DEF Quiet
    <3>2. QED
      BY <2>1, <2>2, <3>1 DEF ShownOK
  <2>3. CASE h # th
    <3>1. Quiet(h) => Quiet(h)'
      BY <1>1, <1>2, <2>3, OrderlyThreads DEF Quiet
    <3>2. QED
      BY <2>1, <2>3, <3>1, OrderlyThreads DEF OrderlyInv, ShownOK
  <2>4. QED
    BY <2>2, <2>3
<1>6. ASSUME NEW c \in Calls, call[c].thread \in Orderly PROVE CallOK(c)'
  <2>1. CASE call[c].pc = "idle"
    BY <2>1 DEF CallOK
  <2>2. CASE call[c].pc # "idle"
    <3>1. call[c].thread \in Threads /\ call[c].thread # th
      BY <1>3, <1>6, <2>2, OrderlyThreads
    <3>2. QED
      BY <1>6, <3>1 DEF OrderlyInv, CallOK
  <2>3. QED
    BY <2>1, <2>2
<1>7. QED
  BY <1>4, <1>5, <1>6 DEF OrderlyInv

LEMMA StartRoundOrderly ==
    ASSUME TypeInv, OrderlyInv,
           NEW r \in Rounds, NEW a \in Agents, NEW th \in Threads, StartRound(r, a, th)
    PROVE  OrderlyInv'
<1> DEFINE me == [pc |-> "open", thread |-> th, agent |-> a, wrappers |-> bound[a]]
<1>1. /\ round'[r] = me
      /\ \A q \in Rounds : q # r => round'[q] = round[q]
      /\ round[r].pc = "idle" /\ (th \in Orderly => Quiet(th))
      /\ UNCHANGED <<table, task, call>>
      /\ \A h \in Threads : shown'[h] = IF h = th THEN None ELSE shown[h]
  BY PendingAssumption DEF StartRound, TypeInv, TypeOK
<1>2. me.pc = "open" /\ me.thread = th
  OBVIOUS
<1> HIDE DEF me
<1>3. \A c \in Calls : call[c].pc # "idle" => call[c].round # r
  BY <1>1, PendingAssumption DEF OrderlyInv, AloneInv
<1>4. AloneInv'
  BY <1>1, <1>2, <1>3 DEF OrderlyInv, AloneInv, Quiet
<1>5. ASSUME NEW h \in Orderly PROVE RowOK(h)' /\ ShownOK(h)'
  <2>1. Quiet(h) /\ h # th => Quiet(h)'
    BY <1>1, <1>2 DEF Quiet
  <2>2. QED
    BY <1>1, <2>1, OrderlyThreads DEF OrderlyInv, RowOK, ShownOK
<1>6. ASSUME NEW c \in Calls, call[c].thread \in Orderly PROVE CallOK(c)'
  BY <1>1, <1>6 DEF OrderlyInv, CallOK
<1>7. QED
  BY <1>1, <1>4, <1>5, <1>6 DEF OrderlyInv

\* A turn launches a tool, which starts by waiting or by reading the table.
LEMMA LaunchOrderly ==
    ASSUME TypeInv, OrderlyInv, NEW r \in Rounds, NEW c \in Calls,
           NEW x \in Targets, LaunchCall(r, c, x) \/ LaunchResume(r, c)
    PROVE  OrderlyInv'
<1>1. PICK me : /\ call' = [call EXCEPT ![c] = me]
                /\ me.thread = round[r].thread /\ me.round = r
                /\ \/ me.kind = "call" /\ me.pc = "stream" /\ me.task = None
                   \/ me.kind = "resume" /\ me.pc = "get"
  <2> DEFINE th == round[r].thread
             a == round[r].agent
  <2>1. CASE LaunchCall(r, c, x)
    <3> DEFINE me == NewCall("call", "stream", r, th, a, {}, x)
    <3>1. call' = [call EXCEPT ![c] = me]
      BY <2>1 DEF LaunchCall
    <3>2. me.thread = th /\ me.round = r /\ me.kind = "call" /\ me.pc = "stream" /\ me.task = None
      BY DEF NewCall
    <3>3. QED
      BY <3>1, <3>2
  <2>2. CASE LaunchResume(r, c)
    <3> DEFINE me == NewCall("resume", "get", r, th, a, round[r].wrappers, None)
    <3>1. call' = [call EXCEPT ![c] = me]
      BY <2>2 DEF LaunchResume
    <3>2. me.thread = th /\ me.round = r /\ me.kind = "resume" /\ me.pc = "get"
      BY DEF NewCall
    <3>3. QED
      BY <3>1, <3>2
  <2>3. QED
    BY <2>1, <2>2
<1>2. /\ round[r].pc = "open" /\ call[c] = FreeCall
      /\ round[r].thread \in Orderly => CallsOf(r) = {}
      /\ UNCHANGED <<table, task, round, shown>>
  BY DEF LaunchCall, LaunchResume
<1>3. call'[c] = me /\ \A d \in Calls : d # c => call'[d] = call[d]
  BY <1>1 DEF TypeInv, TypeOK
<1>4. FreeCall.pc = "idle" /\ FreeCall.thread = None
  BY DEF FreeCall, NewCall
<1>5. round[r].thread \in Threads /\ round[r].thread # None
  BY <1>2, PendingAssumption DEF TypeInv, WellFormed
<1>6. round[r].thread \in Orderly => \A d \in Calls : call[d].thread # round[r].thread
  <2> SUFFICES ASSUME round[r].thread \in Orderly,
                      NEW d \in Calls, call[d].thread = round[r].thread
               PROVE  FALSE
    OBVIOUS
  <2>1. call[d].pc # "idle"
    BY <1>4, <1>5 DEF OrderlyInv, AloneInv
  <2>2. call[d].round # r
    BY <1>2 DEF CallsOf
  <2>3. CASE call[d].kind = "rpc"
    BY <2>1, <2>3 DEF OrderlyInv, AloneInv
  <2>4. CASE call[d].kind # "rpc"
    BY <1>5, <2>1, <2>2, <2>4 DEF OrderlyInv, AloneInv
  <2>5. QED
    BY <2>3, <2>4
<1>7. AloneInv'
  <2>1. ASSUME NEW d \in Calls, call'[d].pc # "idle"
        PROVE  IF call'[d].kind = "rpc"
               THEN /\ call'[d].round = None
                    /\ call'[d].thread \in Orderly =>
                          \A q \in Rounds : round[q].thread # call'[d].thread
               ELSE /\ call'[d].round \in Rounds
                    /\ round[call'[d].round].pc = "open"
                    /\ round[call'[d].round].thread = call'[d].thread
    BY <1>1, <1>2, <1>3, <2>1 DEF OrderlyInv, AloneInv
  <2>2. \A d \in Calls : call'[d].pc = "idle" => call'[d] = FreeCall
    BY <1>1, <1>3 DEF OrderlyInv, AloneInv
  <2>3. \A d, e \in Calls :
           call'[d].thread = call'[e].thread /\ call'[e].thread \in Orderly => d = e
    BY <1>1, <1>3, <1>6 DEF OrderlyInv, AloneInv
  <2>4. QED
    BY <1>2, <2>1, <2>2, <2>3 DEF OrderlyInv, AloneInv
<1>8. ASSUME NEW h \in Orderly PROVE RowOK(h)' /\ ShownOK(h)'
  <2>1. Quiet(h) => Quiet(h)'
    BY <1>1, <1>2, <1>3 DEF Quiet
  <2>2. QED
    BY <1>2, <2>1, OrderlyThreads DEF OrderlyInv, RowOK, ShownOK
<1>9. ASSUME NEW d \in Calls, call'[d].thread \in Orderly PROVE CallOK(d)'
  BY <1>1, <1>2, <1>3, <1>9 DEF OrderlyInv, CallOK
<1>10. QED
  BY <1>2, <1>7, <1>8, <1>9 DEF OrderlyInv

LEMMA AbortRoundOrderly ==
    ASSUME TypeInv, OrderlyInv, NEW r \in Rounds, AbortRound(r)
    PROVE  OrderlyInv'
<1>1. /\ round'[r] = IdleRound
      /\ \A q \in Rounds : q # r => round'[q] = round[q]
      /\ \A c \in Calls : call'[c] = IF call[c].round = r THEN FreeCall ELSE call[c]
      /\ UNCHANGED <<table, task, shown>>
  BY DEF AbortRound, TypeInv, TypeOK
<1>2. /\ FreeCall.pc = "idle" /\ FreeCall.thread = None
      /\ IdleRound.pc = "idle" /\ IdleRound.thread = None
  BY DEF FreeCall, NewCall, IdleRound
<1>3. AloneInv'
  <2>1. \A q \in Rounds : round'[q].thread = round[q].thread \/ round'[q].thread = None
    BY <1>1, <1>2
  <2>2. \A q \in Rounds : round'[q].pc = "idle" => round'[q].thread = None
    BY <1>1, <1>2 DEF OrderlyInv, AloneInv
  <2>3. \A c \in Calls, q \in Rounds : call'[c].pc # "idle" /\ call'[c].round = q =>
           round'[q].pc = round[q].pc /\ round'[q].thread = round[q].thread
    BY <1>1, <1>2
  <2>4. QED
    BY <1>1, <2>1, <2>2, <2>3, AloneKept DEF OrderlyInv
<1>4. ASSUME NEW h \in Orderly PROVE RowOK(h)' /\ ShownOK(h)'
  <2>1. Quiet(h) => Quiet(h)'
    BY <1>1, <1>2, OrderlyThreads DEF Quiet
  <2>2. QED
    BY <1>1, <2>1, OrderlyThreads DEF OrderlyInv, RowOK, ShownOK
<1>5. ASSUME NEW c \in Calls, call'[c].thread \in Orderly PROVE CallOK(c)'
  BY <1>1, <1>2, <1>5, OrderlyThreads DEF OrderlyInv, CallOK
<1>6. QED
  BY <1>3, <1>4, <1>5 DEF OrderlyInv

LEMMA RoundOrderlyInv ==
    ASSUME TypeInv, OrderlyInv, NEW r \in Rounds, RoundNext(r)
    PROVE  OrderlyInv'
<1>1. PICK th : th = round[r].thread
  OBVIOUS
<1>2. round[r].pc # "idle" => /\ th \in Threads
                              /\ th \in Orderly => shown[th] = None
                              /\ round[r] \in RoundState /\ table[th] \in Row \cup {None}
  BY <1>1 DEF TypeInv, TypeOK, WellFormed, OrderlyInv, ShownOK, Quiet
<1>3. ASSUME round[r].pc # "idle", CallsOf(r) = {}, NEW me, me.pc # "idle", me.thread = th,
             round' = [round EXCEPT ![r] = me], UNCHANGED <<table, task, call, shown>>
      PROVE  OrderlyInv'
  BY <1>1, <1>2, <1>3, RoundMoves
<1>4. ASSUME NoticeExpired(r) PROVE OrderlyInv'
  <2> DEFINE me == [round[r] EXCEPT !.pc = "purge"]
  <2>1. round[r].pc = "open" /\ round' = [round EXCEPT ![r] = me]
    BY <1>4 DEF NoticeExpired
  <2>2. me.pc = "purge" /\ me.thread = th
    BY <1>1, <1>2, <2>1 DEF RoundState
  <2> HIDE DEF me
  <2>3. QED
    BY <1>1, <1>3, <1>4, <2>1, <2>2 DEF NoticeExpired
<1>5. ASSUME EndExpired(r) PROVE OrderlyInv'
  <2> DEFINE me == [round[r] EXCEPT !.pc = "lastPurge"]
  <2>1. round[r].pc = "open" /\ round' = [round EXCEPT ![r] = me]
    BY <1>5 DEF EndExpired
  <2>2. me.pc = "lastPurge" /\ me.thread = th
    BY <1>1, <1>2, <2>1 DEF RoundState
  <2> HIDE DEF me
  <2>3. QED
    BY <1>1, <1>3, <1>5, <2>1, <2>2 DEF EndExpired
<1>6. round[r].pc \in {"purge", "lastPurge"} => CallsOf(r) = {}
  <2> SUFFICES ASSUME round[r].pc \in {"purge", "lastPurge"}, NEW c \in Calls, call[c].round = r
               PROVE  FALSE
    BY DEF CallsOf
  <2>1. call[c].pc # "idle"
    BY PendingAssumption DEF OrderlyInv, AloneInv, FreeCall, NewCall
  <2>2. QED
    BY <2>1, PendingAssumption DEF OrderlyInv, AloneInv
<1>7. ASSUME NoticePurge(r) PROVE OrderlyInv'
  <2> DEFINE me == [round[r] EXCEPT !.pc = "open"]
  <2>1. /\ round[r].pc = "purge" /\ round' = [round EXCEPT ![r] = me]
        /\ table' = [table EXCEPT ![th] = None] /\ UNCHANGED <<task, call, shown>>
    BY <1>1, <1>7 DEF NoticePurge, Remove
  <2>2. me.pc = "open" /\ me.thread = th
    BY <1>1, <1>2, <2>1 DEF RoundState
  <2> HIDE DEF me
  <2>3. table'[th] = None /\ \A h \in Threads : h # th => table'[h] = table[h]
    BY <1>2, <2>1 DEF TypeInv, TypeOK
  <2>4. QED
    BY <1>1, <1>2, <1>6, <2>1, <2>2, <2>3, RoundMoves
<1>8. IdleRound.pc = "idle"
  BY DEF IdleRound
<1>9. ASSUME EndInterrupted(r) PROVE OrderlyInv'
  <2>1. /\ round[r].pc = "open" /\ CallsOf(r) = {} /\ round' = [round EXCEPT ![r] = IdleRound]
        /\ shown' = [shown EXCEPT ![th] = table[th].question] /\ UNCHANGED <<table, task, call>>
    BY <1>1, <1>9 DEF EndInterrupted
  <2>2. shown'[th] = table[th].question /\ \A h \in Threads : h # th => shown'[h] = shown[h]
    BY <1>2, <2>1 DEF TypeInv, TypeOK
  <2>3. QED
    BY <1>1, <1>2, <1>8, <2>1, <2>2, RoundMoves
<1>10. ASSUME EndPlain(r) PROVE OrderlyInv'
  <2>1. /\ round[r].pc = "open" /\ CallsOf(r) = {} /\ round' = [round EXCEPT ![r] = IdleRound]
        /\ UNCHANGED <<table, task, call, shown>>
    BY <1>10 DEF EndPlain
  <2>2. QED
    BY <1>1, <1>2, <1>8, <2>1, RoundMoves
<1>11. ASSUME EndPurge(r) PROVE OrderlyInv'
  <2>1. /\ round[r].pc = "lastPurge" /\ round' = [round EXCEPT ![r] = IdleRound]
        /\ table' = [table EXCEPT ![th] = None] /\ UNCHANGED <<task, call, shown>>
    BY <1>1, <1>11 DEF EndPurge, Remove
  <2>2. table'[th] = None /\ \A h \in Threads : h # th => table'[h] = table[h]
    BY <1>2, <2>1 DEF TypeInv, TypeOK
  <2>3. QED
    BY <1>1, <1>2, <1>6, <1>8, <2>1, <2>2, RoundMoves
<1>12. ASSUME NEW a \in Agents, NEW h \in Threads, StartRound(r, a, h) PROVE OrderlyInv'
  BY <1>12, StartRoundOrderly
<1>13. ASSUME NEW c \in Calls, NEW x \in Targets, LaunchCall(r, c, x) PROVE OrderlyInv'
  BY <1>13, LaunchOrderly
<1>14. ASSUME NEW c \in Calls, LaunchResume(r, c) PROVE OrderlyInv'
  <2>1. PICK x \in Targets : TRUE
    BY <1>14 DEF LaunchResume, TypeInv, TypeOK, RoundState
  <2>2. QED
    BY <1>14, <2>1, LaunchOrderly
<1>15. ASSUME AbortRound(r) PROVE OrderlyInv'
  BY <1>15, AbortRoundOrderly
<1>16. QED
  BY <1>4, <1>5, <1>7, <1>9, <1>10, <1>11, <1>12, <1>13, <1>14, <1>15 DEF RoundNext

LEMMA OutsideOrderlyInv ==
    ASSUME TypeInv, OrderlyInv, OutsideNext
    PROVE  OrderlyInv'
<1> USE DEF TypeInv, TypeOK
<1>1. ASSUME NEW row \in Row PROVE row # None /\ SameRow(row, row)
  BY <1>1, NoneAssumption DEF SameRow
<1>2. ASSUME NEW th \in Threads, DeleteConversation(th) PROVE OrderlyInv'
  BY <1>1, <1>2, TableShrinks DEF DeleteConversation, Remove
<1>3. ASSUME NEW a \in Agents, DeleteAgent(a) PROVE OrderlyInv'
  BY <1>1, <1>3, TableShrinks DEF DeleteAgent
<1>4. ASSUME NEW a \in Agents, NEW targets \in SUBSET Targets, Rebind(a, targets)
      PROVE  OrderlyInv'
  BY <1>1, <1>4, TableShrinks DEF Rebind
<1>5. ASSUME NEW th \in Threads, Expire(th) PROVE OrderlyInv'
  <2>1. table[th] \in Row
    BY <1>5 DEF Expire
  <2>2. /\ table'[th] = [table[th] EXCEPT !.fresh = FALSE]
        /\ \A h \in Threads : h # th => table'[h] = table[h]
    BY <1>5 DEF Expire
  <2>3. SameRow(table'[th], table[th]) /\ ~table'[th].fresh
    BY <1>1, <2>1, <2>2 DEF SameRow, Row
  <2>4. QED
    BY <1>1, <1>5, <2>1, <2>2, <2>3, TableShrinks DEF Expire
<1>6. QED
  BY <1>2, <1>3, <1>4, <1>5 DEF OutsideNext

LEMMA StepOrderlyInv ==
    TypeInv /\ HomeInv /\ OrderlyInv /\ [Next]_vars => OrderlyInv'
<1> SUFFICES ASSUME TypeInv, HomeInv, OrderlyInv, [Next]_vars PROVE OrderlyInv'
  OBVIOUS
<1>1. ASSUME UNCHANGED vars PROVE OrderlyInv'
  BY <1>1 DEF vars, OrderlyInv, AloneInv, RowOK, ShownOK, CallOK, Quiet
<1>2. QED
  BY <1>1, RoundOrderlyInv, CallOrderlyInv, OutsideOrderlyInv DEF Next

LEMMA OrderlyAlways == Spec => [](TypeInv /\ OrderlyInv)
BY TypeCorrect, InitHomeInv, StepHomeInv, InitOrderlyInv, StepOrderlyInv, PTL DEF Spec

\* Where a client waits for the end of its turn, its answer is forwarded to
\* the downstream agent that asked, whatever turns and requests overlap in the
\* other conversations.
THEOREM AnswerReachesAskerAlways == Spec => []AnswerReachesAsker
<1>1. OrderlyInv => AnswerReachesAsker
  BY DEF OrderlyInv, CallOK, AnswerReachesAsker
<1>2. QED
  BY <1>1, OrderlyAlways, PTL

\* There the question the client was asked is also the one its record holds.
THEOREM ShownIsStoredAlways == Spec => []ShownIsStored
<1>1. OrderlyInv => ShownIsStored
  BY DEF OrderlyInv, ShownOK, ShownIsStored
<1>2. QED
  BY <1>1, OrderlyAlways, PTL

=============================================================================
