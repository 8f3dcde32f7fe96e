-------------------------- MODULE HistoryWindowProofs --------------------------
(***************************************************************************)
(* What the model sees of a conversation, for conversations of any length, *)
(* any size of the window and of the batches, and any number of calls.     *)
(***************************************************************************)
EXTENDS HistoryWindow, SequenceTheorems, FiniteSetTheorems, TLAPS

\* The constants of graph.py as numbers.
LEMMA Numbers ==
    /\ Keep \in Nat \ {0} /\ Batch \in Nat \ {0} /\ Budget \in Nat \ {0}
    /\ MaxCalls \in Nat \ {0} /\ MaxMessages \in Nat
BY HistoryAssumption

LEMMA PlainType == \A kind \in {"human", "ai", "tool"} : Plain(kind) \in Message
BY Numbers DEF Plain, Message

\* Results stand behind the message that called them, with nothing between.
Followed(m) ==
    \A i \in DOMAIN m :
        m[i].kind = "tool" =>
            \E j \in DOMAIN m : /\ j < i
                                /\ m[j].kind # "tool"
                                /\ i <= j + m[j].calls
                                /\ \A k \in (j + 1)..i : m[k].kind = "tool"

\* It stays so when messages of other kinds follow, or the results of the
\* calls of the last message.
LEMMA FollowedExtension ==
    ASSUME NEW m \in Seq(Message), NEW all \in Seq(Message), Followed(m),
           Len(m) <= Len(all), \A i \in 1..Len(m) : all[i] = m[i],
           \/ \A i \in (Len(m) + 1)..Len(all) : all[i].kind # "tool"
           \/ /\ m # <<>>
              /\ m[Len(m)].kind # "tool"
              /\ Len(all) = Len(m) + m[Len(m)].calls
              /\ \A i \in (Len(m) + 1)..Len(all) : all[i].kind = "tool"
    PROVE  Followed(all)
<1>1. \A i \in 1..Len(all) : all[i].calls \in Nat
  <2>1. \A message \in Message : message.calls \in Nat
        BY Numbers DEF Message
  <2>2. \A i \in 1..Len(all) : all[i] \in Message
        OBVIOUS
  <2>   QED BY <2>1, <2>2
<1>   DOMAIN all = 1..Len(all) /\ DOMAIN m = 1..Len(m)
      OBVIOUS
<1>2. SUFFICES ASSUME NEW i \in 1..Len(all), all[i].kind = "tool"
               PROVE  \E j \in 1..Len(all) : /\ j < i
                                             /\ all[j].kind # "tool"
                                             /\ i <= j + all[j].calls
                                             /\ \A k \in (j + 1)..i : all[k].kind = "tool"
      BY DEF Followed
<1>3. CASE i \in 1..Len(m)
  <2>1. PICK j \in 1..Len(m) : /\ j < i
                               /\ m[j].kind # "tool"
                               /\ i <= j + m[j].calls
                               /\ \A k \in (j + 1)..i : m[k].kind = "tool"
        BY <1>2, <1>3 DEF Followed
  <2>2. ASSUME NEW k \in (j + 1)..i PROVE all[k].kind = "tool"
    <3>1. k \in 1..Len(m)
          BY <1>3
    <3>   QED BY <2>1, <3>1
  <2>3. j \in 1..Len(all) /\ i <= j + all[j].calls /\ all[j].kind # "tool"
        BY <2>1
  <2>   QED BY <2>1, <2>2, <2>3
<1>4. CASE i \notin 1..Len(m)
  <2>1. i \in (Len(m) + 1)..Len(all)
        BY <1>4
  <2>2. /\ m # <<>>
        /\ m[Len(m)].kind # "tool"
        /\ Len(all) = Len(m) + m[Len(m)].calls
        /\ \A k \in (Len(m) + 1)..Len(all) : all[k].kind = "tool"
        BY <1>2, <2>1
  <2>3. Len(m) \in 1..Len(m) /\ Len(m) \in 1..Len(all)
        BY <2>2
  <2>4. all[Len(m)].calls = m[Len(m)].calls /\ all[Len(m)].kind # "tool"
        BY <2>2, <2>3
  <2>5. Len(m) < i /\ i <= Len(m) + all[Len(m)].calls
        BY <1>1, <2>1, <2>2, <2>3, <2>4
  <2>6. \A k \in (Len(m) + 1)..i : all[k].kind = "tool"
        BY <2>1, <2>2
  <2>   QED BY <2>3, <2>4, <2>5, <2>6
<1>   QED BY <1>3, <1>4

LEMMA FollowedByOthers ==
    ASSUME NEW m \in Seq(Message), NEW new \in Seq(Message), Followed(m),
           \A i \in 1..Len(new) : new[i].kind # "tool"
    PROVE  Followed(m \o new)
<1>   DEFINE all == m \o new
<1>1. /\ all \in Seq(Message)
      /\ Len(all) = Len(m) + Len(new)
      /\ \A i \in 1..(Len(m) + Len(new)) :
            all[i] = IF i <= Len(m) THEN m[i] ELSE new[i - Len(m)]
      BY ConcatProperties
<1>   HIDE DEF all
<1>2. Len(m) <= Len(all) /\ \A i \in 1..Len(m) : all[i] = m[i]
      BY <1>1
<1>3. ASSUME NEW i \in (Len(m) + 1)..Len(all) PROVE all[i].kind # "tool"
  <2>1. i - Len(m) \in 1..Len(new) /\ all[i] = new[i - Len(m)]
        BY <1>1
  <2>   QED BY <2>1
<1>4. Followed(all)
      BY <1>1, <1>2, <1>3, FollowedExtension
<1>   QED BY <1>4 DEF all

LEMMA FollowedByResults ==
    ASSUME NEW m \in Seq(Message), NEW new \in Seq(Message), Followed(m),
           m # <<>>, m[Len(m)].kind # "tool", Len(new) = m[Len(m)].calls,
           \A i \in 1..Len(new) : new[i].kind = "tool"
    PROVE  Followed(m \o new)
<1>   DEFINE all == m \o new
<1>1. /\ all \in Seq(Message)
      /\ Len(all) = Len(m) + Len(new)
      /\ \A i \in 1..(Len(m) + Len(new)) :
            all[i] = IF i <= Len(m) THEN m[i] ELSE new[i - Len(m)]
      BY ConcatProperties
<1>   HIDE DEF all
<1>2. Len(m) <= Len(all) /\ \A i \in 1..Len(m) : all[i] = m[i]
  <2>1. Len(m) \in Nat /\ Len(new) \in Nat
        OBVIOUS
  <2>2. Len(m) <= Len(all)
        BY <1>1, <2>1
  <2>3. ASSUME NEW i \in 1..Len(m) PROVE all[i] = m[i]
    <3>1. i \in 1..(Len(m) + Len(new)) /\ i <= Len(m)
          BY <2>1
    <3>   QED BY <1>1, <3>1
  <2>   QED BY <2>2, <2>3
<1>3. ASSUME NEW i \in (Len(m) + 1)..Len(all) PROVE all[i].kind = "tool"
  <2>1. i - Len(m) \in 1..Len(new) /\ all[i] = new[i - Len(m)]
        BY <1>1
  <2>   QED BY <2>1
<1>4. Followed(all)
  <2>1. m[Len(m)].kind # "tool" /\ Len(all) = Len(m) + m[Len(m)].calls
        BY <1>1
  <2>   QED BY <1>1, <1>2, <1>3, <2>1, FollowedExtension
<1>   QED BY <1>4 DEF all

-----------------------------------------------------------------------------
(* The invariant of every checkpoint. *)

Fields == {"messages", "covered", "active", "injected", "next", "given"}

\* What was summarised is a prefix that ends before the last Keep messages.
Counted(c) ==
    /\ c.covered \in Nat
    /\ c.given = 1..c.covered
    /\ c.covered = 0 \/ c.covered + Keep <= Len(c.messages)

Good(c) ==
    /\ DOMAIN c = Fields
    /\ c.messages \in Seq(Message)
    /\ Followed(c.messages)
    /\ Counted(c)
    /\ c.next = "tools" => c.messages # <<>> /\ c.messages[Len(c.messages)].kind # "tool"

GoodInv == Good(head) /\ Good(fork)

\* A step that appends.
LEMMA Grows ==
    ASSUME NEW c, Good(c), NEW new \in Seq(Message), NEW next,
           Followed(c.messages \o new),
           next = "tools" => new # <<>> /\ new[Len(new)].kind # "tool"
    PROVE  Good([c EXCEPT !.messages = c.messages \o new, !.next = next])
<1>  DEFINE d == [c EXCEPT !.messages = c.messages \o new, !.next = next]
<1>1. /\ DOMAIN d = Fields /\ d.messages = c.messages \o new /\ d.next = next
      /\ d.given = c.given /\ d.covered = c.covered
      BY DEF Good, Fields
<1>  HIDE DEF d
<1>2. c.messages \in Seq(Message) /\ c.covered \in Nat
      BY DEF Good, Counted
<1>3. /\ c.messages \o new \in Seq(Message)
      /\ Len(c.messages \o new) = Len(c.messages) + Len(new)
      BY <1>2
<1>4. Counted(d)
      BY <1>1, <1>2, <1>3, Numbers DEF Good, Counted
<1>5. d.next = "tools" => d.messages # <<>> /\ d.messages[Len(d.messages)].kind # "tool"
  <2>   SUFFICES ASSUME new # <<>>, new[Len(new)].kind # "tool"
                 PROVE  d.messages # <<>> /\ d.messages[Len(d.messages)].kind # "tool"
        BY <1>1
  <2>1. Len(new) \in Nat \ {0} /\ Len(c.messages) \in Nat
        BY <1>2
  <2>2. d.messages[Len(c.messages) + Len(new)] = new[Len(new)]
        BY <1>1, <1>2, <2>1
  <2>   QED BY <1>1, <1>3, <2>1, <2>2
<1>   QED BY <1>1, <1>3, <1>4, <1>5 DEF Good, d

\* A step that appends one message of another kind.
LEMMA GrowsByOne ==
    ASSUME NEW c, Good(c), NEW message \in Message, message.kind # "tool", NEW next
    PROVE  Good([c EXCEPT !.messages = Append(@, message), !.next = next])
<1>1. c.messages \in Seq(Message) /\ Followed(c.messages)
      BY DEF Good
<1>2. Append(c.messages, message) = c.messages \o <<message>>
      BY <1>1, AppendIsConcat
<1>   DEFINE new == <<message>>
<1>3. /\ new \in Seq(Message) /\ new # <<>> /\ new[Len(new)].kind # "tool"
      /\ \A i \in 1..Len(new) : new[i].kind # "tool"
      OBVIOUS
<1>   HIDE DEF new
<1>4. Good([c EXCEPT !.messages = c.messages \o new, !.next = next])
      BY <1>1, <1>3, FollowedByOthers, Grows
<1>   QED BY <1>2, <1>4 DEF new

\* The checkpoint after the hook.
LEMMA HookedGood ==
    ASSUME NEW c, Good(c)
    PROVE  /\ Good(Hooked(c))
           /\ Hooked(c).messages = c.messages /\ Hooked(c).next = "agent"
           /\ Hooked(c).given = c.given /\ Hooked(c).covered = c.covered
<1>1. /\ DOMAIN Hooked(c) = Fields
      /\ Hooked(c).messages = c.messages /\ Hooked(c).next = "agent"
      /\ Hooked(c).given = c.given /\ Hooked(c).covered = c.covered
      BY DEF Hooked, Good, Fields
<1>   QED BY <1>1 DEF Good, Counted

\* Commit saves a checkpoint as the newest, and perhaps as the one to retry.
LEMMA CommitGood ==
    ASSUME NEW c, Good(c), Commit(c), GoodInv
    PROVE  GoodInv'
BY DEF Commit, GoodInv, Good, Counted

LEMMA GoodInit == Init => GoodInv
<1>1. Good(Empty)
      BY Numbers DEF Good, Counted, Followed, Empty, Fields
<1>   QED BY <1>1 DEF Init, GoodInv

\* A due summary: the count goes up to the window, the segment is given.
LEMMA SummariseGood ==
    ASSUME Summarise, GoodInv, Good(Current)
    PROVE  GoodInv'
<1>  DEFINE overflow == Len(Current.messages) - Keep
            segment == (Current.covered + 1)..overflow
            h == Hooked(Current)
            d == [h EXCEPT !.covered = overflow, !.given = h.given \cup segment]
<1>1. Due(Current) /\ Commit(d)
      BY DEF Summarise
<1>2. /\ Good(h) /\ h.messages = Current.messages /\ h.next = "agent"
      /\ h.given = Current.given /\ h.covered = Current.covered
      BY HookedGood
<1>   HIDE DEF h
<1>3. /\ DOMAIN d = Fields /\ d.messages = h.messages /\ d.next = h.next
      /\ d.covered = overflow /\ d.given = h.given \cup segment
      BY <1>2 DEF Good, Fields
<1>4. /\ Len(Current.messages) \in Nat /\ Current.covered \in Nat
      /\ Current.given = 1..Current.covered
      BY DEF Good, Counted
<1>5. overflow \in Nat /\ Current.covered <= overflow
      BY <1>1, <1>4, Numbers DEF Due
<1>6. (1..Current.covered) \cup segment = 1..overflow
      BY <1>4, <1>5
<1>7. Counted(d)
      BY <1>2, <1>3, <1>4, <1>5, <1>6, Numbers DEF Counted
<1>8. Good(d)
      BY <1>2, <1>3, <1>7 DEF Good
<1>   QED BY <1>1, <1>8, CommitGood

LEMMA RunToolsGood ==
    ASSUME RunTools, GoodInv, Good(Current)
    PROVE  GoodInv'
<1>  DEFINE m == Current.messages
            new == [i \in 1..m[Len(m)].calls |-> Plain("tool")]
            d == [Current EXCEPT !.messages = m \o new, !.next = "hook"]
<1>1. Commit(d)
      BY DEF RunTools, Last
<1>2. m \in Seq(Message) /\ m # <<>> /\ Followed(m) /\ m[Len(m)].kind # "tool"
      BY DEF RunTools, Good
<1>3. m[Len(m)].calls \in Nat
  <2>1. m[Len(m)] \in Message
        BY <1>2
  <2>   QED BY <2>1, Numbers DEF Message
<1>4. /\ new \in Seq(Message) /\ Len(new) = m[Len(m)].calls
      /\ \A i \in 1..Len(new) : new[i].kind = "tool"
  <2>   DEFINE n == m[Len(m)].calls
               result == Plain("tool")
  <2>1. n \in Nat /\ result \in Message /\ result.kind = "tool"
        BY <1>3, PlainType DEF Plain
  <2>   HIDE DEF n, result
  <2>   QED BY <2>1 DEF n, result
<1>5. Followed(m \o new)
      BY <1>2, <1>4, FollowedByResults
<1>6. Good(d)
      BY <1>4, <1>5, Grows
<1>   QED BY <1>1, <1>6, CommitGood

LEMMA AppendResumeGood ==
    ASSUME NEW reply \in {<<>>, <<Plain("ai")>>}, AppendResume(reply), GoodInv
    PROVE  GoodInv'
<1>  DEFINE new == <<Plain("human")>> \o reply
            d == [head EXCEPT !.messages = head.messages \o new, !.next = "end"]
<1>1. head.messages \in Seq(Message) /\ Followed(head.messages) /\ Good(head)
      BY DEF GoodInv, Good
<1>2. Plain("human") \in Message /\ Plain("ai") \in Message
      BY PlainType
<1>3. Commit(d)
  <2>1. (head.messages \o <<Plain("human")>>) \o reply = head.messages \o new
    <3>1. <<Plain("human")>> \in Seq(Message) /\ reply \in Seq(Message)
      <4>1. <<>> \in Seq(Message) /\ \A message \in Message : <<message>> \in Seq(Message)
            OBVIOUS
      <4>2. reply = <<>> \/ reply = <<Plain("ai")>>
            OBVIOUS
      <4>   QED BY <1>2, <4>1, <4>2
    <3>2. \A s, r, u \in Seq(Message) : (s \o r) \o u = s \o (r \o u)
          BY ConcatAssociative
    <3>   QED BY <1>1, <3>1, <3>2
  <2>   QED BY <2>1 DEF AppendResume
<1>4. new \in Seq(Message) /\ \A i \in 1..Len(new) : new[i].kind # "tool"
  <2>1. CASE reply = <<>>
        BY <1>2, <2>1 DEF Plain
  <2>2. CASE reply = <<Plain("ai")>>
        BY <1>2, <2>2 DEF Plain
  <2>   QED BY <2>1, <2>2
<1>   HIDE DEF new
<1>5. Followed(head.messages \o new)
      BY <1>1, <1>4, FollowedByOthers
<1>6. Good(d)
      BY <1>1, <1>4, <1>5, Grows
<1>   QED BY <1>3, <1>6, CommitGood

LEMMA GoodStep == GoodInv /\ [Next]_vars => GoodInv'
<1>  SUFFICES ASSUME GoodInv, [Next]_vars PROVE GoodInv'
     OBVIOUS
<1>1. Good(head) /\ Good(fork) /\ Good(Current)
      BY DEF GoodInv, Current
<1>2. CASE UserSpeaks
  <2>1. Plain("human") \in Message /\ Plain("human").kind # "tool"
        BY PlainType DEF Plain
  <2>2. Good([head EXCEPT !.messages = Append(@, Plain("human")), !.next = "hook"])
        BY <1>1, <2>1, GrowsByOne
  <2>   QED BY <1>2, <2>2, CommitGood DEF UserSpeaks
<1>3. CASE Hook \/ SummaryFails
      BY <1>1, <1>3, HookedGood, CommitGood DEF Hook, SummaryFails
<1>4. CASE Summarise
      BY <1>1, <1>4, SummariseGood
<1>5. CASE Answer
  <2>1. Plain("ai") \in Message /\ Plain("ai").kind # "tool"
        BY PlainType DEF Plain
  <2>2. Good([Current EXCEPT !.messages = Append(@, Plain("ai")), !.next = "end"])
        BY <1>1, <2>1, GrowsByOne
  <2>   QED BY <1>5, <2>2, CommitGood DEF Answer
<1>6. ASSUME NEW calls \in 1..MaxCalls, NEW loads \in SUBSET Skills, CallTools(calls, loads)
      PROVE  GoodInv'
  <2>   DEFINE message == [kind |-> "ai", calls |-> calls, loads |-> loads]
  <2>1. message \in Message /\ message.kind # "tool"
        BY Numbers DEF Message
  <2>2. Commit([Current EXCEPT !.messages = Append(@, message), !.next = "tools"])
        BY <1>6 DEF CallTools
  <2>   HIDE DEF message
  <2>3. Good([Current EXCEPT !.messages = Append(@, message), !.next = "tools"])
        BY <1>1, <2>1, GrowsByOne
  <2>   QED BY <2>2, <2>3, CommitGood
<1>7. CASE RunTools
      BY <1>1, <1>7, RunToolsGood
<1>8. ASSUME NEW reply \in {<<>>, <<Plain("ai")>>}, AppendResume(reply) PROVE GoodInv'
      BY <1>8, AppendResumeGood
<1>9. CASE DeleteConversation
  <2>1. Good(Empty)
        BY Numbers DEF Good, Counted, Followed, Empty, Fields
  <2>   QED BY <1>9, <2>1 DEF DeleteConversation, GoodInv
<1>10. CASE Retry \/ Reject \/ Abort \/ UNCHANGED vars \/ \E skills \in Bindings : Rebind(skills)
  <2>1. UNCHANGED <<head, fork>>
        BY <1>10 DEF Retry, Reject, Abort, Rebind, vars
  <2>   QED BY <2>1 DEF GoodInv, Good, Counted
<1>    QED BY <1>2, <1>3, <1>4, <1>5, <1>6, <1>7, <1>8, <1>9, <1>10 DEF Next

-----------------------------------------------------------------------------
(* What follows for the input of the model. *)

\* Cutting the history at Keep messages and dropping the results at the
\* beginning (_safe_recent) separates no result from its call, although turns
\* are cancelled and retried anywhere.
THEOREM NoOrphanResultAlways == Spec => []NoOrphanResult
<1>1. GoodInv => NoOrphanResult
  <2>   SUFFICES ASSUME GoodInv, NEW i \in Window(head.messages),
                        head.messages[i].kind = "tool"
                 PROVE  \E j \in Window(head.messages) : /\ j < i
                                                         /\ i <= j + head.messages[j].calls
        BY DEF NoOrphanResult
  <2>   DEFINE m == head.messages
  <2>1. m \in Seq(Message) /\ Followed(m) /\ DOMAIN m = 1..Len(m)
        BY DEF GoodInv, Good
  <2>2. PICK k \in DOMAIN m : k <= i /\ k > Len(m) - Keep /\ m[k].kind # "tool"
        BY DEF Window
  <2>3. PICK j \in DOMAIN m : /\ j < i
                              /\ i <= j + m[j].calls
                              /\ \A l \in (j + 1)..i : m[l].kind = "tool"
        BY <2>1 DEF Followed, Window
  <2>4. i \in 1..Len(m) /\ k \in 1..Len(m) /\ j \in 1..Len(m) /\ Len(m) \in Nat
        BY <2>1 DEF Window
  <2>5. k <= j
        BY <2>2, <2>3, <2>4
  <2>6. j \in Window(m)
        BY <2>1, <2>2, <2>4, <2>5, Numbers DEF Window
  <2>   QED BY <2>3, <2>6
<1>   QED BY GoodInit, GoodStep, <1>1, PTL DEF Spec

\* summarized_count counts exactly what the summary was asked for, and the
\* window begins behind it, also in the history that a retry forks off.
THEOREM CoveredWasGivenAlways == Spec => []CoveredWasGiven
<1>1. ASSUME NEW c, Good(c) PROVE c.given = 1..c.covered /\ c.given \cap Window(c.messages) = {}
  <2>1. /\ c.covered \in Nat /\ c.given = 1..c.covered
        /\ c.covered = 0 \/ c.covered + Keep <= Len(c.messages)
        /\ Len(c.messages) \in Nat
        BY <1>1 DEF Good, Counted
  <2>2. ASSUME NEW i \in 1..c.covered, i \in Window(c.messages) PROVE FALSE
        BY <2>1, <2>2, Numbers DEF Window
  <2>   QED BY <2>1, <2>2
<1>2. GoodInv => CoveredWasGiven
      BY <1>1 DEF GoodInv, CoveredWasGiven
<1>   QED BY GoodInit, GoodStep, <1>2, PTL DEF Spec

-----------------------------------------------------------------------------
(* What is in neither the summary nor the window. *)

\* Nothing more is due for a summary when the hook of this turn has run.
SummedUp == at = "head" /\ head.next = "agent" /\ ~skipped => ~Due(head)

LEMMA SummedUpInit == Init => SummedUp
BY DEF Init, SummedUp

LEMMA SummedUpStep == GoodInv /\ SummedUp /\ [Next]_vars => SummedUp'
<1>  SUFFICES ASSUME GoodInv, SummedUp, [Next]_vars PROVE SummedUp'
     OBVIOUS
<1>1. Good(Current) /\ Good(head)
      BY DEF GoodInv, Current
<1>2. CASE Hook
  <2>1. head' = Hooked(Current) /\ ~Due(Current)
        BY <1>2 DEF Hook, Commit
  <2>2. Hooked(Current).messages = Current.messages /\ Hooked(Current).covered = Current.covered
        BY <1>1, HookedGood
  <2>   QED BY <2>1, <2>2 DEF SummedUp, Due
<1>3. CASE Summarise
  <2>   DEFINE overflow == Len(Current.messages) - Keep
               h == Hooked(Current)
               d == [h EXCEPT !.covered = overflow,
                              !.given = h.given \cup (Current.covered + 1)..overflow]
  <2>1. head' = d
        BY <1>3 DEF Summarise, Commit
  <2>2. Good(h) /\ h.messages = Current.messages
        BY <1>1, HookedGood
  <2>   HIDE DEF h
  <2>3. d.messages = Current.messages /\ d.covered = overflow
        BY <2>2 DEF Good, Fields
  <2>4. Len(Current.messages) \in Nat
        BY <1>1 DEF Good
  <2>   HIDE DEF d
  <2>   QED BY <2>1, <2>3, <2>4, Numbers DEF SummedUp, Due
<1>4. CASE SummaryFails
      BY <1>4 DEF SummaryFails, SummedUp
<1>5. CASE UserSpeaks
  <2>1. head'.next = "hook"
        BY <1>1, <1>5 DEF UserSpeaks, Commit, Good, Fields
  <2>   QED BY <2>1 DEF SummedUp
<1>6. CASE RunTools
  <2>1. head'.next = "hook"
        BY <1>1, <1>6 DEF RunTools, Commit, Good, Fields
  <2>   QED BY <2>1 DEF SummedUp
<1>7. ASSUME NEW calls \in 1..MaxCalls, NEW loads \in SUBSET Skills, CallTools(calls, loads)
      PROVE  SummedUp'
  <2>1. head'.next = "tools"
        BY <1>1, <1>7 DEF CallTools, Commit, Good, Fields
  <2>   QED BY <2>1 DEF SummedUp
<1>8. CASE Answer \/ Reject \/ Abort \/ Retry
      BY <1>8 DEF Answer, Reject, Abort, Retry, SummedUp
<1>9. CASE \/ DeleteConversation
           \/ \E skills \in Bindings : Rebind(skills)
           \/ \E reply \in {<<>>, <<Plain("ai")>>} : AppendResume(reply)
  <2>1. at' = "idle"
        BY <1>9 DEF DeleteConversation, Rebind, AppendResume
  <2>   QED BY <2>1 DEF SummedUp
<1>10. CASE UNCHANGED vars
      BY <1>10 DEF vars, SummedUp, Due
<1>   QED BY <1>2, <1>3, <1>4, <1>5, <1>6, <1>7, <1>8, <1>9, <1>10 DEF Next

\* A message that is in neither lies close behind the summary: before the
\* window, or among the results of one message that was cut from it.
LEMMA GapIsClose ==
    ASSUME NEW c, Good(c), ~Due(c),
           NEW i \in DOMAIN c.messages \ (c.given \cup Window(c.messages))
    PROVE  i \in (c.covered + 1)..(c.covered + (Batch + MaxCalls - 1))
<1>  DEFINE m == c.messages
<1>1. /\ m \in Seq(Message) /\ DOMAIN m = 1..Len(m) /\ Len(m) \in Nat
      /\ c.covered \in Nat /\ c.given = 1..c.covered
      BY DEF Good, Counted
<1>2. i \in 1..Len(m) /\ i > c.covered /\ i \notin Window(m)
      BY <1>1
<1>3. Len(m) - Keep < c.covered + Batch
      BY <1>1, Numbers DEF Due
<1>4. CASE i <= Len(m) - Keep
      BY <1>1, <1>2, <1>3, <1>4, Numbers
<1>5. CASE i > Len(m) - Keep
  <2>1. \A k \in 1..i : k > Len(m) - Keep => m[k].kind = "tool"
        BY <1>1, <1>2, <1>5 DEF Window
  <2>2. PICK j \in 1..Len(m) : j < i /\ m[j].kind # "tool" /\ i <= j + m[j].calls
        BY <1>1, <1>2, <1>5, <2>1 DEF Good, Followed
  <2>3. j <= Len(m) - Keep
        BY <1>1, <1>2, <2>1, <2>2, Numbers
  <2>4. m[j].calls \in 0..MaxCalls
    <3>1. m[j] \in Message
          BY <1>1
    <3>   QED BY <3>1 DEF Message
  <2>   DEFINE n == m[j].calls
               length == Len(m)
  <2>5. n \in Nat /\ n <= MaxCalls /\ i <= j + n
        BY <2>2, <2>4, Numbers
  <2>6. length \in Nat /\ j \in Nat /\ j <= length - Keep /\ length - Keep < c.covered + Batch
        BY <1>1, <1>3, <2>3
  <2>7. i \in Nat /\ c.covered \in Nat /\ c.covered + 1 <= i
        BY <1>1, <1>2
  <2>   HIDE DEF n, length, m
  <2>   QED BY <2>5, <2>6, <2>7, Numbers
<1>   QED BY <1>1, <1>2, <1>4, <1>5, Numbers

\* Between what was summarised and the window there are fewer messages than a
\* batch and the results of one message, whatever was retried or cancelled.
THEOREM GapIsBoundedAlways == Spec => []GapIsBounded
<1>1. GoodInv /\ SummedUp => GapIsBounded
  <2>   SUFFICES ASSUME GoodInv, SummedUp, Prepared, ~skipped
                 PROVE  Cardinality(DOMAIN head.messages \ (head.given \cup Window(head.messages)))
                           < Batch + MaxCalls
        BY DEF GapIsBounded
  <2>   DEFINE gap == DOMAIN head.messages \ (head.given \cup Window(head.messages))
               a == head.covered + 1
               b == head.covered + (Batch + MaxCalls - 1)
  <2>1. Good(head) /\ ~Due(head)
        BY DEF GoodInv, SummedUp, Prepared
  <2>2. gap \subseteq a..b
        BY <2>1, GapIsClose
  <2>3. a \in Int /\ b \in Int /\ a <= b /\ b - a + 1 = Batch + MaxCalls - 1
        BY <2>1, Numbers DEF Good, Counted
  <2>   HIDE DEF gap, a, b
  <2>4. IsFiniteSet(a..b) /\ Cardinality(a..b) = b - a + 1
        BY <2>3, FS_Interval
  <2>5. Cardinality(gap) <= Cardinality(a..b) /\ Cardinality(gap) \in Nat
        BY <2>2, <2>4, FS_Subset, FS_CardinalityType
  <2>6. Cardinality(gap) < Batch + MaxCalls
        BY <2>3, <2>4, <2>5, Numbers
  <2>   QED BY <2>6 DEF gap
<1>2. GoodInv /\ SummedUp /\ [Next]_vars => GoodInv' /\ SummedUp'
      BY GoodStep, SummedUpStep
<1>   QED BY GoodInit, SummedUpInit, <1>1, <1>2, PTL DEF Spec

-----------------------------------------------------------------------------
(* Least and greatest numbers. *)

\* A family of subsets of a finite set has a smallest member.
LEMMA SmallestSet ==
    ASSUME NEW S, IsFiniteSet(S), NEW F \in SUBSET SUBSET S, F # {}
    PROVE  \E A \in F : \A B \in F : B \subseteq A => B = A
<1>1. IsWellFoundedOn(StrictSubsetOrdering(S), SUBSET S)
      BY FS_StrictSubsetOrderingWellFounded, FS_FiniteSubsetsOfFinite
<1>2. PICK A \in F : \A B \in F : ~ (<<B, A>> \in StrictSubsetOrdering(S))
      BY <1>1, WFMin
<1>3. ASSUME NEW B \in F, B \subseteq A PROVE B = A
      BY <1>2, <1>3 DEF StrictSubsetOrdering
<1>   QED BY <1>3

\* A set of numbers has a least one: induction, as the provers can cite it.
LEMMA LeastNumber ==
    ASSUME NEW T \in SUBSET Nat, T # {}
    PROVE  \E n \in T : \A k \in T : n <= k
<1>1. PICK top \in T : TRUE
      OBVIOUS
<1>   DEFINE S == 1..top
             F == {1..n : n \in {k \in T : k <= top}}
<1>2. F \in SUBSET SUBSET S /\ F # {}
  <2>1. (1..top) \in F
        BY <1>1
  <2>   QED BY <1>1, <2>1
<1>3. \A A \in F : \E n \in T : n <= top /\ A = 1..n
      OBVIOUS
<1>4. \A n \in T : n <= top => (1..n) \in F
      OBVIOUS
<1>5. IsFiniteSet(S)
      BY <1>1, FS_Interval
<1>   HIDE DEF F, S
<1>6. PICK A \in F : \A B \in F : B \subseteq A => B = A
      BY <1>2, <1>5, SmallestSet
<1>7. PICK n \in T : n <= top /\ A = 1..n
      BY <1>3, <1>6
<1>8. ASSUME NEW k \in T, k < n PROVE FALSE
  <2>1. (1..k) \in F /\ (1..k) \subseteq A
        BY <1>1, <1>4, <1>7, <1>8
  <2>2. 1..k = 1..n
        BY <1>6, <1>7, <2>1
  <2>3. n \in 1..n /\ n \notin 1..k
        BY <1>8
  <2>   QED BY <2>2, <2>3
<1>   QED BY <1>8

\* The greatest of bounded numbers is one of them.
LEMMA GreatestNumber ==
    ASSUME NEW top \in Nat, NEW T \in SUBSET (0..top), T # {}
    PROVE  Max(T) \in T /\ \A k \in T : k <= Max(T)
<1>   DEFINE U == {n \in Nat : \A k \in T : k <= n}
<1>1. top \in U
      OBVIOUS
<1>2. PICK m \in U : \A n \in U : m <= n
  <2>   HIDE DEF U
  <2>1. U \in SUBSET Nat
        BY DEF U
  <2>   QED BY <1>1, <2>1, LeastNumber
<1>3. m \in T
  <2>   SUFFICES ASSUME m \notin T PROVE FALSE
        OBVIOUS
  <2>1. PICK k \in T : k <= m /\ k # m
        OBVIOUS
  <2>2. m - 1 \in Nat
        BY <2>1
  <2>3. \A l \in T : l <= m - 1
    <3>   TAKE l \in T
    <3>1. l <= m /\ l # m /\ l \in Nat /\ m \in Nat
          OBVIOUS
    <3>   QED BY <3>1
  <2>4. m <= m - 1
        BY <1>2, <2>2, <2>3
  <2>   QED BY <2>4
<1>4. \E x \in T : \A y \in T : x >= y
      BY <1>3
<1>   QED BY <1>4 DEF Max

-----------------------------------------------------------------------------
(* The types, and what else holds of every checkpoint. *)

\* The last load of a skill is the position of a message that loads it.
LEMMA LastLoadType ==
    ASSUME NEW m \in Seq(Message), NEW s
    PROVE  /\ LastLoad(m, s) \in 0..Len(m)
           /\ \A i \in 1..Len(m) : s \in m[i].loads =>
                /\ LastLoad(m, s) \in 1..Len(m)
                /\ s \in m[LastLoad(m, s)].loads
                /\ i <= LastLoad(m, s)
<1>  DEFINE loads == {i \in DOMAIN m : s \in m[i].loads}
<1>1. DOMAIN m = 1..Len(m) /\ Len(m) \in Nat
      OBVIOUS
<1>2. LastLoad(m, s) = IF loads = {} THEN 0 ELSE Max(loads)
      BY DEF LastLoad
<1>3. ASSUME loads # {}
      PROVE  Max(loads) \in loads /\ \A i \in loads : i <= Max(loads)
  <2>1. loads \in SUBSET (0..Len(m))
        BY <1>1
  <2>   HIDE DEF loads
  <2>   QED BY <1>1, <1>3, <2>1, GreatestNumber
<1>4. \A i \in 1..Len(m) : s \in m[i].loads => i \in loads
      BY <1>1
<1>5. \A i \in loads : i \in 1..Len(m) /\ s \in m[i].loads
      BY <1>1
<1>   HIDE DEF loads
<1>   QED BY <1>1, <1>2, <1>3, <1>4, <1>5

\* Only the model calls tools and loads skills; the tools run next exactly if
\* its last message has calls, whose results still fit.
Whole(c) ==
    /\ \A i \in 1..Len(c.messages) :
          c.messages[i].kind # "ai" => c.messages[i].calls = 0 /\ c.messages[i].loads = {}
    /\ Len(c.messages) <= MaxMessages
    /\ c.messages = <<>> => c.next = "end"
    /\ c.active \in [Skills -> 0..Len(c.messages)]
    /\ c.injected \subseteq Skills
    /\ c.next \in {"hook", "agent", "tools", "end"}
    /\ c.next = "tools" <=> c.messages # <<>> /\ c.messages[Len(c.messages)].calls > 0
    /\ c.next = "tools" =>
          Len(c.messages) + c.messages[Len(c.messages)].calls <= MaxMessages

\* A retry starts behind a message of the user.
Retriable ==
    \/ fork.messages = <<>> /\ fork.next = "end"
    \/ /\ fork.messages # <<>>
       /\ fork.messages[Len(fork.messages)].kind = "human"
       /\ fork.next \in {"hook", "agent"}

\* A turn that runs has a step to go.
Running ==
    /\ at \in {"idle", "head", "fork"}
    /\ at = "head" => head.next # "end"
    /\ at = "fork" => fork.next # "end"

Others == bound \in Bindings /\ skipped \in BOOLEAN /\ stuck \subseteq 1..MaxMessages

TypeInv == Whole(head) /\ Whole(fork) /\ Retriable /\ Running /\ Others

\* A step that appends.
LEMMA WholeGrows ==
    ASSUME NEW c, Good(c), Whole(c), NEW new \in Seq(Message), new # <<>>,
           NEW next \in {"hook", "agent", "tools", "end"},
           Len(c.messages) + Len(new) <= MaxMessages,
           \A i \in 1..Len(new) : new[i].kind # "ai" => new[i].calls = 0 /\ new[i].loads = {},
           next = "tools" <=> new[Len(new)].calls > 0,
           next = "tools" =>
              Len(c.messages) + Len(new) + new[Len(new)].calls <= MaxMessages
    PROVE  Whole([c EXCEPT !.messages = c.messages \o new, !.next = next])
<1>  DEFINE d == [c EXCEPT !.messages = c.messages \o new, !.next = next]
            m == c.messages
            all == m \o new
<1>1. /\ d.messages = all /\ d.next = next
      /\ d.active = c.active /\ d.injected = c.injected
      BY DEF Good, Fields
<1>  HIDE DEF d
<1>2. m \in Seq(Message) /\ Len(m) \in Nat /\ Len(new) \in Nat \ {0}
      BY DEF Good
<1>3. /\ all \in Seq(Message)
      /\ Len(all) = Len(m) + Len(new)
      /\ \A i \in 1..(Len(m) + Len(new)) :
            all[i] = IF i <= Len(m) THEN m[i] ELSE new[i - Len(m)]
      BY <1>2, ConcatProperties
<1>  HIDE DEF all
<1>4. all[Len(all)] = new[Len(new)] /\ all # <<>>
      BY <1>2, <1>3
<1>5. ASSUME NEW i \in 1..Len(all), all[i].kind # "ai"
      PROVE  all[i].calls = 0 /\ all[i].loads = {}
  <2>1. CASE i <= Len(m)
    <3>1. i \in 1..Len(m) /\ all[i] = m[i]
          BY <1>2, <1>3, <2>1
    <3>   QED BY <1>5, <3>1 DEF Whole
  <2>2. CASE ~(i <= Len(m))
    <3>1. i - Len(m) \in 1..Len(new) /\ all[i] = new[i - Len(m)]
          BY <1>2, <1>3, <2>2
    <3>   QED BY <1>5, <3>1
  <2>   QED BY <2>1, <2>2
<1>6. c.active \in [Skills -> 0..Len(all)]
  <2>1. c.active \in [Skills -> 0..Len(m)] /\ 0..Len(m) \subseteq 0..Len(all)
        BY <1>2, <1>3 DEF Whole
  <2>   QED BY <2>1
<1>7. Whole(d)
  <2>1. Len(all) <= MaxMessages
        BY <1>3
  <2>2. next = "tools" => Len(all) + all[Len(all)].calls <= MaxMessages
        BY <1>3, <1>4
  <2>   QED BY <1>1, <1>4, <1>5, <1>6, <2>1, <2>2 DEF Whole
<1>   QED BY <1>7 DEF d

\* A step that appends one message of the user or of the model.
LEMMA WholeGrowsByOne ==
    ASSUME NEW c, Good(c), Whole(c), NEW message \in Message,
           NEW next \in {"hook", "agent", "tools", "end"},
           Len(c.messages) + 1 + message.calls <= MaxMessages,
           message.kind # "ai" => message.calls = 0 /\ message.loads = {},
           next = "tools" <=> message.calls > 0
    PROVE  Whole([c EXCEPT !.messages = Append(@, message), !.next = next])
<1>1. c.messages \in Seq(Message)
      BY DEF Good
<1>2. Append(c.messages, message) = c.messages \o <<message>>
      BY <1>1, AppendIsConcat
<1>3. message.calls \in Nat
      BY Numbers DEF Message
<1>   DEFINE new == <<message>>
<1>4. new \in Seq(Message) /\ new # <<>> /\ Len(new) = 1 /\ new[1] = message
      OBVIOUS
<1>   HIDE DEF new
<1>5. /\ Len(c.messages) + Len(new) <= MaxMessages
      /\ Len(c.messages) + Len(new) + new[Len(new)].calls <= MaxMessages
      /\ next = "tools" <=> new[Len(new)].calls > 0
      /\ \A i \in 1..Len(new) : new[i].kind # "ai" => new[i].calls = 0 /\ new[i].loads = {}
      BY <1>1, <1>3, <1>4, Numbers
<1>6. Whole([c EXCEPT !.messages = c.messages \o new, !.next = next])
      BY <1>4, <1>5, WholeGrows
<1>   QED BY <1>2, <1>6 DEF new

LEMMA GrowsByPlain ==
    ASSUME NEW c, Good(c), Whole(c), NEW kind \in {"human", "ai"},
           NEW next \in {"hook", "end"}, Len(c.messages) < MaxMessages
    PROVE  LET d == [c EXCEPT !.messages = Append(@, Plain(kind)), !.next = next]
           IN  /\ Good(d) /\ Whole(d)
               /\ d.messages = Append(c.messages, Plain(kind)) /\ d.next = next
<1>  DEFINE message == Plain(kind)
            d == [c EXCEPT !.messages = Append(@, message), !.next = next]
<1>1. message \in Message /\ message.calls = 0 /\ message.kind = kind /\ message.loads = {}
      BY PlainType DEF Plain
<1>2. d.messages = Append(c.messages, message) /\ d.next = next
      BY DEF Good, Fields
<1>   HIDE DEF message
<1>3. Len(c.messages) \in Nat
      BY DEF Good
<1>4. Len(c.messages) + 1 + message.calls <= MaxMessages
      BY <1>1, <1>3, Numbers
<1>5. /\ message.kind # "ai" => message.calls = 0 /\ message.loads = {}
      /\ next = "tools" <=> message.calls > 0
      /\ next \in {"hook", "agent", "tools", "end"} /\ message.kind # "tool"
      BY <1>1
<1>6. Whole(d)
      BY <1>1, <1>4, <1>5, WholeGrowsByOne
<1>7. Good(d)
      BY <1>1, <1>5, GrowsByOne
<1>   QED BY <1>2, <1>6, <1>7 DEF message

\* A binding lists skills, each once.
LEMMA BindingType ==
    ASSUME NEW b \in Bindings
    PROVE  \E n \in Nat : b \in [1..n -> Skills] /\ IsInjective(b)
<1>1. PICK n \in 0..Cardinality(Skills) : b \in [1..n -> Skills]
      BY DEF Bindings, BoundedSeq, SeqOf
<1>2. n \in Nat /\ IsInjective(b)
      BY DEF Bindings
<1>   QED BY <1>1, <1>2

\* The checkpoint after the hook.
LEMMA WholeHooked ==
    ASSUME NEW c, Good(c), Whole(c), c.next = "hook", bound \in Bindings
    PROVE  Whole(Hooked(c))
<1>1. /\ Hooked(c).messages = c.messages /\ Hooked(c).next = "agent"
      /\ Hooked(c).active = Active(c)
      /\ Hooked(c).injected = Injected(Active(c), Len(c.messages))
      BY DEF Hooked, Good, Fields
<1>2. Active(c) \in [Skills -> 0..Len(c.messages)]
  <2>1. c.messages \in Seq(Message) /\ c.active \in [Skills -> 0..Len(c.messages)]
        BY DEF Good, Whole
  <2>2. \A s \in Skills : LastLoad(c.messages, s) \in 0..Len(c.messages)
        BY <2>1, LastLoadType
  <2>3. 0 \in 0..Len(c.messages)
        BY <2>1
  <2>   QED BY <2>1, <2>2, <2>3 DEF Active
<1>3. Injected(Active(c), Len(c.messages)) \subseteq Skills
  <2>1. \A k \in DOMAIN bound : bound[k] \in Skills
        BY BindingType
  <2>   QED BY <2>1 DEF Injected, Stale
<1>   QED BY <1>1, <1>2, <1>3 DEF Whole

LEMMA CommitType ==
    ASSUME NEW c, Whole(c), c.messages # <<>>, c.messages \in Seq(Message), Commit(c),
           Whole(fork), Retriable
    PROVE  Whole(head)' /\ Whole(fork)' /\ Retriable'
<1>1. head' = c /\ (fork' = c \/ fork' = fork)
      BY DEF Commit
<1>2. Whole(head)' /\ Whole(fork)'
      BY <1>1 DEF Whole
<1>3. CASE c.messages[Len(c.messages)].kind = "human" /\ c.next # "end"
  <2>1. fork' = c
        BY <1>3 DEF Commit, Last
  <2>2. c.messages[Len(c.messages)].calls = 0
    <3>1. Len(c.messages) \in 1..Len(c.messages)
          OBVIOUS
    <3>   QED BY <1>3, <3>1 DEF Whole
  <2>3. c.next \in {"hook", "agent"}
        BY <1>3, <2>2 DEF Whole
  <2>   QED BY <1>2, <1>3, <2>1, <2>3 DEF Retriable
<1>4. CASE ~(c.messages[Len(c.messages)].kind = "human" /\ c.next # "end")
  <2>1. fork' = fork
        BY <1>4 DEF Commit, Last
  <2>   QED BY <1>2, <2>1 DEF Retriable
<1>   QED BY <1>3, <1>4

LEMMA TypeInit == Init => TypeInv
<1>   SUFFICES ASSUME Init PROVE TypeInv
      OBVIOUS
<1>1. Whole(Empty)
      BY Numbers DEF Whole, Empty
<1>   QED BY <1>1 DEF Init, TypeInv, Retriable, Running, Others, Empty

LEMMA UserSpeaksType ==
    ASSUME UserSpeaks, GoodInv, TypeInv
    PROVE  TypeInv'
<1>  DEFINE d == [head EXCEPT !.messages = Append(@, Plain("human")), !.next = "hook"]
<1>1. Good(head) /\ Whole(head) /\ head.messages \in Seq(Message)
      BY DEF GoodInv, TypeInv, Good
<1>2. /\ Good(d) /\ Whole(d)
      /\ d.messages = Append(head.messages, Plain("human")) /\ d.next = "hook"
      BY <1>1, GrowsByPlain DEF UserSpeaks
<1>3. d.messages # <<>> /\ d.messages \in Seq(Message)
  <2>1. Plain("human") \in Message
        BY PlainType
  <2>   QED BY <1>1, <1>2, <2>1
<1>6. Commit(d) /\ at' = "head" /\ UNCHANGED <<bound, skipped, stuck>>
      BY DEF UserSpeaks
<1>   HIDE DEF d
<1>7. head' = d
      BY <1>6 DEF Commit
<1>8. Running' /\ Others'
      BY <1>2, <1>6, <1>7 DEF TypeInv, Running, Others
<1>   QED BY <1>2, <1>3, <1>6, <1>8, CommitType DEF TypeInv

\* The three ways the hook ends: with no summary due, with one, with an error.
LEMMA HookType ==
    ASSUME GoodInv, TypeInv, Good(Current), Whole(Current),
           Hook \/ Summarise \/ SummaryFails
    PROVE  TypeInv'
<1>  DEFINE h == Hooked(Current)
            overflow == Len(Current.messages) - Keep
            d == [h EXCEPT !.covered = overflow,
                           !.given = h.given \cup (Current.covered + 1)..overflow]
<1>1. /\ at # "idle" /\ Current.next = "hook" /\ at' = "head"
      /\ skipped' \in BOOLEAN /\ UNCHANGED <<bound, stuck>>
      /\ Commit(h) \/ Commit(d)
      BY DEF Hook, Summarise, SummaryFails
<1>2. Whole(h) /\ Good(h)
      BY <1>1, WholeHooked, HookedGood DEF TypeInv, Others
<1>3. h.messages = Current.messages /\ h.next = "agent" /\ h.messages \in Seq(Message)
      BY HookedGood DEF Good
<1>4. d.messages = h.messages /\ d.next = "agent" /\ Whole(d)
      BY <1>2, <1>3 DEF Good, Fields, Whole
<1>5. Current.messages # <<>>
      BY <1>1 DEF Whole
<1>   HIDE DEF h, d
<1>6. PICK c : Commit(c) /\ Whole(c) /\ c.messages = Current.messages /\ c.next = "agent"
      BY <1>1, <1>2, <1>3, <1>4
<1>7. head' = c
      BY <1>6 DEF Commit
<1>8. Running' /\ Others'
      BY <1>1, <1>6, <1>7 DEF TypeInv, Running, Others
<1>9. c.messages # <<>> /\ c.messages \in Seq(Message)
      BY <1>3, <1>5, <1>6
<1>   QED BY <1>6, <1>8, <1>9, CommitType DEF TypeInv
LEMMA AnswerType ==
    ASSUME GoodInv, TypeInv, Good(Current), Whole(Current), Answer
    PROVE  TypeInv'
<1>  DEFINE d == [Current EXCEPT !.messages = Append(@, Plain("ai")), !.next = "end"]
<1>1. /\ Good(d) /\ Whole(d)
      /\ d.messages = Append(Current.messages, Plain("ai")) /\ d.next = "end"
      BY GrowsByPlain DEF Answer
<1>2. d.messages # <<>> /\ d.messages \in Seq(Message)
  <2>1. Plain("ai") \in Message /\ Current.messages \in Seq(Message)
        BY PlainType DEF Good
  <2>   QED BY <1>1, <2>1
<1>3. Commit(d) /\ at' = "idle" /\ stuck' = {} /\ UNCHANGED <<bound, skipped>>
      BY DEF Answer
<1>   HIDE DEF d
<1>4. Running' /\ Others'
      BY <1>3 DEF TypeInv, Running, Others
<1>   QED BY <1>1, <1>2, <1>3, <1>4, CommitType DEF TypeInv

LEMMA CallToolsType ==
    ASSUME GoodInv, TypeInv, Good(Current), Whole(Current),
           NEW calls \in 1..MaxCalls, NEW loads \in SUBSET Skills, CallTools(calls, loads)
    PROVE  TypeInv'
<1>  DEFINE message == [kind |-> "ai", calls |-> calls, loads |-> loads]
            d == [Current EXCEPT !.messages = Append(@, message), !.next = "tools"]
<1>1. message \in Message /\ message.kind = "ai" /\ message.calls = calls /\ calls > 0
      BY Numbers DEF Message
<1>2. Commit(d) /\ at' = "head" /\ stuck' = {} /\ UNCHANGED <<bound, skipped>>
      BY DEF CallTools
<1>3. Len(Current.messages) + 1 + calls <= MaxMessages
      BY DEF CallTools
<1>4. d.messages = Append(Current.messages, message) /\ d.next = "tools"
      BY DEF Good, Fields
<1>   HIDE DEF message
<1>5. d.messages # <<>> /\ d.messages \in Seq(Message)
      BY <1>1, <1>4 DEF Good
<1>6. Whole(d)
      BY <1>1, <1>3, WholeGrowsByOne
<1>   HIDE DEF d
<1>7. head' = d
      BY <1>2 DEF Commit
<1>8. Running' /\ Others'
      BY <1>2, <1>4, <1>7 DEF TypeInv, Running, Others
<1>   QED BY <1>2, <1>5, <1>6, <1>8, CommitType DEF TypeInv

\* The results of n calls.
LEMMA ResultsType ==
    ASSUME NEW n \in Nat, NEW new, new = [i \in 1..n |-> Plain("tool")]
    PROVE  /\ new \in Seq(Message) /\ Len(new) = n
           /\ \A i \in 1..Len(new) :
                 new[i].kind = "tool" /\ new[i].calls = 0 /\ new[i].loads = {}
<1>   DEFINE result == Plain("tool")
<1>1. result \in Message /\ result.kind = "tool" /\ result.calls = 0 /\ result.loads = {}
      BY PlainType DEF Plain
<1>   HIDE DEF result
<1>   QED BY <1>1 DEF result

\* What the tools node appends: at least one result.
LEMMA RunToolsEffect ==
    ASSUME Good(Current), Whole(Current), RunTools
    PROVE  \E new \in Seq(Message) :
              /\ new # <<>> /\ Len(Current.messages) + Len(new) <= MaxMessages
              /\ \A i \in 1..Len(new) :
                    new[i].kind = "tool" /\ new[i].calls = 0 /\ new[i].loads = {}
              /\ Commit([Current EXCEPT !.messages = Current.messages \o new, !.next = "hook"])
<1>  DEFINE m == Current.messages
            n == m[Len(m)].calls
            new == [i \in 1..n |-> Plain("tool")]
<1>1. Commit([Current EXCEPT !.messages = m \o new, !.next = "hook"])
      BY DEF RunTools, Last
<1>2. Current.next = "tools"
      BY DEF RunTools
<1>3. m # <<>> /\ n > 0 /\ Len(m) + n <= MaxMessages
      BY <1>2 DEF Whole
<1>4. n \in Nat
  <2>1. m[Len(m)] \in Message
        BY <1>3 DEF Good
  <2>   QED BY <2>1, Numbers DEF Message
<1>   HIDE DEF n
<1>5. /\ new \in Seq(Message) /\ Len(new) = n
      /\ \A i \in 1..Len(new) :
            new[i].kind = "tool" /\ new[i].calls = 0 /\ new[i].loads = {}
      BY <1>4, ResultsType
<1>   HIDE DEF new
<1>6. new # <<>>
      BY <1>3, <1>4, <1>5
<1>   QED BY <1>1, <1>3, <1>5, <1>6

LEMMA RunToolsType ==
    ASSUME GoodInv, TypeInv, Good(Current), Whole(Current), RunTools
    PROVE  TypeInv'
<1>1. PICK new \in Seq(Message) :
              /\ new # <<>> /\ Len(Current.messages) + Len(new) <= MaxMessages
              /\ \A i \in 1..Len(new) :
                    new[i].kind = "tool" /\ new[i].calls = 0 /\ new[i].loads = {}
              /\ Commit([Current EXCEPT !.messages = Current.messages \o new, !.next = "hook"])
      BY RunToolsEffect
<1>   DEFINE d == [Current EXCEPT !.messages = Current.messages \o new, !.next = "hook"]
<1>2. d.messages = Current.messages \o new /\ d.next = "hook"
      BY DEF Good, Fields
<1>3. d.messages # <<>> /\ d.messages \in Seq(Message)
      BY <1>1, <1>2 DEF Good
<1>4. Whole(d)
  <2>1. Len(new) \in 1..Len(new)
        BY <1>1
  <2>2. /\ \A i \in 1..Len(new) : new[i].kind # "ai" => new[i].calls = 0 /\ new[i].loads = {}
        /\ "hook" = "tools" <=> new[Len(new)].calls > 0
        BY <1>1, <2>1
  <2>   QED BY <1>1, <2>2, WholeGrows
<1>5. UNCHANGED <<at, bound, skipped, stuck>> /\ at # "idle"
      BY DEF RunTools
<1>   HIDE DEF d
<1>6. head' = d
      BY <1>1 DEF Commit, d
<1>7. at # "fork"
  <2>1. Current.next = "tools"
        BY DEF RunTools
  <2>   QED BY <2>1 DEF Current, TypeInv, Retriable
<1>8. Running' /\ Others'
      BY <1>2, <1>5, <1>6, <1>7 DEF TypeInv, Running, Others
<1>9. Commit(d)
      BY <1>1 DEF d
<1>   QED BY <1>3, <1>4, <1>8, <1>9, CommitType DEF TypeInv

\* The question and the reply of a resume, appended.
LEMMA AppendResumeEffect ==
    ASSUME Good(head), Whole(head), NEW reply \in {<<>>, <<Plain("ai")>>}, AppendResume(reply)
    PROVE  \E c : /\ Good(c) /\ Whole(c) /\ c.next = "end" /\ Commit(c)
                  /\ \/ c.messages = Append(head.messages, Plain("human"))
                     \/ c.messages = Append(Append(head.messages, Plain("human")), Plain("ai"))
<1>  DEFINE b == [head EXCEPT !.messages = Append(@, Plain("human")), !.next = "end"]
            c == [b EXCEPT !.messages = Append(@, Plain("ai")), !.next = "end"]
            d == [head EXCEPT !.messages = @ \o <<Plain("human")>> \o reply, !.next = "end"]
<1>1. head.messages \in Seq(Message) /\ Len(head.messages) \in Nat
      BY DEF Good
<1>2. Plain("human") \in Message /\ Plain("ai") \in Message
      BY PlainType
<1>3. Len(head.messages) + Len(reply) < MaxMessages /\ Commit(d)
      BY DEF AppendResume
<1>4. Append(head.messages, Plain("human")) = head.messages \o <<Plain("human")>>
      BY <1>1, <1>2, AppendIsConcat
<1>5. Len(reply) \in {0, 1}
      OBVIOUS
<1>6. /\ Good(b) /\ Whole(b) /\ b.next = "end"
      /\ b.messages = Append(head.messages, Plain("human"))
  <2>1. Len(head.messages) < MaxMessages
        BY <1>1, <1>3, <1>5, Numbers
  <2>   QED BY <2>1, GrowsByPlain
<1>7. CASE reply = <<>>
  <2>1. Append(head.messages, Plain("human")) \o <<>> = Append(head.messages, Plain("human"))
        BY <1>1, <1>2
  <2>2. b = d
        BY <1>4, <1>7, <2>1
  <2>   HIDE DEF b, d
  <2>   QED BY <1>3, <1>6, <2>2
<1>8. CASE reply = <<Plain("ai")>>
  <2>1. b.messages \in Seq(Message) /\ Len(b.messages) = Len(head.messages) + 1
        BY <1>1, <1>2, <1>6
  <2>2. /\ Good(c) /\ Whole(c) /\ c.next = "end"
        /\ c.messages = Append(b.messages, Plain("ai"))
    <3>1. Len(b.messages) < MaxMessages
          BY <1>1, <1>3, <1>8, <2>1, Numbers
    <3>   HIDE DEF b
    <3>   QED BY <1>6, <3>1, GrowsByPlain
  <2>3. c = d
    <3>1. Append(b.messages, Plain("ai")) = b.messages \o reply
          BY <1>2, <1>8, <2>1, AppendIsConcat
    <3>   QED BY <1>4, <1>6, <3>1
  <2>   HIDE DEF b, c, d
  <2>   QED BY <1>3, <1>6, <2>2, <2>3
<1>   QED BY <1>7, <1>8

LEMMA AppendResumeType ==
    ASSUME GoodInv, TypeInv, NEW reply \in {<<>>, <<Plain("ai")>>}, AppendResume(reply)
    PROVE  TypeInv'
<1>1. Good(head) /\ Whole(head) /\ head.messages \in Seq(Message)
      BY DEF GoodInv, TypeInv, Good
<1>2. PICK c : /\ Good(c) /\ Whole(c) /\ c.next = "end" /\ Commit(c)
               /\ \/ c.messages = Append(head.messages, Plain("human"))
                  \/ c.messages = Append(Append(head.messages, Plain("human")), Plain("ai"))
      BY <1>1, AppendResumeEffect
<1>3. c.messages # <<>> /\ c.messages \in Seq(Message)
  <2>1. \A m \in Seq(Message), x \in Message :
           Append(m, x) \in Seq(Message) /\ Append(m, x) # <<>>
        BY AppendProperties
  <2>2. PICK said \in Seq(Message) : said = Append(head.messages, Plain("human"))
        BY <1>1, <2>1, PlainType
  <2>3. PICK told \in Seq(Message) : told = Append(said, Plain("ai")) /\ told # <<>>
        BY <2>1, PlainType
  <2>4. said # <<>>
        BY <1>1, <2>1, <2>2, PlainType
  <2>5. c.messages = said \/ c.messages = told
        BY <1>2, <2>2, <2>3
  <2>   QED BY <2>3, <2>4, <2>5
<1>4. at = "idle" /\ UNCHANGED <<at, bound, skipped, stuck>>
      BY DEF AppendResume
<1>5. Running' /\ Others'
      BY <1>4 DEF TypeInv, Running, Others
<1>   QED BY <1>2, <1>3, <1>5, CommitType DEF TypeInv

LEMMA TypeStep == GoodInv /\ TypeInv /\ [Next]_vars => TypeInv'
<1>  SUFFICES ASSUME GoodInv, TypeInv, [Next]_vars PROVE TypeInv'
     OBVIOUS
<1>1. Good(Current) /\ Whole(Current) /\ Good(head) /\ Whole(head)
      BY DEF GoodInv, TypeInv, Current
<1>2. CASE DeleteConversation
  <2>1. Whole(Empty)
        BY Numbers DEF Whole, Empty
  <2>2. head' = Empty /\ fork' = Empty /\ at = "idle" /\ at' = "idle"
        /\ skipped' = FALSE /\ stuck' = {} /\ bound' = bound
        BY <1>2 DEF DeleteConversation
  <2>3. Empty.messages = <<>> /\ Empty.next = "end"
        BY DEF Empty
  <2>4. Whole(head)' /\ Whole(fork)'
        BY <2>1, <2>2 DEF Whole
  <2>   QED BY <2>2, <2>3, <2>4 DEF TypeInv, Retriable, Running, Others
<1>3. CASE Reject
  <2>1. Len(Current.messages) \in 1..MaxMessages
    <3>1. Current.messages # <<>>
          BY <1>1, <1>3 DEF Reject, Whole
    <3>   QED BY <1>1, <3>1, Numbers DEF Good, Whole
  <2>2. UNCHANGED <<head, fork, bound, skipped>> /\ at' = "idle"
        /\ stuck' = stuck \cup {Len(Current.messages)}
        BY <1>3 DEF Reject
  <2>   QED BY <2>1, <2>2 DEF TypeInv, Whole, Retriable, Running, Others
<1>4. CASE Retry \/ Abort \/ UNCHANGED vars \/ \E skills \in Bindings : Rebind(skills)
  <2>1. /\ UNCHANGED <<head, fork, skipped, stuck>> /\ bound' \in Bindings
        /\ at' \in {"idle", "fork"} \/ UNCHANGED at
        /\ at' = "fork" => fork.next # "end"
        BY <1>4 DEF Retry, Abort, Rebind, vars, TypeInv, Running, Others
  <2>   QED BY <2>1 DEF TypeInv, Whole, Retriable, Running, Others
<1>5. CASE UserSpeaks \/ Hook \/ Summarise \/ SummaryFails \/ Answer \/ RunTools
      BY <1>1, <1>5, UserSpeaksType, HookType, AnswerType, RunToolsType
<1>6. ASSUME NEW calls \in 1..MaxCalls, NEW loads \in SUBSET Skills, CallTools(calls, loads)
      PROVE  TypeInv'
      BY <1>1, <1>6, CallToolsType
<1>7. ASSUME NEW reply \in {<<>>, <<Plain("ai")>>}, AppendResume(reply) PROVE TypeInv'
      BY <1>7, AppendResumeType
<1>   QED BY <1>2, <1>3, <1>4, <1>5, <1>6, <1>7 DEF Next

\* The types of the state, of which two are more than types: the conversation
\* stays below its bound although results are appended many at a time, and the
\* remembered loads stay inside the history they point into.
THEOREM TypeOKAlways == Spec => []TypeOK
<1>1. ASSUME NEW c, Good(c), Whole(c) PROVE CheckpointOK(c)
  <2>1. DOMAIN Empty = Fields
        BY DEF Empty, Fields
  <2>2. c.messages \in Seq(Message) /\ Len(c.messages) \in Nat
        BY <1>1 DEF Good
  <2>3. c.covered \in 0..Len(c.messages) /\ c.given \subseteq DOMAIN c.messages
        BY <1>1, <2>2, Numbers DEF Good, Counted
  <2>   QED BY <1>1, <2>1, <2>2, <2>3 DEF CheckpointOK, Good, Whole
<1>2. GoodInv /\ TypeInv => TypeOK
      BY <1>1 DEF GoodInv, TypeInv, Running, Others, TypeOK
<1>3. GoodInv /\ TypeInv /\ [Next]_vars => GoodInv' /\ TypeInv'
      BY GoodStep, TypeStep
<1>   QED BY GoodInit, TypeInit, <1>2, <1>3, PTL DEF Spec

-----------------------------------------------------------------------------
(* Skills that were loaded. *)

\* The hook of this turn has computed what precedes the window, from the
\* messages that are there and the skills that are bound now.
Shown ==
    at = "head" /\ head.next = "agent" =>
        /\ head.injected = Injected(head.active, Len(head.messages))
        /\ \A k \in DOMAIN bound :
              LET last == LastLoad(head.messages, bound[k])
              IN  last # 0 => head.active[bound[k]] = last

LEMMA ShownInit == Init => Shown
BY DEF Init, Shown

LEMMA HookShown ==
    ASSUME GoodInv, TypeInv, Good(Current), Whole(Current),
           Hook \/ Summarise \/ SummaryFails
    PROVE  Shown'
<1>  DEFINE h == Hooked(Current)
            overflow == Len(Current.messages) - Keep
            d == [h EXCEPT !.covered = overflow,
                           !.given = h.given \cup (Current.covered + 1)..overflow]
            m == Current.messages
            active == Active(Current)
<1>1. bound' = bound /\ (head' = h \/ head' = d)
      BY DEF Hook, Summarise, SummaryFails, Commit
<1>2. h.messages = m /\ h.active = active /\ h.injected = Injected(active, Len(m))
      BY DEF Hooked, Good, Fields
<1>3. d.messages = h.messages /\ d.active = h.active /\ d.injected = h.injected
  <2>1. Good(h)
        BY HookedGood
  <2>   HIDE DEF h
  <2>   QED BY <2>1 DEF Good, Fields
<1>   HIDE DEF h, d
<1>4. head'.messages = m /\ head'.active = active /\ head'.injected = Injected(active, Len(m))
      BY <1>1, <1>2, <1>3
<1>5. ASSUME NEW k \in DOMAIN bound, LastLoad(m, bound[k]) # 0
      PROVE  active[bound[k]] = LastLoad(m, bound[k])
  <2>1. bound[k] \in Skills /\ bound[k] \in Range(bound)
        BY BindingType DEF TypeInv, Others, Range
  <2>   QED BY <1>5, <2>1 DEF Active
<1>   HIDE DEF m, active
<1>6. Injected(head.active, Len(head.messages))' = Injected(active, Len(m))
      BY <1>1, <1>4 DEF Injected, Stale
<1>7. ASSUME NEW k \in DOMAIN bound
      PROVE  LastLoad(m, bound[k]) # 0 => head'.active[bound[k]] = LastLoad(m, bound[k])
      BY <1>4, <1>5
<1>8. \A k \in DOMAIN bound :
         (LET last == LastLoad(head.messages, bound[k])
          IN  last # 0 => head.active[bound[k]] = last)'
      BY <1>1, <1>4, <1>7 DEF LastLoad
<1>   QED BY <1>1, <1>4, <1>6, <1>8 DEF Shown

LEMMA ShownStep == GoodInv /\ TypeInv /\ Shown /\ [Next]_vars => Shown'
<1>  SUFFICES ASSUME GoodInv, TypeInv, Shown, [Next]_vars PROVE Shown'
     OBVIOUS
<1>1. Good(Current) /\ Good(head) /\ Whole(Current)
      BY DEF GoodInv, TypeInv, Current
<1>2. CASE Hook \/ Summarise \/ SummaryFails
      BY <1>1, <1>2, HookShown
<1>3. CASE UserSpeaks \/ RunTools
  <2>1. head'.next = "hook"
        BY <1>1, <1>3 DEF UserSpeaks, RunTools, Commit, Good, Fields
  <2>   QED BY <2>1 DEF Shown
<1>4. ASSUME NEW calls \in 1..MaxCalls, NEW loads \in SUBSET Skills, CallTools(calls, loads)
      PROVE  Shown'
  <2>1. head'.next = "tools"
        BY <1>1, <1>4 DEF CallTools, Commit, Good, Fields
  <2>   QED BY <2>1 DEF Shown
<1>5. CASE \/ Answer \/ Reject \/ Abort \/ Retry \/ DeleteConversation
           \/ \E skills \in Bindings : Rebind(skills)
           \/ \E reply \in {<<>>, <<Plain("ai")>>} : AppendResume(reply)
  <2>1. at' # "head"
        BY <1>5 DEF Answer, Reject, Abort, Retry, DeleteConversation, Rebind, AppendResume
  <2>   QED BY <2>1 DEF Shown
<1>6. CASE UNCHANGED vars
      BY <1>6 DEF vars, Shown, Injected, Stale, LastLoad
<1>   QED BY <1>2, <1>3, <1>4, <1>5, <1>6 DEF Next

\* Of numbers of which at least n lie below k, those with fewer than n others
\* below them are exactly n.
LEMMA FirstOfMany ==
    ASSUME NEW P \in SUBSET (Nat \ {0}), NEW k \in Nat, NEW n \in Nat \ {0},
           Cardinality(P \cap 1..k) >= n
    PROVE  Cardinality({l \in P \cap 1..k : Cardinality(P \cap 1..(l - 1)) < n}) = n
<1>  DEFINE Below(m) == P \cap 1..m
            Enough == {m \in 0..k : Cardinality(Below(m)) >= n}
<1>1. \A m \in Nat : IsFiniteSet(Below(m)) /\ Cardinality(Below(m)) \in Nat
  <2>   TAKE m \in Nat
  <2>1. IsFiniteSet(1..m)
        BY FS_Interval
  <2>2. IsFiniteSet(Below(m))
        BY <2>1, FS_Subset
  <2>   QED BY <2>2, FS_CardinalityType
<1>2. \A l, m \in Nat : l <= m => Cardinality(Below(l)) <= Cardinality(Below(m))
  <2>   TAKE l, m \in Nat
  <2>   SUFFICES ASSUME l <= m PROVE Cardinality(Below(l)) <= Cardinality(Below(m))
        OBVIOUS
  <2>1. Below(l) \in SUBSET Below(m)
        OBVIOUS
  <2>   HIDE DEF Below
  <2>   QED BY <1>1, <2>1, FS_Subset
<1>3. PICK m \in Enough : \A l \in Enough : m <= l
  <2>1. k \in Enough /\ Enough \in SUBSET Nat
        OBVIOUS
  <2>   HIDE DEF Enough
  <2>   QED BY <2>1, LeastNumber
<1>4. m # 0
  <2>1. Below(0) = {}
        OBVIOUS
  <2>   QED BY <1>3, <2>1, FS_EmptySet
<1>5. Cardinality(Below(m)) = n
  <2>1. m - 1 \in 0..k /\ m - 1 \notin Enough
        BY <1>3, <1>4
  <2>2. Cardinality(Below(m - 1)) < n /\ Cardinality(Below(m - 1)) \in Nat
    <3>1. Cardinality(Below(m - 1)) \in Nat
          BY <1>1, <2>1
    <3>2. ~(Cardinality(Below(m - 1)) >= n)
          BY <2>1
    <3>   HIDE DEF Below
    <3>   QED BY <3>1, <3>2
  <2>3. Below(m) \subseteq Below(m - 1) \cup {m}
        BY <1>3
  <2>   DEFINE most == Below(m - 1) \cup {m}
  <2>4. IsFiniteSet(most) /\ Cardinality(most) <= Cardinality(Below(m - 1)) + 1
    <3>1. IsFiniteSet(Below(m - 1))
          BY <1>1, <2>1
    <3>   QED BY <2>2, <3>1, FS_AddElement
  <2>5. Cardinality(Below(m)) <= Cardinality(most)
    <3>1. Below(m) \in SUBSET most
          BY <2>3
    <3>   HIDE DEF Below, most
    <3>   QED BY <2>4, <3>1, FS_Subset
  <2>6. Cardinality(Below(m)) >= n /\ Cardinality(Below(m)) \in Nat /\ Cardinality(most) \in Nat
    <3>1. Cardinality(most) \in Nat
          BY <2>4, FS_CardinalityType
    <3>   QED BY <1>1, <1>3, <3>1
  <2>   HIDE DEF Below, most
  <2>   QED BY <2>2, <2>4, <2>5, <2>6
<1>6. {l \in P \cap 1..k : Cardinality(P \cap 1..(l - 1)) < n} = Below(m)
  <2>1. ASSUME NEW l \in P \cap 1..k, Cardinality(Below(l - 1)) < n PROVE l <= m
    <3>1. SUFFICES ASSUME l > m PROVE FALSE
          OBVIOUS
    <3>2. m <= l - 1 /\ l - 1 \in Nat /\ m \in Nat
          BY <1>3, <3>1
    <3>3. Cardinality(Below(m)) <= Cardinality(Below(l - 1)) /\ Cardinality(Below(l - 1)) \in Nat
          BY <1>1, <1>2, <3>2
    <3>   HIDE DEF Below
    <3>   QED BY <1>5, <2>1, <3>3
  <2>2. ASSUME NEW l \in Below(m) PROVE l \in P \cap 1..k /\ Cardinality(Below(l - 1)) < n
    <3>1. l \in P \cap 1..k /\ l <= m /\ l - 1 \in 0..k /\ l - 1 < m
          BY <1>3
    <3>2. l - 1 \notin Enough
          BY <1>3, <3>1
    <3>3. Cardinality(Below(l - 1)) \in Nat
          BY <1>1, <3>1
    <3>   QED BY <3>1, <3>2, <3>3
  <2>3. \A l \in P \cap 1..k : l <= m => l \in Below(m)
        BY <1>3
  <2>   QED BY <2>1, <2>2, <2>3
<1>   QED BY <1>5, <1>6

\* A skill bound once stands for its place.
LEMMA PlacesOfSkills ==
    ASSUME NEW b \in Bindings, NEW A \in SUBSET DOMAIN b, IsFiniteSet(A)
    PROVE  Cardinality({b[l] : l \in A}) = Cardinality(A)
<1>  DEFINE B == {b[l] : l \in A}
            f == [l \in A |-> b[l]]
<1>1. \A i, j \in DOMAIN b : b[i] = b[j] => i = j
      BY BindingType DEF IsInjective
<1>2. f \in [A -> B] /\ \A i, j \in A : f[i] = f[j] => i = j
      BY <1>1
<1>3. \A y \in B : \E i \in A : f[i] = y
      OBVIOUS
<1>   HIDE DEF B, f
<1>4. f \in Bijection(A, B)
      BY <1>2, <1>3 DEF Bijection, Injection, Surjection, IsInjective
<1>5. ExistsBijection(A, B)
      BY <1>4 DEF ExistsBijection
<1>   QED BY <1>5, FS_Bijection DEF B

\* The body of a skill that the model loaded once stays visible to it (in the
\* window, or by _skill_reinjection before it) as long as the skill is bound
\* and the budget is not used up by skills bound before it, whatever was
\* cancelled, retried or rebound meanwhile.
THEOREM LoadedSkillVisibleAlways == Spec => []LoadedSkillVisible
<1>1. GoodInv /\ TypeInv /\ Shown => LoadedSkillVisible
  <2>   DEFINE m == head.messages
               P == Stale(head.active, Len(m))
  <2>   SUFFICES ASSUME GoodInv, TypeInv, Shown, Prepared,
                        NEW k \in DOMAIN bound,
                        NEW i \in DOMAIN m, bound[k] \in m[i].loads
                 PROVE  \/ \E j \in Window(m) : bound[k] \in m[j].loads
                        \/ bound[k] \in head.injected
                        \/ Cardinality(head.injected \cap {bound[l] : l \in 1..(k - 1)}) = Budget
        BY DEF LoadedSkillVisible
  <2>   DEFINE s == bound[k]
               last == LastLoad(m, s)
               Earlier(l) == P \cap 1..(l - 1)
  <2>1. m \in Seq(Message) /\ DOMAIN m = 1..Len(m) /\ Len(m) \in Nat
        BY DEF GoodInv, Good
  <2>2. last \in 1..Len(m) /\ s \in m[last].loads
        BY <2>1, LastLoadType
  <2>3. m[last].kind # "tool"
        BY <2>2 DEF TypeInv, Whole
  <2>4. head.active[s] = last /\ head.injected = Injected(head.active, Len(m))
        BY <2>2 DEF Shown, Prepared
  <2>5. bound \in Bindings
        BY DEF TypeInv, Others
  <2>6. PICK n \in Nat : DOMAIN bound = 1..n
        BY <2>5, BindingType
  <2>7. P \in SUBSET (Nat \ {0}) /\ P \subseteq DOMAIN bound
        BY <2>6 DEF Stale
  <2>8. CASE last > Len(m) - Keep
        BY <2>1, <2>2, <2>3, <2>8 DEF Window
  <2>9. CASE ~(last > Len(m) - Keep)
    <3>1. k \in P
          BY <2>1, <2>2, <2>4, <2>9, Numbers DEF Stale
    <3>2. head.injected = {bound[l] : l \in {j \in P : Cardinality(Earlier(j)) < Budget}}
          BY <2>4 DEF Injected
    <3>   HIDE DEF P, m, s, last
    <3>3. CASE Cardinality(Earlier(k)) < Budget
          BY <3>1, <3>2, <3>3
    <3>4. CASE ~(Cardinality(Earlier(k)) < Budget)
      <4>   DEFINE A == {l \in Earlier(k) : Cardinality(Earlier(l)) < Budget}
      <4>1. IsFiniteSet(1..(k - 1)) /\ k - 1 \in Nat
        <5>1. k \in 1..n
              BY <2>6
        <5>2. k - 1 \in Nat /\ 1 \in Int
              BY <5>1
        <5>   QED BY <5>2, FS_Interval
      <4>2. IsFiniteSet(Earlier(k)) /\ Cardinality(Earlier(k)) \in Nat
            BY <4>1, FS_Subset, FS_CardinalityType
      <4>3. Cardinality(Earlier(k)) >= Budget
            BY <3>4, <4>2, Numbers
      <4>4. Cardinality(A) = Budget
            BY <2>7, <4>1, <4>3, Numbers, FirstOfMany
      <4>5. IsFiniteSet(A) /\ A \in SUBSET DOMAIN bound
            BY <2>7, <4>2, FS_Subset
      <4>6. head.injected \cap {bound[l] : l \in 1..(k - 1)} = {bound[l] : l \in A}
        <5>1. \A l, j \in DOMAIN bound : bound[l] = bound[j] => l = j
              BY <2>5, BindingType DEF IsInjective
        <5>2. 1..(k - 1) \subseteq DOMAIN bound
              BY <2>6
        <5>3. ASSUME NEW x \in head.injected, NEW l \in 1..(k - 1), x = bound[l]
              PROVE  l \in A
          <6>1. PICK j \in P : Cardinality(Earlier(j)) < Budget /\ x = bound[j]
                BY <3>2
          <6>2. j = l
                BY <2>7, <5>1, <5>2, <5>3, <6>1
          <6>   QED BY <6>1, <6>2
        <5>4. \A l \in A : l \in 1..(k - 1) /\ bound[l] \in head.injected
              BY <3>2
        <5>   HIDE DEF A
        <5>   QED BY <5>3, <5>4
      <4>7. Cardinality({bound[l] : l \in A}) = Cardinality(A)
            BY <2>5, <4>5, PlacesOfSkills
      <4>   QED BY <4>4, <4>6, <4>7
    <3>   QED BY <3>3, <3>4 DEF s
  <2>   QED BY <2>8, <2>9
<1>2. GoodInv /\ TypeInv /\ Shown /\ [Next]_vars => GoodInv' /\ TypeInv' /\ Shown'
      BY GoodStep, TypeStep, ShownStep
<1>   QED BY GoodInit, TypeInit, ShownInit, <1>1, <1>2, PTL DEF Spec

-----------------------------------------------------------------------------
(* Recovery from a turn that was cancelled. *)

\* The messages with calls that have no result.
Open(m) == {i \in 1..Len(m) : ~Answered(m, i)}

\* None of them is recent, or none but the last message.
Clean(m) == \A i \in Open(m) : i <= Len(m) - Keep

Clear(m) == \A i \in Open(m) : i < Len(m) => i <= Len(m) - Keep

Callers(m) == \A i \in 1..Len(m) : m[i].kind # "ai" => m[i].calls = 0

LEMMA CallsType ==
    ASSUME NEW m \in Seq(Message), NEW i \in 1..Len(m)
    PROVE  m[i] \in Message /\ m[i].calls \in Nat
<1>1. m[i] \in Message
      OBVIOUS
<1>   QED BY <1>1, Numbers DEF Message

\* Messages with calls begin no window, so the check fails exactly for those.
LEMMA ValidMeans ==
    ASSUME NEW m \in Seq(Message), Callers(m)
    PROVE  Valid(m) <=> Clean(m)
<1>1. DOMAIN m = 1..Len(m) /\ Len(m) \in Nat
      OBVIOUS
<1>2. ASSUME NEW i \in Open(m) PROVE i \in 1..Len(m) /\ m[i].kind # "tool"
  <2>1. i \in 1..Len(m) /\ m[i].calls > 0
        BY DEF Open, Answered
  <2>2. m[i].calls # 0
        BY <2>1, CallsType
  <2>   QED BY <2>1, <2>2 DEF Callers
<1>3. \A i \in Open(m) : i \in Window(m) <=> i > Len(m) - Keep
      BY <1>1, <1>2 DEF Window
<1>4. \A i \in Window(m) : Answered(m, i) <=> i \notin Open(m)
      BY <1>1 DEF Window, Open
<1>5. \A i \in Open(m) : i > Len(m) - Keep <=> ~(i <= Len(m) - Keep)
      BY <1>1, <1>2, Numbers
<1>   QED BY <1>3, <1>4, <1>5 DEF Valid, Clean

\* A message of the user or the model leaves calls before it without a result.
LEMMA OpenByOther ==
    ASSUME NEW m \in Seq(Message), NEW message \in Message, message.kind # "tool"
    PROVE  Open(Append(m, message)) =
              Open(m) \cup (IF message.calls > 0 THEN {Len(m) + 1} ELSE {})
<1>  DEFINE all == Append(m, message)
<1>1. /\ all \in Seq(Message) /\ Len(all) = Len(m) + 1 /\ Len(m) \in Nat
      /\ \A i \in 1..Len(m) : all[i] = m[i]
      /\ all[Len(m) + 1] = message
      OBVIOUS
<1>   HIDE DEF all
<1>2. ASSUME NEW i \in 1..Len(m) PROVE Answered(all, i) <=> Answered(m, i)
  <2>1. CASE i = Len(m)
        BY <1>1, <2>1 DEF Answered
  <2>2. CASE i # Len(m)
    <3>1. i + 1 \in 1..Len(m) /\ i < Len(m) /\ i < Len(all)
          BY <1>1, <2>2
    <3>   QED BY <1>1, <3>1 DEF Answered
  <2>   QED BY <2>1, <2>2
<1>3. Answered(all, Len(m) + 1) <=> ~(message.calls > 0)
      BY <1>1 DEF Answered
<1>4. 1..Len(all) = 1..Len(m) \cup {Len(m) + 1}
      BY <1>1
<1>5. Open(all) = Open(m) \cup (IF message.calls > 0 THEN {Len(m) + 1} ELSE {})
      BY <1>2, <1>3, <1>4 DEF Open
<1>   QED BY <1>5 DEF all

LEMMA OpenByPlain ==
    ASSUME NEW m \in Seq(Message), NEW kind \in {"human", "ai"}
    PROVE  Open(Append(m, Plain(kind))) = Open(m)
<1>   DEFINE message == Plain(kind)
<1>1. message \in Message /\ message.kind # "tool" /\ message.calls = 0
      BY PlainType DEF Plain
<1>   HIDE DEF message
<1>2. Open(Append(m, message)) =
         Open(m) \cup (IF message.calls > 0 THEN {Len(m) + 1} ELSE {})
      BY <1>1, OpenByOther
<1>3. ~(message.calls > 0)
      BY <1>1
<1>4. Open(Append(m, message)) = Open(m)
      BY <1>2, <1>3
<1>   QED BY <1>4 DEF message

\* Results answer the last message.
LEMMA OpenByResults ==
    ASSUME NEW m \in Seq(Message), m # <<>>, NEW new \in Seq(Message), new # <<>>,
           \A i \in 1..Len(new) : new[i].kind = "tool" /\ new[i].calls = 0
    PROVE  Open(m \o new) = Open(m) \ {Len(m)}
<1>  DEFINE all == m \o new
<1>1. /\ all \in Seq(Message)
      /\ Len(all) = Len(m) + Len(new)
      /\ \A i \in 1..(Len(m) + Len(new)) :
            all[i] = IF i <= Len(m) THEN m[i] ELSE new[i - Len(m)]
      BY ConcatProperties
<1>   HIDE DEF all
<1>2. Len(m) \in Nat \ {0} /\ Len(new) \in Nat \ {0}
      OBVIOUS
<1>3. ASSUME NEW i \in 1..Len(m), i # Len(m) PROVE Answered(all, i) <=> Answered(m, i)
  <2>1. all[i] = m[i] /\ all[i + 1] = m[i + 1] /\ i < Len(m) /\ i < Len(all)
        BY <1>1, <1>2, <1>3
  <2>   QED BY <2>1 DEF Answered
<1>4. Answered(all, Len(m))
  <2>1. all[Len(m) + 1] = new[1] /\ Len(m) < Len(all)
        BY <1>1, <1>2
  <2>   QED BY <1>2, <2>1 DEF Answered
<1>5. ASSUME NEW i \in 1..Len(all), i > Len(m) PROVE Answered(all, i)
  <2>1. i - Len(m) \in 1..Len(new) /\ all[i] = new[i - Len(m)]
        BY <1>1, <1>2, <1>5
  <2>   QED BY <2>1 DEF Answered
<1>6. 1..Len(m) \subseteq 1..Len(all) /\ \A i \in 1..Len(all) : i > Len(m) \/ i \in 1..Len(m)
      BY <1>1, <1>2
<1>7. Open(all) = Open(m) \ {Len(m)}
  <2>1. ASSUME NEW i \in Open(all) PROVE i \in Open(m) \ {Len(m)}
        BY <1>3, <1>4, <1>5, <1>6 DEF Open
  <2>2. ASSUME NEW i \in Open(m) \ {Len(m)} PROVE i \in Open(all)
        BY <1>3, <1>6 DEF Open
  <2>   QED BY <2>1, <2>2
<1>   QED BY <1>7 DEF all

(***************************************************************************)
(* The newest checkpoint h goes on from the one f that a retry starts at.  *)
(* Calls without results lie further apart than the window is long,        *)
(* because the model makes new ones only with a clean window.  All turns   *)
(* rejected since the last that was not (st) met the same one.             *)
(***************************************************************************)
Continues(h, f) ==
    Len(f) <= Len(h) /\ \A i \in 1..Len(f) : h[i] = f[i]

Apart(m) == \A i, j \in Open(m) : i < j => i + Keep < j

Cause(h, f, st, i) ==
    /\ i \in Open(h) /\ i \in Open(f)
    /\ \A j \in Open(h) : j <= i
    /\ st \subseteq (i + 1)..(i + Keep - 1)

Recovering(h, next, f, st) ==
    /\ Continues(h, f)
    /\ Apart(h)
    /\ next # "end" /\ Len(h) > Len(f) => Clean(f) /\ Clear(h)
    /\ Clean(f) \/ Open(h) = Open(f)
    /\ next = "tools" => st = {}
    /\ st # {} => \E i \in Nat : Cause(h, f, st, i)

RecoverInv == Recovering(head.messages, head.next, fork.messages, stuck)

\* What the lemmas below assume of the messages h, before the node next, and f.
Histories(h, next, f) ==
    /\ h \in Seq(Message) /\ f \in Seq(Message)
    /\ Callers(h) /\ Callers(f)
    /\ next = "tools" <=> h # <<>> /\ h[Len(h)].calls > 0
    /\ f # <<>> => f[Len(f)].kind = "human"

LEMMA OpenType ==
    ASSUME NEW m \in Seq(Message), NEW i \in Open(m)
    PROVE  i \in 1..Len(m) /\ i \in Nat /\ Len(m) \in Nat /\ m[i].calls > 0
BY DEF Open, Answered

\* The last message of the fork is the user's, the last one of the head has
\* open calls exactly before the tools run.
LEMMA LastOpen ==
    ASSUME NEW h, NEW next, NEW f, Histories(h, next, f)
    PROVE  /\ \A i \in Open(f) : i < Len(f)
           /\ next # "tools" => \A i \in Open(h) : i < Len(h)
           /\ next = "tools" => Len(h) \in Open(h)
<1>1. h \in Seq(Message) /\ f \in Seq(Message)
      BY DEF Histories
<1>2. ASSUME NEW i \in Open(f), i = Len(f) PROVE FALSE
  <2>1. i \in 1..Len(f) /\ f[i].calls > 0 /\ f # <<>>
        BY <1>1, <1>2, OpenType
  <2>2. f[i].calls = 0
        BY <1>2, <2>1 DEF Histories, Callers
  <2>   QED BY <2>1, <2>2
<1>3. ASSUME next # "tools", NEW i \in Open(h), i = Len(h) PROVE FALSE
  <2>1. i \in 1..Len(h) /\ h[i].calls > 0 /\ h # <<>>
        BY <1>1, <1>3, OpenType
  <2>   QED BY <1>3, <2>1 DEF Histories
<1>4. ASSUME next = "tools" PROVE Len(h) \in Open(h)
  <2>1. h # <<>> /\ h[Len(h)].calls > 0
        BY <1>4 DEF Histories
  <2>   QED BY <1>1, <2>1 DEF Open, Answered
<1>   QED BY <1>1, <1>2, <1>3, <1>4, OpenType

\* Open calls of the fork are open in the head.
LEMMA OpenContinues ==
    ASSUME NEW h, NEW next, NEW f, Histories(h, next, f), Continues(h, f)
    PROVE  Open(f) \subseteq Open(h) /\ (Len(h) = Len(f) => h = f)
<1>1. h \in Seq(Message) /\ f \in Seq(Message) /\ Len(h) \in Nat /\ Len(f) \in Nat
      BY DEF Histories
<1>2. ASSUME NEW i \in Open(f) PROVE i \in Open(h)
  <2>1. i \in 1..Len(f) /\ i < Len(f)
        BY <1>1, LastOpen, OpenType
  <2>2. i \in 1..Len(h) /\ i < Len(h) /\ h[i] = f[i] /\ h[i + 1] = f[i + 1]
        BY <1>1, <2>1 DEF Continues
  <2>   QED BY <2>1, <2>2 DEF Open, Answered
<1>3. ASSUME Len(h) = Len(f) PROVE h = f
      BY <1>1, <1>3 DEF Continues
<1>   QED BY <1>2, <1>3

LEMMA LonglyGrown ==
    ASSUME NEW h, NEW f, NEW st, Recovering(h, "tools", f, st), Histories(h, "tools", f)
    PROVE  Clean(f) /\ Clear(h) /\ st = {}
<1>1. Len(h) # Len(f)
  <2>   SUFFICES ASSUME Len(h) = Len(f) PROVE FALSE
        OBVIOUS
  <2>1. h = f
        BY OpenContinues DEF Recovering
  <2>2. Len(f) \in Open(f)
        BY <2>1, LastOpen
  <2>   QED BY <2>2, LastOpen, OpenType DEF Histories
<1>2. Len(h) > Len(f)
      BY <1>1 DEF Recovering, Continues, Histories
<1>   QED BY <1>2 DEF Recovering

-----------------------------------------------------------------------------
(* The steps of a turn, in turn. *)

\* The user speaks: the fork is where the head is.
LEMMA RecoverSpoken ==
    ASSUME NEW h, NEW next, NEW f, NEW st, NEW all,
           Histories(h, next, f), Recovering(h, next, f, st), all = Append(h, Plain("human"))
    PROVE  Recovering(all, "hook", all, st)
<1>1. Open(all) = Open(h)
      BY OpenByPlain DEF Histories
<1>2. Len(all) \in Nat
      BY PlainType DEF Histories
<1>3. Continues(all, all) /\ Apart(all)
      BY <1>1, <1>2 DEF Continues, Recovering, Apart
<1>4. \A i : Cause(h, f, st, i) => Cause(all, all, st, i)
      BY <1>1 DEF Cause
<1>   QED BY <1>1, <1>2, <1>3, <1>4 DEF Recovering

\* The hook at the head: the fork may follow.
LEMMA RecoverHooked ==
    ASSUME NEW h, NEW f, NEW st, NEW g \in {h, f},
           Histories(h, "hook", f), Recovering(h, "hook", f, st)
    PROVE  Recovering(h, "agent", g, st)
<1>1. CASE g = f
      BY <1>1 DEF Recovering
<1>2. CASE g = h
  <2>1. Continues(h, h) /\ ~(Len(h) > Len(h))
        BY DEF Continues, Histories
  <2>2. \A i : Cause(h, f, st, i) => Cause(h, h, st, i)
        BY DEF Cause
  <2>   QED BY <1>2, <2>1, <2>2 DEF Recovering
<1>   QED BY <1>1, <1>2

\* The hook of a retry: the head is where the fork is.
LEMMA RecoverRetried ==
    ASSUME NEW h, NEW next, NEW f, NEW st,
           Histories(h, next, f), Recovering(h, next, f, st)
    PROVE  Recovering(f, "agent", f, st)
<1>1. Open(f) \subseteq Open(h)
      BY OpenContinues DEF Recovering
<1>2. Continues(f, f) /\ ~(Len(f) > Len(f)) /\ Apart(f)
      BY <1>1 DEF Continues, Histories, Recovering, Apart
<1>3. \A i : Cause(h, f, st, i) => Cause(f, f, st, i)
      BY <1>1 DEF Cause
<1>   QED BY <1>2, <1>3 DEF Recovering

\* The model answers, at the head or in a retry.
LEMMA RecoverAnswered ==
    ASSUME NEW h, NEW next, NEW f, NEW st, NEW m \in {h, f}, NEW all,
           Histories(h, next, f), Recovering(h, next, f, st), all = Append(m, Plain("ai"))
    PROVE  Recovering(all, "end", f, {})
<1>1. Open(all) = Open(m) /\ m \in Seq(Message)
      BY OpenByPlain DEF Histories
<1>2. Open(f) \subseteq Open(h)
      BY OpenContinues DEF Recovering
<1>3. Continues(all, f)
  <2>1. Continues(m, f)
        BY DEF Recovering, Continues, Histories
  <2>2. Len(all) = Len(m) + 1 /\ \A i \in 1..Len(m) : all[i] = m[i]
        BY <1>1, PlainType
  <2>   QED BY <1>1, <2>1, <2>2 DEF Continues, Histories
<1>4. Apart(all)
      BY <1>1, <1>2 DEF Recovering, Apart
<1>   QED BY <1>1, <1>3, <1>4 DEF Recovering

\* The model calls tools, with a clean window.
LEMMA RecoverCalled ==
    ASSUME NEW h, NEW next, NEW f, NEW st, NEW m \in {h, f}, NEW all, NEW message \in Message,
           Histories(h, next, f), Recovering(h, next, f, st),
           m # f => next # "end", Clean(m),
           message.kind # "tool", all = Append(m, message)
    PROVE  Recovering(all, "tools", f, {})
<1>1. /\ m \in Seq(Message) /\ Len(m) \in Nat /\ Len(all) = Len(m) + 1
      /\ \A i \in 1..Len(m) : all[i] = m[i]
      BY DEF Histories
<1>2. Open(all) \subseteq Open(m) \cup {Len(m) + 1}
      BY <1>1, OpenByOther
<1>3. Open(f) \subseteq Open(h) /\ (Len(h) = Len(f) => h = f)
      BY OpenContinues DEF Recovering
<1>4. \A i \in Open(m) : i \in Nat /\ i <= Len(m) - Keep
      BY <1>1, OpenType DEF Clean
<1>5. Continues(all, f)
  <2>1. Continues(m, f)
        BY DEF Recovering, Continues, Histories
  <2>   QED BY <1>1, <2>1 DEF Continues, Histories
<1>6. Apart(all)
  <2>1. \A i, j \in Open(m) : i < j => i + Keep < j
        BY <1>3 DEF Recovering, Apart
  <2>2. \A i \in Open(m) : i + Keep < Len(m) + 1 /\ ~(Len(m) + 1 < i)
        BY <1>1, <1>4, Numbers
  <2>   QED BY <1>1, <1>2, <2>1, <2>2 DEF Apart
<1>7. Clear(all)
      BY <1>1, <1>2, <1>4, Numbers DEF Clear
<1>8. Clean(f)
  <2>1. CASE m = f
        BY <2>1
  <2>2. CASE m = h /\ Len(h) = Len(f)
        BY <1>3, <2>2
  <2>3. CASE m # f /\ m = h /\ Len(h) # Len(f)
    <3>1. Len(h) > Len(f)
          BY <2>3 DEF Recovering, Continues, Histories
    <3>   QED BY <2>3, <3>1 DEF Recovering
  <2>   QED BY <2>1, <2>2, <2>3
<1>   QED BY <1>5, <1>6, <1>7, <1>8 DEF Recovering

\* The tools answer.
LEMMA RecoverRun ==
    ASSUME NEW h, NEW f, NEW st, NEW new \in Seq(Message), new # <<>>, NEW all,
           Histories(h, "tools", f), Recovering(h, "tools", f, st), all = h \o new,
           \A i \in 1..Len(new) : new[i].kind = "tool" /\ new[i].calls = 0
    PROVE  Recovering(all, "hook", f, st)
<1>1. h \in Seq(Message) /\ h # <<>> /\ f \in Seq(Message)
      BY DEF Histories
<1>2. Open(all) = Open(h) \ {Len(h)}
      BY <1>1, OpenByResults
<1>3. /\ Len(all) = Len(h) + Len(new) /\ \A i \in 1..Len(h) : all[i] = h[i]
      /\ Len(h) \in Nat /\ Len(new) \in Nat /\ Len(f) \in Nat
      BY <1>1, ConcatProperties
<1>4. Clean(f) /\ Clear(h) /\ st = {}
      BY LonglyGrown
<1>5. Continues(all, f)
      BY <1>3 DEF Recovering, Continues
<1>6. Apart(all)
      BY <1>2 DEF Recovering, Apart
<1>7. Clear(all)
  <2>1. \A i \in Open(all) : i \in Nat /\ i < Len(h) /\ i \in Open(h)
        BY <1>1, <1>2, OpenType
  <2>2. \A i \in Open(all) : i <= Len(h) - Keep
        BY <1>4, <2>1 DEF Clear
  <2>   QED BY <1>3, <2>1, <2>2, Numbers DEF Clear
<1>   QED BY <1>4, <1>5, <1>6, <1>7 DEF Recovering

\* A resume appends to the head only.
LEMMA RecoverResumed ==
    ASSUME NEW h, NEW next, NEW f, NEW st, NEW kind \in {"human", "ai"}, NEW all,
           Histories(h, next, f), Recovering(h, next, f, st), all = Append(h, Plain(kind))
    PROVE  Recovering(all, "end", f, st)
<1>1. Open(all) = Open(h) /\ h \in Seq(Message)
      BY OpenByPlain DEF Histories
<1>2. Continues(all, f)
  <2>1. /\ Len(all) = Len(h) + 1 /\ Len(h) \in Nat /\ Len(f) \in Nat
        /\ \A i \in 1..Len(h) : all[i] = h[i]
        BY <1>1, PlainType DEF Histories
  <2>   QED BY <2>1 DEF Recovering, Continues
<1>3. Apart(all)
      BY <1>1 DEF Recovering, Apart
<1>4. \A i : Cause(h, f, st, i) => Cause(all, f, st, i)
      BY <1>1 DEF Cause
<1>   QED BY <1>1, <1>2, <1>3, <1>4 DEF Recovering

\* A turn is rejected, at the head or in a retry, for the cause of the others.
LEMMA RecoverRejected ==
    ASSUME NEW h, NEW next, NEW f, NEW st, NEW m \in {h, f},
           Histories(h, next, f), Recovering(h, next, f, st),
           m # f => next = "agent", ~Clean(m)
    PROVE  Recovering(h, next, f, st \cup {Len(m)})
<1>1. /\ h \in Seq(Message) /\ f \in Seq(Message) /\ Len(f) \in Nat /\ Len(h) \in Nat
      BY DEF Histories
<1>2. Open(f) \subseteq Open(h) /\ (Len(h) = Len(f) => h = f)
      BY OpenContinues DEF Recovering
<1>3. m = f
  <2>   SUFFICES ASSUME m # f, m = h, Len(h) # Len(f) PROVE FALSE
        BY <1>2
  <2>1. Len(h) > Len(f)
        BY <1>1 DEF Recovering, Continues
  <2>2. Clear(h) /\ next # "tools"
        BY <2>1 DEF Recovering
  <2>3. Clean(h)
        BY <2>2, LastOpen DEF Clear, Clean
  <2>   QED BY <2>3
<1>4. Open(h) = Open(f)
      BY <1>3 DEF Recovering
<1>5. next # "tools"
  <2>   SUFFICES ASSUME next = "tools" PROVE FALSE
        OBVIOUS
  <2>   QED BY <1>3, LonglyGrown
<1>6. PICK i \in Open(f) : ~(i <= Len(f) - Keep)
      BY <1>3 DEF Clean
<1>7. i \in Nat /\ i < Len(f) /\ i > Len(f) - Keep
      BY <1>1, <1>6, LastOpen, OpenType, Numbers
<1>8. \A j \in Open(h) : j <= i
  <2>   SUFFICES ASSUME NEW j \in Open(f), i < j PROVE FALSE
        BY <1>1, <1>4, <1>7, OpenType
  <2>1. i + Keep < j
        BY <1>4 DEF Recovering, Apart
  <2>2. j \in Nat /\ j <= Len(f)
        BY <1>1, OpenType
  <2>   QED BY <1>1, <1>7, <2>1, <2>2, Numbers
<1>9. st \subseteq (i + 1)..(i + Keep - 1)
  <2>   SUFFICES ASSUME st # {} PROVE st \subseteq (i + 1)..(i + Keep - 1)
        OBVIOUS
  <2>1. PICK j \in Nat : Cause(h, f, st, j)
        BY DEF Recovering
  <2>2. i <= j /\ j <= i
        BY <1>4, <1>8, <2>1 DEF Cause
  <2>3. i = j
        BY <1>7, <2>2
  <2>   QED BY <2>1, <2>3 DEF Cause
<1>10. Len(f) \in (i + 1)..(i + Keep - 1)
      BY <1>1, <1>7, Numbers
<1>11. Cause(h, f, st \cup {Len(m)}, i)
      BY <1>3, <1>4, <1>8, <1>9, <1>10 DEF Cause
<1>   QED BY <1>5, <1>7, <1>11 DEF Recovering

LEMMA HistoriesTyped == GoodInv /\ TypeInv => Histories(head.messages, head.next, fork.messages)
BY DEF GoodInv, Good, TypeInv, Whole, Retriable, Histories, Callers

LEMMA RecoverEmpty == Recovering(<<>>, "end", <<>>, {})
BY DEF Recovering, Continues, Apart, Open, Clean

\* What a step that saves a checkpoint leaves.
LEMMA Saved ==
    ASSUME NEW c, NEW m \in Seq(Message), NEW next, Commit(c), c.messages = m, c.next = next,
           m # <<>>
    PROVE  /\ head'.messages = m /\ head'.next = next
           /\ m[Len(m)].kind # "human" \/ next = "end" => fork' = fork
           /\ m[Len(m)].kind = "human" /\ next # "end" => fork'.messages = m
BY DEF Commit, Last

LEMMA HookRecovers ==
    ASSUME GoodInv, TypeInv, RecoverInv, Hook \/ Summarise \/ SummaryFails
    PROVE  RecoverInv'
<1>  DEFINE h == Hooked(Current)
            overflow == Len(Current.messages) - Keep
            d == [h EXCEPT !.covered = overflow,
                           !.given = h.given \cup (Current.covered + 1)..overflow]
            m == Current.messages
<1>1. /\ at # "idle" /\ Current.next = "hook" /\ stuck' = stuck
      /\ Commit(h) \/ Commit(d)
      BY DEF Hook, Summarise, SummaryFails
<1>2. Good(Current) /\ Whole(Current) /\ (Current = head \/ Current = fork)
      BY DEF GoodInv, TypeInv, Current
<1>3. Good(h) /\ h.messages = m /\ h.next = "agent"
      BY <1>2, HookedGood
<1>4. d.messages = m /\ d.next = "agent"
      BY <1>3 DEF Good, Fields
<1>5. m \in Seq(Message) /\ m # <<>>
      BY <1>1, <1>2 DEF Good, Whole
<1>   HIDE DEF h, d, m
<1>6. PICK c : Commit(c) /\ c.messages = m /\ c.next = "agent"
      BY <1>1, <1>3, <1>4
<1>7. /\ head'.messages = m /\ head'.next = "agent"
      /\ fork'.messages = fork.messages \/ fork'.messages = m
      BY <1>5, <1>6, Saved
<1>8. Histories(head.messages, head.next, fork.messages)
      BY HistoriesTyped
<1>9. CASE Current = head
  <2>1. Recovering(m, "agent", fork'.messages, stuck)
        BY <1>1, <1>7, <1>8, <1>9, RecoverHooked DEF RecoverInv, m
  <2>   QED BY <1>1, <1>7, <2>1 DEF RecoverInv
<1>10. CASE Current = fork
  <2>1. Recovering(m, "agent", m, stuck) /\ fork'.messages = m
        BY <1>7, <1>8, <1>10, RecoverRetried DEF RecoverInv, m
  <2>   QED BY <1>1, <1>7, <2>1 DEF RecoverInv
<1>   QED BY <1>2, <1>9, <1>10

LEMMA AppendResumeRecovers ==
    ASSUME GoodInv, TypeInv, RecoverInv,
           NEW reply \in {<<>>, <<Plain("ai")>>}, AppendResume(reply)
    PROVE  RecoverInv'
<1>  DEFINE h == head.messages
            asked == Append(h, Plain("human"))
            replied == Append(asked, Plain("ai"))
<1>1. /\ Good(head) /\ Whole(head) /\ h \in Seq(Message)
      /\ Histories(h, head.next, fork.messages)
      BY HistoriesTyped DEF GoodInv, TypeInv, Good
<1>2. /\ asked \in Seq(Message) /\ asked # <<>> /\ Len(asked) = Len(h) + 1
      /\ asked[Len(asked)] = Plain("human") /\ \A i \in 1..Len(h) : asked[i] = h[i]
      /\ replied \in Seq(Message) /\ replied # <<>>
      BY <1>1, PlainType
<1>3. PICK c : c.next = "end" /\ Commit(c) /\ (c.messages = asked \/ c.messages = replied)
      BY <1>1, AppendResumeEffect
<1>4. stuck' = stuck
      BY DEF AppendResume
<1>   HIDE DEF asked, replied, h
<1>5. Recovering(asked, "end", fork.messages, stuck)
      BY <1>1, RecoverResumed DEF RecoverInv, asked, h
<1>6. Histories(asked, "end", fork.messages)
  <2>1. ASSUME NEW i \in 1..Len(asked), asked[i].kind # "ai" PROVE asked[i].calls = 0
    <3>1. CASE i = Len(asked)
          BY <1>2, <3>1 DEF Plain
    <3>2. CASE i # Len(asked)
      <4>1. i \in 1..Len(h)
            BY <1>1, <1>2, <3>2
      <4>   QED BY <1>1, <1>2, <2>1, <4>1 DEF Histories, Callers
    <3>   QED BY <3>1, <3>2
  <2>2. ~(asked[Len(asked)].calls > 0)
        BY <1>2 DEF Plain
  <2>   QED BY <1>1, <1>2, <2>1, <2>2 DEF Histories, Callers
<1>7. Recovering(replied, "end", fork.messages, stuck)
      BY <1>5, <1>6, RecoverResumed DEF replied
<1>8. head'.messages = c.messages /\ head'.next = "end" /\ fork' = fork
      BY <1>2, <1>3, Saved
<1>   QED BY <1>3, <1>4, <1>5, <1>7, <1>8 DEF RecoverInv

LEMMA TurnRecovers ==
    ASSUME GoodInv, TypeInv, RecoverInv,
           \/ UserSpeaks \/ Answer \/ RunTools
           \/ \E calls \in 1..MaxCalls, loads \in SUBSET Skills : CallTools(calls, loads)
    PROVE  RecoverInv'
<1>  DEFINE m == Current.messages
<1>1. /\ Good(Current) /\ Whole(Current) /\ Good(head) /\ m \in Seq(Message)
      /\ Current = head \/ Current = fork
      /\ head.messages \in Seq(Message)
      BY DEF GoodInv, TypeInv, Current, Good
<1>2. Histories(head.messages, head.next, fork.messages)
      BY HistoriesTyped
<1>3. CASE UserSpeaks
  <2>   DEFINE all == Append(head.messages, Plain("human"))
               d == [head EXCEPT !.messages = all, !.next = "hook"]
  <2>1. Commit(d) /\ stuck' = stuck
        BY <1>3 DEF UserSpeaks
  <2>2. d.messages = all /\ d.next = "hook"
        BY <1>1 DEF Good, Fields
  <2>3. all \in Seq(Message) /\ all # <<>> /\ all[Len(all)].kind = "human"
        BY <1>1, PlainType DEF Plain
  <2>   HIDE DEF d
  <2>4. head'.messages = all /\ head'.next = "hook" /\ fork'.messages = all
        BY <2>1, <2>2, <2>3, Saved
  <2>5. Recovering(all, "hook", all, stuck)
        BY <1>2, RecoverSpoken DEF RecoverInv
  <2>   QED BY <2>1, <2>4, <2>5 DEF RecoverInv
<1>4. CASE Answer
  <2>   DEFINE all == Append(m, Plain("ai"))
               d == [Current EXCEPT !.messages = all, !.next = "end"]
  <2>1. Commit(d) /\ stuck' = {}
        BY <1>4 DEF Answer
  <2>2. d.messages = all /\ d.next = "end"
        BY <1>1 DEF Good, Fields
  <2>3. all \in Seq(Message) /\ all # <<>>
        BY <1>1, PlainType
  <2>   HIDE DEF d
  <2>4. head'.messages = all /\ head'.next = "end" /\ fork' = fork
        BY <2>1, <2>2, <2>3, Saved
  <2>5. Recovering(all, "end", fork.messages, {})
        BY <1>1, <1>2, RecoverAnswered DEF RecoverInv
  <2>   QED BY <2>1, <2>4, <2>5 DEF RecoverInv
<1>5. ASSUME NEW calls \in 1..MaxCalls, NEW loads \in SUBSET Skills, CallTools(calls, loads)
      PROVE  RecoverInv'
  <2>   DEFINE message == [kind |-> "ai", calls |-> calls, loads |-> loads]
               all == Append(m, message)
               d == [Current EXCEPT !.messages = all, !.next = "tools"]
  <2>1. /\ Commit(d) /\ stuck' = {} /\ Valid(m) /\ Current.next = "agent"
        BY <1>5 DEF CallTools, ModelRuns
  <2>2. d.messages = all /\ d.next = "tools"
        BY <1>1 DEF Good, Fields
  <2>3. message \in Message /\ message.kind = "ai"
        BY Numbers DEF Message
  <2>   HIDE DEF message
  <2>4. all \in Seq(Message) /\ all # <<>> /\ all[Len(all)].kind # "human"
        BY <1>1, <2>3
  <2>5. Clean(m)
        BY <1>1, <2>1, ValidMeans DEF Whole, Callers
  <2>   HIDE DEF d
  <2>6. head'.messages = all /\ head'.next = "tools" /\ fork' = fork
        BY <2>1, <2>2, <2>4, Saved
  <2>7. Recovering(all, "tools", fork.messages, {})
    <3>1. CASE Current = head
          BY <1>2, <2>1, <2>3, <2>5, <3>1, RecoverCalled DEF RecoverInv
    <3>2. CASE Current = fork
          BY <1>2, <2>3, <2>5, <3>2, RecoverCalled DEF RecoverInv
    <3>   QED BY <1>1, <3>1, <3>2
  <2>   QED BY <2>1, <2>6, <2>7 DEF RecoverInv
<1>6. CASE RunTools
  <2>1. PICK new \in Seq(Message) :
              /\ new # <<>> /\ Len(m) + Len(new) <= MaxMessages
              /\ \A i \in 1..Len(new) :
                    new[i].kind = "tool" /\ new[i].calls = 0 /\ new[i].loads = {}
              /\ Commit([Current EXCEPT !.messages = m \o new, !.next = "hook"])
        BY <1>1, <1>6, RunToolsEffect
  <2>   DEFINE all == m \o new
               d == [Current EXCEPT !.messages = all, !.next = "hook"]
  <2>2. d.messages = all /\ d.next = "hook" /\ Commit(d)
        BY <1>1, <2>1 DEF Good, Fields
  <2>3. Current.next = "tools" /\ Current = head /\ stuck' = stuck
        BY <1>1, <1>6 DEF RunTools, TypeInv, Retriable
  <2>4. all \in Seq(Message) /\ all # <<>> /\ all[Len(all)].kind = "tool"
    <3>1. all \in Seq(Message) /\ Len(all) = Len(m) + Len(new)
          BY <1>1, <2>1
    <3>2. Len(new) \in 1..Len(new) /\ Len(m) \in Nat
          BY <1>1, <2>1
    <3>3. all[Len(m) + Len(new)] = new[Len(new)]
          BY <1>1, <2>1, <3>2, ConcatProperties
    <3>4. all # <<>>
          BY <3>1, <3>2
    <3>   QED BY <2>1, <3>1, <3>2, <3>3, <3>4
  <2>   HIDE DEF d
  <2>5. head'.messages = all /\ head'.next = "hook" /\ fork' = fork
        BY <2>2, <2>4, Saved
  <2>6. Recovering(all, "hook", fork.messages, stuck)
        BY <1>2, <2>1, <2>3, RecoverRun DEF RecoverInv
  <2>   QED BY <2>3, <2>5, <2>6 DEF RecoverInv
<1>   QED BY <1>3, <1>4, <1>5, <1>6

LEMMA RecoverStep == GoodInv /\ TypeInv /\ RecoverInv /\ [Next]_vars => RecoverInv'
<1>  SUFFICES ASSUME GoodInv, TypeInv, RecoverInv, [Next]_vars PROVE RecoverInv'
     OBVIOUS
<1>1. CASE Reject
  <2>   DEFINE m == Current.messages
  <2>1. /\ UNCHANGED <<head, fork>> /\ stuck' = stuck \cup {Len(m)}
        /\ Current.next = "agent" /\ ~Valid(m)
        BY <1>1 DEF Reject
  <2>2. Good(Current) /\ Whole(Current) /\ (Current = head \/ Current = fork)
        BY DEF GoodInv, TypeInv, Current
  <2>3. ~Clean(m)
        BY <2>1, <2>2, ValidMeans DEF Good, Whole, Callers
  <2>4. Histories(head.messages, head.next, fork.messages)
        BY HistoriesTyped
  <2>5. m \in {head.messages, fork.messages}
        BY <2>2
  <2>6. Recovering(head.messages, head.next, fork.messages, stuck \cup {Len(m)})
    <3>1. CASE Current = head
          BY <2>1, <2>3, <2>4, <2>5, <3>1, RecoverRejected DEF RecoverInv
    <3>2. CASE Current = fork
          BY <2>3, <2>4, <2>5, <3>2, RecoverRejected DEF RecoverInv
    <3>   QED BY <2>2, <3>1, <3>2
  <2>   QED BY <2>1, <2>6 DEF RecoverInv
<1>2. CASE DeleteConversation
      BY <1>2, RecoverEmpty DEF DeleteConversation, RecoverInv, Empty
<1>3. CASE Retry \/ Abort \/ UNCHANGED vars \/ \E skills \in Bindings : Rebind(skills)
  <2>1. UNCHANGED <<head, fork, stuck>>
        BY <1>3 DEF Retry, Abort, Rebind, vars
  <2>   QED BY <2>1 DEF RecoverInv
<1>4. CASE Hook \/ Summarise \/ SummaryFails
      BY <1>4, HookRecovers
<1>5. CASE \/ UserSpeaks \/ Answer \/ RunTools
           \/ \E calls \in 1..MaxCalls, loads \in SUBSET Skills : CallTools(calls, loads)
      BY <1>5, TurnRecovers
<1>6. ASSUME NEW reply \in {<<>>, <<Plain("ai")>>}, AppendResume(reply) PROVE RecoverInv'
      BY <1>6, AppendResumeRecovers
<1>   QED BY <1>1, <1>2, <1>3, <1>4, <1>5, <1>6 DEF Next

\* After a turn that was cancelled between the calls of the model and their
\* results the conversation recovers: fewer than KEEP_RECENT different messages
\* of the user are rejected in a row, for the window then leaves the calls.
THEOREM RecoversAlways == Spec => []Recovers
<1>1. RecoverInv => Recovers
  <2>   SUFFICES ASSUME RecoverInv PROVE Cardinality(stuck) < Keep
        BY DEF Recovers
  <2>1. CASE stuck = {}
        BY <2>1, FS_EmptySet, Numbers
  <2>2. CASE stuck # {}
    <3>1. PICK i \in Nat : stuck \subseteq (i + 1)..(i + Keep - 1)
          BY <2>2 DEF RecoverInv, Recovering, Cause
    <3>   DEFINE a == i + 1
                 b == i + Keep - 1
    <3>2. a \in Int /\ b \in Int /\ (a > b => Keep = 1) /\ b - a + 1 = Keep - 1
          BY Numbers
    <3>3. stuck \in SUBSET (a..b)
          BY <3>1
    <3>   HIDE DEF a, b
    <3>4. IsFiniteSet(a..b) /\ Cardinality(a..b) = IF a > b THEN 0 ELSE b - a + 1
          BY <3>2, FS_Interval
    <3>5. Cardinality(stuck) <= Cardinality(a..b) /\ Cardinality(stuck) \in Nat
          BY <3>3, <3>4, FS_Subset, FS_CardinalityType
    <3>   QED BY <3>2, <3>4, <3>5, Numbers
  <2>   QED BY <2>1, <2>2
<1>2. Init => RecoverInv
      BY RecoverEmpty DEF Init, RecoverInv, Empty
<1>3. GoodInv /\ TypeInv /\ RecoverInv /\ [Next]_vars => GoodInv' /\ TypeInv' /\ RecoverInv'
      BY GoodStep, TypeStep, RecoverStep
<1>   QED BY GoodInit, TypeInit, <1>1, <1>2, <1>3, PTL DEF Spec

=============================================================================
