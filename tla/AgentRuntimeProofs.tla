------------------------- MODULE AgentRuntimeProofs -------------------------
(***************************************************************************)
(* Theorems about the objects an agent runs with: the calls that its A2A   *)
(* clients make (A2AClientStream), for every set of artifacts and every    *)
(* number of retries, and the cache of its graphs and lists of clients     *)
(* (AgentCache), for every set of requests and administrators.             *)
(***************************************************************************)
EXTENDS A2AClientStream, AgentCache, SequenceTheorems, FiniteSetTheorems, TLAPS

-----------------------------------------------------------------------------
(* A call of a client: type correctness. *)

\* A retry is only waited for while one is left.
TypeInv ==
    /\ TypeOK
    /\ pc = "backoff" => attempt < Retries

LEMMA YieldType ==
  ASSUME TypeInv, NEW text \in BOOLEAN, NEW arts \in SUBSET Artifacts, Yield(text, arts)
  PROVE  /\ yielded' \in BOOLEAN
         /\ chunks' \subseteq Attempt
         /\ arrived' \subseteq Artifacts
BY DEF TypeInv, TypeOK, Yield

LEMMA InitTypeInv == Init => TypeInv
<1> SUFFICES ASSUME Init PROVE TypeInv
  OBVIOUS
<1>1. artifacts \subseteq Artifacts
  BY Zenon DEF Init
<1>2. attempt \in Attempt
  BY RetriesAssumption DEF Init, Attempt
<1> QED
  BY <1>1, <1>2 DEF Init, TypeInv, TypeOK

LEMMA StepTypeInv == TypeInv /\ [Next]_vars => TypeInv'
<1> SUFFICES ASSUME TypeInv, [Next]_vars PROVE TypeInv'
  OBVIOUS
<1> USE RetriesAssumption DEF TypeInv, TypeOK
<1>1. ASSUME NEW a \in Artifacts, Produce(a) PROVE TypeInv'
  BY <1>1 DEF Produce, Moves, flags, caller
<1>2. ASSUME NEW text \in BOOLEAN, NEW s \in {"working", "input", "final"},
             ReceiveTask(text, s)
      PROVE  TypeInv'
  BY <1>2, YieldType DEF ReceiveTask, Moves, Signal
<1>3. ASSUME NEW text \in BOOLEAN, NEW s \in {"working", "input", "final"},
             ReceiveStatus(text, s)
      PROVE  TypeInv'
  BY <1>3, YieldType DEF ReceiveStatus, Moves, Signal
<1>4. ASSUME NEW a \in Artifacts, ReceiveArtifact(a) PROVE TypeInv'
  BY <1>4, YieldType DEF ReceiveArtifact, Moves
<1>5. ASSUME NEW text \in BOOLEAN, ReceiveMessage(text) PROVE TypeInv'
  BY <1>5, YieldType DEF ReceiveMessage, task
<1>6. ASSUME Connect PROVE TypeInv'
  BY <1>6 DEF Connect, flags, caller, task
<1>7. ASSUME StreamEnds PROVE TypeInv'
  BY <1>7 DEF StreamEnds, flags, caller, task
<1>8. ASSUME Fetch PROVE TypeInv'
  BY <1>8, YieldType DEF Fetch, task
<1>9. ASSUME FetchFails PROVE TypeInv'
  BY <1>9 DEF FetchFails, flags, task
<1>10. ASSUME NEW kind \in {"network", "timeout", "target_error"}, Fail(kind)
       PROVE  TypeInv'
  BY <1>10 DEF Fail, flags, caller, task, Attempt
<1>11. ASSUME Retry PROVE TypeInv'
  <2>1. artifacts' \subseteq Artifacts
    BY <1>11, Zenon DEF Retry
  <2>2. attempt' \in Attempt
    BY <1>11 DEF Retry, Attempt
  <2> QED
    BY <1>11, <2>1, <2>2 DEF Retry, caller
<1>12. ASSUME UNCHANGED vars PROVE TypeInv'
  BY <1>12 DEF vars, flags, caller, task
<1> QED
  BY <1>1, <1>2, <1>3, <1>4, <1>5, <1>6, <1>7, <1>8, <1>9, <1>10, <1>11, <1>12
     DEF Next, ReceiveNext, CallNext, FailNext

\* Type correctness, for any number of artifacts and retries: in particular
\* stream_message_events never starts more than Retries further attempts.
THEOREM TypeOKAlways == Spec => []TypeOK
<1>1. Spec => []TypeInv
  BY InitTypeInv, StepTypeInv, PTL DEF Spec
<1> QED
  BY <1>1, PTL DEF TypeInv

-----------------------------------------------------------------------------
(* The text handed to the caller comes from one attempt. *)

\* Text that was handed over is text of the current attempt, and rules out
\* another one.
OneAttemptInv ==
    /\ chunks = IF yielded THEN {attempt} ELSE {}
    /\ pc = "backoff" => ~yielded

LEMMA InitOneAttempt == Init => OneAttemptInv
BY DEF Init, OneAttemptInv

LEMMA StepOneAttempt == TypeInv /\ OneAttemptInv /\ [Next]_vars => OneAttemptInv'
<1> SUFFICES ASSUME TypeInv, OneAttemptInv, [Next]_vars PROVE OneAttemptInv'
  OBVIOUS
<1> USE DEF TypeInv, TypeOK, OneAttemptInv
<1>1. ASSUME NEW a \in Artifacts, Produce(a) PROVE OneAttemptInv'
  BY <1>1 DEF Produce, flags, caller
<1>2. ASSUME NEW text \in BOOLEAN, NEW arts \in SUBSET Artifacts,
             Yield(text, arts), attempt' = attempt, pc' # "backoff"
      PROVE  OneAttemptInv'
  BY <1>2 DEF Yield
<1>3. ASSUME ReceiveNext PROVE OneAttemptInv'
  BY <1>2, <1>3 DEF ReceiveNext, ReceiveTask, ReceiveStatus, ReceiveArtifact,
                    ReceiveMessage
<1>4. ASSUME Connect PROVE OneAttemptInv'
  BY <1>4 DEF Connect, flags, caller, task
<1>5. ASSUME StreamEnds PROVE OneAttemptInv'
  BY <1>5 DEF StreamEnds, flags, caller, task
<1>6. ASSUME Fetch PROVE OneAttemptInv'
  BY <1>2, <1>6 DEF Fetch
<1>7. ASSUME FetchFails PROVE OneAttemptInv'
  BY <1>7 DEF FetchFails, flags, task
<1>8. ASSUME NEW kind \in {"network", "timeout", "target_error"}, Fail(kind)
      PROVE  OneAttemptInv'
  BY <1>8 DEF Fail, flags, caller, task
<1>9. ASSUME Retry PROVE OneAttemptInv'
  BY <1>9 DEF Retry, caller
<1>10. ASSUME UNCHANGED vars PROVE OneAttemptInv'
  BY <1>10 DEF vars, flags, caller, task
<1> QED
  BY <1>1, <1>3, <1>4, <1>5, <1>6, <1>7, <1>8, <1>9, <1>10 DEF Next, CallNext, FailNext

\* The text of an answer is never repeated or mixed from two runs of the
\* downstream agent, however many retries are allowed.
THEOREM TextOfOneAttemptAlways == Spec => []TextOfOneAttempt
<1>1. TypeInv /\ OneAttemptInv => TextOfOneAttempt
  BY FS_EmptySet, FS_Singleton DEF OneAttemptInv, TextOfOneAttempt
<1> QED
  BY <1>1, InitTypeInv, StepTypeInv, InitOneAttempt, StepOneAttempt, PTL DEF Spec

-----------------------------------------------------------------------------
(* A caller is not left without artifacts. *)

\* What the flags of stream_message_events say about what was handed
\* over, as long as the agent leaves a task alone that has asked or ended.
FlagsInv == ~overran =>
    /\ terminal \/ sawFinal => state = "final"
    /\ state = "final" => terminal
    /\ sawArtifact => arrived # {}
    /\ sawFinal /\ artifacts # {} => arrived # {}
    /\ pc = "done" /\ terminal /\ ~sawArtifact /\ ~sawFinal
          => artifacts \subseteq arrived \/ unreachable

LEMMA InitFlags == Init => FlagsInv
BY DEF Init, FlagsInv

LEMMA StepFlags == TypeInv /\ FlagsInv /\ [Next]_vars => FlagsInv'
<1> SUFFICES ASSUME TypeInv, FlagsInv, [Next]_vars PROVE FlagsInv'
  OBVIOUS
<1> USE DEF TypeInv, TypeOK, FlagsInv
<1>1. ASSUME NEW a \in Artifacts, Produce(a) PROVE FlagsInv'
  BY <1>1 DEF Produce, Moves, flags, caller
<1>2. ASSUME NEW text \in BOOLEAN, NEW s \in {"working", "input", "final"},
             ReceiveTask(text, s)
      PROVE  FlagsInv'
  BY <1>2 DEF ReceiveTask, Moves, Yield
<1>3. ASSUME NEW text \in BOOLEAN, NEW s \in {"working", "input", "final"},
             ReceiveStatus(text, s)
      PROVE  FlagsInv'
  BY <1>3 DEF ReceiveStatus, Moves, Yield
<1>4. ASSUME NEW a \in Artifacts, ReceiveArtifact(a) PROVE FlagsInv'
  BY <1>4 DEF ReceiveArtifact, Moves, Yield
<1>5. ASSUME NEW text \in BOOLEAN, ReceiveMessage(text) PROVE FlagsInv'
  BY <1>5 DEF ReceiveMessage, Yield, task
<1>6. ASSUME Connect PROVE FlagsInv'
  BY <1>6 DEF Connect, flags, caller, task
<1>7. ASSUME StreamEnds PROVE FlagsInv'
  BY <1>7 DEF StreamEnds, flags, caller, task
<1>8. ASSUME Fetch PROVE FlagsInv'
  BY <1>8 DEF Fetch, Yield, task
<1>9. ASSUME FetchFails PROVE FlagsInv'
  BY <1>9 DEF FetchFails, flags, task
<1>10. ASSUME NEW kind \in {"network", "timeout", "target_error"}, Fail(kind)
       PROVE  FlagsInv'
  BY <1>10 DEF Fail, flags, caller, task
<1>11. ASSUME Retry PROVE FlagsInv'
  BY <1>11 DEF Retry, caller
<1>12. ASSUME UNCHANGED vars PROVE FlagsInv'
  BY <1>12 DEF vars, flags, caller, task
<1> QED
  BY <1>1, <1>2, <1>3, <1>4, <1>5, <1>6, <1>7, <1>8, <1>9, <1>10, <1>11, <1>12
     DEF Next, ReceiveNext, CallNext, FailNext

\* The decision to fetch, taken from three flags, never leaves the caller
\* without any artifact of a task that ended with some, if the agent left the
\* task alone once it had asked or ended.
THEOREM NotEmptyHandedAlways == Spec => []NotEmptyHanded
<1>1. TypeInv /\ FlagsInv => NotEmptyHanded
  BY DEF FlagsInv, NotEmptyHanded
<1> QED
  BY <1>1, InitTypeInv, StepTypeInv, InitFlags, StepFlags, PTL DEF Spec

-----------------------------------------------------------------------------
(* A question the caller acts on is one somebody waits for. *)

\* The text of a question counts as output, so its attempt is not repeated,
\* and a task that waits stays as it is unless the agent goes on by itself.
AskedInv ==
    question = "text" =>
        /\ yielded /\ pc \notin {"connect", "backoff"}
        /\ state = "input" \/ overran

LEMMA InitAsked == Init => AskedInv
BY DEF Init, AskedInv

LEMMA StepAsked == TypeInv /\ AskedInv /\ [Next]_vars => AskedInv'
<1> SUFFICES ASSUME TypeInv, AskedInv, [Next]_vars PROVE AskedInv'
  OBVIOUS
<1> USE DEF TypeInv, TypeOK, AskedInv
<1>1. ASSUME NEW a \in Artifacts, Produce(a) PROVE AskedInv'
  BY <1>1 DEF Produce, Moves, flags, caller
<1>2. ASSUME NEW text \in BOOLEAN, NEW s \in {"working", "input", "final"},
             ReceiveTask(text, s) \/ ReceiveStatus(text, s)
      PROVE  AskedInv'
  BY <1>2 DEF ReceiveTask, ReceiveStatus, Moves, Yield, Signal
<1>3. ASSUME NEW a \in Artifacts, ReceiveArtifact(a) PROVE AskedInv'
  BY <1>3 DEF ReceiveArtifact, Moves, Yield
<1>4. ASSUME NEW text \in BOOLEAN, ReceiveMessage(text) PROVE AskedInv'
  BY <1>4 DEF ReceiveMessage, Yield, task
<1>5. ASSUME Connect \/ StreamEnds PROVE AskedInv'
  BY <1>5 DEF Connect, StreamEnds, flags, caller, task
<1>6. ASSUME Fetch \/ FetchFails PROVE AskedInv'
  BY <1>6 DEF Fetch, FetchFails, Yield, flags, task
<1>7. ASSUME NEW kind \in {"network", "timeout", "target_error"}, Fail(kind)
      PROVE  AskedInv'
  BY <1>7 DEF Fail, flags, caller, task
<1>8. ASSUME Retry PROVE AskedInv'
  BY <1>8 DEF Retry, caller
<1>9. ASSUME UNCHANGED vars PROVE AskedInv'
  BY <1>9 DEF vars, flags, caller, task
<1> QED
  BY <1>1, <1>2, <1>3, <1>4, <1>5, <1>6, <1>7, <1>8, <1>9
     DEF Next, ReceiveNext, CallNext, FailNext

\* a2a_call and a2a_resume never suspend a conversation on the question of an
\* attempt that failed and was repeated, if the question had a text: only the
\* agent itself can leave the task it asked for.
THEOREM SuspendedTaskWaitsAlways == Spec => []SuspendedTaskWaits
<1>1. AskedInv => SuspendedTaskWaits
  BY DEF AskedInv, SuspendedTaskWaits
<1> QED
  BY <1>1, InitTypeInv, StepTypeInv, InitAsked, StepAsked, PTL DEF Spec

-----------------------------------------------------------------------------
(* The cache of compiled agents: its dictionary. *)

LEMMA PopAt ==
    ASSUME NEW S, NEW s \in Seq(S), NEW i \in 1..Len(s)
    PROVE  /\ RemoveAt(s, i) \in Seq(S)
           /\ Len(RemoveAt(s, i)) = Len(s) - 1
           /\ \A k \in 1..(Len(s) - 1) : RemoveAt(s, i)[k] = IF k < i THEN s[k] ELSE s[k + 1]
<1> DEFINE a == SubSeq(s, 1, i - 1)
           b == SubSeq(s, i + 1, Len(s))
<1>1. Len(s) \in Nat /\ i \in Nat /\ \A k \in 1..Len(s) : s[k] \in S
  OBVIOUS
<1>2. /\ a \in Seq(S) /\ Len(a) = i - 1
      /\ \A k \in 1..(i - 1) : a[k] = s[k]
  <2>1. 1 \in Int /\ i - 1 \in Int /\ \A k \in 1..(i - 1) : s[k] \in S
    BY <1>1
  <2>2. /\ a \in Seq(S) /\ Len(a) = IF 1 <= i - 1 THEN i - 1 - 1 + 1 ELSE 0
        /\ \A k \in 1..(i - 1 - 1 + 1) : a[k] = s[1 + k - 1]
    BY <2>1, SubSeqProperties
  <2>3. QED
    BY <1>1, <2>2
<1>3. /\ b \in Seq(S) /\ Len(b) = Len(s) - i
      /\ \A k \in 1..(Len(s) - i) : b[k] = s[i + k]
  <2>1. i + 1 \in Int /\ Len(s) \in Int /\ \A k \in (i + 1)..Len(s) : s[k] \in S
    BY <1>1
  <2>2. /\ b \in Seq(S) /\ Len(b) = IF i + 1 <= Len(s) THEN Len(s) - (i + 1) + 1 ELSE 0
        /\ \A k \in 1..(Len(s) - (i + 1) + 1) : b[k] = s[i + 1 + k - 1]
    BY <2>1, SubSeqProperties
  <2>3. QED
    BY <1>1, <2>2
<1>4. RemoveAt(s, i) = a \o b
  BY DEF RemoveAt
<1> HIDE DEF a, b
<1>5. /\ a \o b \in Seq(S) /\ Len(a \o b) = Len(a) + Len(b)
      /\ \A k \in 1..(Len(a) + Len(b)) : (a \o b)[k] = IF k <= Len(a) THEN a[k] ELSE b[k - Len(a)]
  BY <1>2, <1>3, ConcatProperties
<1>6. ASSUME NEW k \in 1..(Len(s) - 1)
      PROVE  (a \o b)[k] = IF k < i THEN s[k] ELSE s[k + 1]
  <2>1. CASE k < i
    BY <1>1, <1>2, <1>3, <1>5, <2>1
  <2>2. CASE ~(k < i)
    <3>1. (a \o b)[k] = b[k - (i - 1)] /\ k - (i - 1) \in 1..(Len(s) - i)
      BY <1>1, <1>2, <1>3, <1>5, <2>2
    <3>2. b[k - (i - 1)] = s[i + (k - (i - 1))] /\ i + (k - (i - 1)) = k + 1
      BY <1>1, <1>3, <3>1
    <3>3. QED
      BY <1>1, <2>2, <3>1, <3>2
  <2>3. QED
    BY <2>1, <2>2
<1>7. QED
  BY <1>1, <1>2, <1>3, <1>4, <1>5, <1>6

\* The entries of a dictionary: one for each key, none of whose lists another
\* entry holds as well, built from the version of its key.
Tidy(c) ==
    /\ c \in Seq(Entry)
    /\ \A i, j \in 1..Len(c) :
          c[i].key = c[j].key \/ c[i].wrappers[1] = c[j].wrappers[1] => i = j
    /\ \A i \in 1..Len(c) : c[i].wrappers[2] = c[i].key

LEMMA AtFacts ==
    ASSUME NEW c \in Seq(Entry), NEW key \in Keys(c)
    PROVE  \E i \in 1..Len(c) : c[i].key = key /\ At(c, key) = c[i].wrappers
<1>1. DOMAIN c = 1..Len(c)
  OBVIOUS
<1>2. (CHOOSE i \in DOMAIN c : c[i].key = key) \in 1..Len(c)
      /\ c[CHOOSE i \in DOMAIN c : c[i].key = key].key = key
  BY <1>1 DEF Keys
<1>3. QED
  BY <1>2 DEF At

LEMMA DropFacts ==
    ASSUME NEW c, Tidy(c), NEW key \in Keys(c)
    PROVE  /\ Tidy(Drop(c, key))
           /\ Len(Drop(c, key)) = Len(c) - 1
           /\ \A k \in 1..Len(Drop(c, key)) :
                 \E i \in 1..Len(c) : Drop(c, key)[k] = c[i] /\ c[i].key # key
<1> DEFINE i == CHOOSE k \in DOMAIN c : c[k].key = key
           r == Drop(c, key)
<1>1. c \in Seq(Entry) /\ Len(c) \in Nat /\ DOMAIN c = 1..Len(c)
  BY DEF Tidy
<1>2. i \in 1..Len(c) /\ c[i].key = key
  BY <1>1 DEF Keys
<1>3. /\ r \in Seq(Entry) /\ Len(r) = Len(c) - 1
      /\ \A k \in 1..(Len(c) - 1) : r[k] = IF k < i THEN c[k] ELSE c[k + 1]
  <2>1. r = RemoveAt(c, i)
    BY DEF Drop
  <2> HIDE DEF i, r
  <2>2. QED
    BY <1>1, <1>2, <2>1, PopAt
<1> DEFINE old(k) == IF k < i THEN k ELSE k + 1
<1> HIDE DEF i, r
<1>4. \A k \in 1..Len(r) : old(k) \in 1..Len(c) /\ old(k) # i /\ r[k] = c[old(k)]
  BY <1>1, <1>2, <1>3
<1>5. \A j, k \in 1..Len(r) : old(j) = old(k) => j = k
  BY <1>1, <1>2, <1>3
<1> HIDE DEF old
<1>6. \A k \in 1..Len(r) : c[old(k)].key # key
  BY <1>2, <1>4 DEF Tidy
<1>7. Tidy(r)
  BY <1>3, <1>4, <1>5 DEF Tidy
<1>8. QED
  BY <1>3, <1>4, <1>6, <1>7 DEF r

\* At most one entry was cached: with a new one there is at most one stale key.
LEMMA PutFacts ==
    ASSUME NEW c, Tidy(c), Len(c) <= 1, NEW key \in Version, NEW w \in Wrappers, w[2] = key,
           \A i \in 1..Len(c) : c[i].wrappers[1] # w[1]
    PROVE  LET d == Put(c, key, w) IN
           /\ Tidy(d)
           /\ key \in Keys(d)
           /\ Len(d) <= 2
           /\ \A i \in 1..Len(d) : d[i].wrappers = w \/ \E j \in 1..Len(c) : d[i] = c[j]
<1> DEFINE new == [key |-> key, wrappers |-> w]
           d == Put(c, key, w)
<1>1. new \in Entry /\ new.key = key /\ new.wrappers = w
  BY DEF Entry
<1>2. c \in Seq(Entry) /\ Len(c) \in Nat /\ DOMAIN c = 1..Len(c)
  BY DEF Tidy
<1>3. CASE key \in Keys(c)
  <2>1. Len(c) = 1 /\ c[1].key = key
    BY <1>2, <1>3 DEF Keys
  <2>2. d = [i \in 1..1 |-> new]
    BY <1>2, <1>3, <2>1 DEF Put
  <2> HIDE DEF d, new
  <2>3. d \in Seq(Entry) /\ Len(d) = 1 /\ d[1] = new /\ DOMAIN d = 1..1
    BY <1>1, <2>2
  <2>4. Tidy(d)
    BY <1>1, <2>3 DEF Tidy
  <2>5. key \in Keys(d)
    BY <1>1, <2>3 DEF Keys
  <2>6. QED
    BY <1>1, <2>3, <2>4, <2>5 DEF d
<1>4. CASE key \notin Keys(c)
  <2>1. d = Append(c, new)
    BY <1>4 DEF Put
  <2>2. \A i \in 1..Len(c) : c[i].key # key
    BY <1>2, <1>4 DEF Keys
  <2> HIDE DEF d, new
  <2>3. /\ d \in Seq(Entry) /\ Len(d) = Len(c) + 1 /\ DOMAIN d = 1..(Len(c) + 1)
        /\ d[Len(c) + 1] = new
        /\ \A i \in 1..Len(c) : d[i] = c[i]
    BY <1>1, <1>2, <2>1
  <2>4. \A i \in 1..(Len(c) + 1) : i \in 1..Len(c) \/ i = Len(c) + 1
    BY <1>2
  <2>5. /\ \A i, j \in 1..Len(d) :
              d[i].key = d[j].key \/ d[i].wrappers[1] = d[j].wrappers[1] => i = j
        /\ \A i \in 1..Len(d) : d[i].wrappers[2] = d[i].key
    BY <1>1, <2>2, <2>3, <2>4 DEF Tidy
  <2>6. Tidy(d)
    BY <2>3, <2>5 DEF Tidy
  <2>7. key \in Keys(d)
    BY <1>1, <1>2, <2>3 DEF Keys
  <2>8. \A i \in 1..Len(d) : d[i].wrappers = w \/ \E j \in 1..Len(c) : d[i] = c[j]
    BY <1>1, <2>3, <2>4
  <2>9. QED
    BY <1>2, <2>3, <2>6, <2>7, <2>8 DEF d
<1>5. QED
  BY <1>3, <1>4

\* The keys of a dictionary, in their order.
LEMMA KeysFacts ==
    ASSUME NEW c, Tidy(c)
    PROVE  /\ KeysInOrder(c) \in Seq(Version)
           /\ Len(KeysInOrder(c)) = Len(c)
           /\ \A i \in 1..Len(c) : KeysInOrder(c)[i] = c[i].key /\ c[i].key \in Keys(c)
           /\ IsInjective(KeysInOrder(c))
<1>1. c \in Seq(Entry) /\ Len(c) \in Nat /\ DOMAIN c = 1..Len(c)
  BY DEF Tidy
<1>2. \A i \in 1..Len(c) : c[i] \in Entry
  BY <1>1
<1>3. \A i \in 1..Len(c) : c[i].key \in Version
  BY <1>2 DEF Entry
<1>4. KeysInOrder(c) = [i \in 1..Len(c) |-> c[i].key]
  BY <1>1 DEF KeysInOrder
<1>5. KeysInOrder(c) \in Seq(Version) /\ Len(KeysInOrder(c)) = Len(c)
  BY <1>1, <1>3, <1>4
<1>6. IsInjective(KeysInOrder(c))
  BY <1>4 DEF IsInjective, Tidy
<1>7. QED
  BY <1>1, <1>4, <1>5, <1>6 DEF Keys

-----------------------------------------------------------------------------
(* What keeps the lists of wrappers apart. *)

Procs == Requests \cup Admins

Building(p) == proc[p].pc \in {"probe", "open", "setup"}

Closing(p) == proc[p].pc = "close"

\* What a request holds was built from the version it read.
OwnInv ==
    \A p \in Procs :
        /\ proc[p].pc = "lookup" => proc[p].key \in Version
        /\ proc[p].pc # "lookup" => proc[p].own[2] = proc[p].key
        /\ Building(p) => proc[p].own \in Wrappers /\ proc[p].key \in Version
        /\ Closing(p) => proc[p].closing \in Wrappers

\* A list that is being built is in no other hands.
ApartInv ==
    \A p \in Procs : Building(p) =>
        /\ \A i \in DOMAIN cache : cache[i].wrappers[1] # proc[p].own[1]
        /\ \A q \in Procs :
              /\ Closing(q) => proc[q].closing[1] # proc[p].own[1]
              /\ Building(q) /\ q # p => proc[q].own[1] # proc[p].own[1]

CacheInv ==
    /\ Tidy(cache)
    /\ CacheTypeOK
    /\ OneEntry
    /\ OwnInv
    /\ ApartInv
    /\ CachedIsOpen

LEMMA InitCache == CacheInit => CacheInv
<1> SUFFICES ASSUME CacheInit PROVE CacheInv
  OBVIOUS
<1>1. Idle \in ProcState
  BY CacheAssumption DEF Idle, ProcState
<1>2. cache \in Seq(Entry) /\ Len(cache) = 0 /\ DOMAIN cache = {}
  BY DEF CacheInit
<1>3. Tidy(cache)
  BY <1>2 DEF Tidy
<1>4. IsInjective(KeysInOrder(cache))
  BY <1>3, KeysFacts
<1>5. CacheTypeOK
  <2>1. version \in Version
    BY CacheAssumption DEF CacheInit, Version
  <2>2. proc \in [Requests \cup Admins -> ProcState]
    BY <1>1 DEF CacheInit
  <2>3. saver \in BOOLEAN
    BY DEF CacheInit
  <2>4. QED
    BY <1>2, <1>4, <2>1, <2>2, <2>3 DEF CacheTypeOK
<1>6. \A p \in Procs : proc[p] = Idle
  BY DEF CacheInit, Procs
<1>7. OneEntry
  BY <1>2, <1>6 DEF OneEntry, Procs, Idle
<1>8. OwnInv /\ ApartInv
  BY <1>6 DEF OwnInv, ApartInv, Building, Closing, Idle, NoWrappers
<1>9. CachedIsOpen
  BY <1>6 DEF CachedIsOpen, Procs, Idle
<1>10. QED
  BY <1>3, <1>5, <1>7, <1>8, <1>9 DEF CacheInv

\* p goes on, to a state in which it closes nothing, with the same cache.
LEMMA MoveCache ==
    ASSUME CacheInv, NEW p \in Procs, NEW st \in ProcState,
           proc' = [proc EXCEPT ![p] = st], cache' = cache,
           version' \in Version, saver' \in BOOLEAN,
           st.stale = <<>>, st.pc # "close",
           st.pc = "lookup" => st.key \in Version,
           st.pc # "lookup" => st.own[2] = st.key,
           st.pc \in {"probe", "open", "setup"} =>
              /\ st.own \in Wrappers /\ st.key \in Version
              /\ \A i \in DOMAIN cache : cache[i].wrappers[1] # st.own[1]
              /\ \A q \in Procs \ {p} :
                    /\ Closing(q) => proc[q].closing[1] # st.own[1]
                    /\ Building(q) => proc[q].own[1] # st.own[1]
    PROVE  CacheInv'
<1>1. /\ proc' \in [Procs -> ProcState]
      /\ proc'[p] = st
      /\ \A q \in Procs : q # p => proc'[q] = proc[q]
  BY DEF CacheInv, CacheTypeOK, Procs
<1>2. Tidy(cache)' /\ IsInjective(KeysInOrder(cache))' /\ cache' \in Seq(Entry)
  BY DEF CacheInv, CacheTypeOK, Tidy, KeysInOrder, IsInjective
<1>3. CacheTypeOK'
  BY <1>1, <1>2 DEF CacheTypeOK, Procs
<1>4. OneEntry'
  BY <1>1 DEF CacheInv, OneEntry, Procs
<1>5. OwnInv'
  <2>1. ASSUME NEW q \in Procs
        PROVE  /\ proc'[q].pc = "lookup" => proc'[q].key \in Version
               /\ proc'[q].pc # "lookup" => proc'[q].own[2] = proc'[q].key
               /\ Building(q)' => proc'[q].own \in Wrappers /\ proc'[q].key \in Version
               /\ Closing(q)' => proc'[q].closing \in Wrappers
    <3>1. CASE q = p
      BY <1>1, <3>1 DEF Building, Closing
    <3>2. CASE q # p
      BY <1>1, <3>2 DEF CacheInv, OwnInv, Building, Closing
    <3>3. QED
      BY <3>1, <3>2
  <2>2. QED
    BY <2>1 DEF OwnInv
<1>6. ApartInv'
  <2>1. ASSUME NEW u \in Procs, Building(u)'
        PROVE  /\ \A i \in DOMAIN cache : cache[i].wrappers[1] # proc'[u].own[1]
               /\ \A q \in Procs :
                     /\ Closing(q)' => proc'[q].closing[1] # proc'[u].own[1]
                     /\ Building(q)' /\ q # u => proc'[q].own[1] # proc'[u].own[1]
    <3>1. CASE u = p
      <4>1. st.pc \in {"probe", "open", "setup"}
        BY <1>1, <2>1, <3>1 DEF Building
      <4>2. \A q \in Procs : Closing(q)' => q # p /\ Closing(q)
        BY <1>1 DEF Closing
      <4>3. \A q \in Procs : Building(q)' /\ q # p => Building(q)
        BY <1>1 DEF Building
      <4>4. QED
        BY <1>1, <3>1, <4>1, <4>2, <4>3
    <3>2. CASE u # p
      <4>1. Building(u) /\ proc'[u] = proc[u]
        BY <1>1, <2>1, <3>2 DEF Building
      <4>2. \A q \in Procs : Closing(q)' => q # p /\ Closing(q)
        BY <1>1 DEF Closing
      <4>3. \A q \in Procs : Building(q)' /\ q # p => Building(q)
        BY <1>1 DEF Building
      <4>4. Building(p)' => st.own[1] # proc[u].own[1]
        BY <1>1, <3>2, <4>1 DEF Building
      <4>5. QED
        BY <1>1, <4>1, <4>2, <4>3, <4>4 DEF CacheInv, ApartInv
    <3>3. QED
      BY <3>1, <3>2
  <2>2. QED
    BY <2>1 DEF ApartInv
<1>7. CachedIsOpen'
  <2>1. \A q \in Procs : Closing(q)' => Closing(q) /\ proc'[q] = proc[q]
    BY <1>1 DEF Closing
  <2>2. QED
    BY <2>1 DEF CacheInv, CachedIsOpen, Closing, Procs
<1>8. QED
  BY <1>2, <1>3, <1>4, <1>5, <1>6, <1>7 DEF CacheInv

-----------------------------------------------------------------------------
(* The purge. *)

\* What a dictionary and the keys to purge from it are like when p, which
\* builds nothing any more, starts or continues a purge.
Purgeable(p, c, stale) ==
    /\ Tidy(c)
    /\ stale \in Seq(Version) /\ Len(stale) <= 1 /\ Len(c) <= Len(stale) + 1
    /\ stale # <<>> => Head(stale) \in Keys(c)
    /\ \A i \in 1..Len(c) : \A q \in Procs \ {p} :
          /\ Closing(q) => proc[q].closing[1] # c[i].wrappers[1]
          /\ Building(q) => proc[q].own[1] # c[i].wrappers[1]

\* p has set st, and the dictionary is what is left of c.
LEMMA PurgeCache ==
    ASSUME CacheInv, NEW p \in Procs, NEW st \in ProcState, NEW d, Tidy(d), Len(d) <= 1,
           proc' = [proc EXCEPT ![p] = st], cache' = d, UNCHANGED <<version, saver>>,
           st.stale = <<>>, st.pc \in {"idle", "use", "write", "close"}, st.own[2] = st.key,
           \A i \in 1..Len(d) : \A q \in Procs \ {p} :
              /\ Closing(q) => proc[q].closing[1] # d[i].wrappers[1]
              /\ Building(q) => proc[q].own[1] # d[i].wrappers[1],
           st.pc = "close" =>
              /\ st.closing \in Wrappers
              /\ \A i \in 1..Len(d) : d[i].wrappers[1] # st.closing[1]
              /\ \A q \in Procs \ {p} :
                    /\ Closing(q) => proc[q].closing[1] # st.closing[1]
                    /\ Building(q) => proc[q].own[1] # st.closing[1]
    PROVE  CacheInv'
<1>1. /\ proc' \in [Procs -> ProcState]
      /\ proc'[p] = st
      /\ \A q \in Procs : q # p => proc'[q] = proc[q]
  BY DEF CacheInv, CacheTypeOK, Procs
<1>2. Tidy(cache)' /\ IsInjective(KeysInOrder(cache))' /\ cache' \in Seq(Entry)
      /\ Len(cache') <= 1 /\ DOMAIN cache' = 1..Len(d)
  <2>1. d \in Seq(Entry) /\ DOMAIN d = 1..Len(d) /\ IsInjective(KeysInOrder(d))
    BY KeysFacts DEF Tidy
  <2>2. Tidy(cache)' = Tidy(d) /\ KeysInOrder(cache)' = KeysInOrder(d)
    BY DEF Tidy, KeysInOrder
  <2>3. QED
    BY <2>1, <2>2 DEF IsInjective
<1>3. CacheTypeOK'
  BY <1>1, <1>2 DEF CacheTypeOK, Procs, CacheInv
<1>4. OneEntry'
  BY <1>1, <1>2 DEF CacheInv, OneEntry, Procs
<1>5. OwnInv'
  <2>1. ASSUME NEW q \in Procs
        PROVE  /\ proc'[q].pc = "lookup" => proc'[q].key \in Version
               /\ proc'[q].pc # "lookup" => proc'[q].own[2] = proc'[q].key
               /\ Building(q)' => proc'[q].own \in Wrappers /\ proc'[q].key \in Version
               /\ Closing(q)' => proc'[q].closing \in Wrappers
    <3>1. CASE q = p
      BY <1>1, <3>1 DEF Building, Closing
    <3>2. CASE q # p
      BY <1>1, <3>2 DEF CacheInv, OwnInv, Building, Closing
    <3>3. QED
      BY <3>1, <3>2
  <2>2. QED
    BY <2>1 DEF OwnInv
<1>6. \A q \in Procs : Building(q)' => q # p /\ Building(q)
  BY <1>1 DEF Building
<1>7. \A q \in Procs : Closing(q)' /\ q # p => Closing(q)
  BY <1>1 DEF Closing
<1>8. Closing(p)' => st.pc = "close"
  BY <1>1 DEF Closing
<1>9. ApartInv'
  <2>1. ASSUME NEW u \in Procs, Building(u)'
        PROVE  /\ \A i \in DOMAIN cache' : cache'[i].wrappers[1] # proc'[u].own[1]
               /\ \A q \in Procs :
                     /\ Closing(q)' => proc'[q].closing[1] # proc'[u].own[1]
                     /\ Building(q)' /\ q # u => proc'[q].own[1] # proc'[u].own[1]
    <3>1. u # p /\ Building(u) /\ proc'[u] = proc[u]
      BY <1>1, <1>6, <2>1
    <3>2. \A i \in DOMAIN cache' : cache'[i].wrappers[1] # proc'[u].own[1]
      BY <1>2, <3>1
    <3>3. ASSUME NEW q \in Procs, Closing(q)'
          PROVE  proc'[q].closing[1] # proc'[u].own[1]
      <4>1. CASE q = p
        BY <1>1, <1>8, <3>1, <3>3, <4>1
      <4>2. CASE q # p
        BY <1>1, <1>7, <3>1, <3>3, <4>2 DEF CacheInv, ApartInv
      <4>3. QED
        BY <4>1, <4>2
    <3>4. ASSUME NEW q \in Procs, Building(q)', q # u
          PROVE  proc'[q].own[1] # proc'[u].own[1]
      BY <1>1, <1>6, <3>1, <3>4 DEF CacheInv, ApartInv
    <3>5. QED
      BY <3>2, <3>3, <3>4
  <2>2. QED
    BY <2>1 DEF ApartInv
<1>10. ASSUME NEW u \in Procs, Closing(u)'
       PROVE  /\ \A i \in DOMAIN cache' : cache'[i].wrappers[1] # proc'[u].closing[1]
              /\ \A v \in Procs : Closing(v)' /\ v # u =>
                    proc'[v].closing[1] # proc'[u].closing[1]
  <2>1. CASE u = p
    BY <1>1, <1>2, <1>7, <1>8, <1>10, <2>1
  <2>2. CASE u # p
    <3>1. Closing(u) /\ proc'[u] = proc[u]
      BY <1>1, <1>7, <1>10, <2>2
    <3>2. \A i \in DOMAIN cache' : cache'[i].wrappers[1] # proc'[u].closing[1]
      BY <1>2, <2>2, <3>1
    <3>3. ASSUME NEW v \in Procs, Closing(v)', v # u
          PROVE  proc'[v].closing[1] # proc'[u].closing[1]
      <4>1. CASE v = p
        BY <1>1, <1>8, <2>2, <3>1, <3>3, <4>1
      <4>2. CASE v # p
        <5>1. Closing(v) /\ proc'[v] = proc[v]
          BY <1>1, <1>7, <3>3, <4>2
        <5>2. QED
          BY <3>1, <3>3, <5>1 DEF CacheInv, CachedIsOpen, Closing, Procs
      <4>3. QED
        BY <4>1, <4>2
    <3>4. QED
      BY <3>2, <3>3
  <2>3. QED
    BY <2>1, <2>2
<1>11. CachedIsOpen'
  BY <1>10 DEF CachedIsOpen, Closing, Procs
<1>12. QED
  BY <1>2, <1>3, <1>4, <1>5, <1>9, <1>11 DEF CacheInv

LEMMA IdleState ==
    /\ Idle \in ProcState /\ Idle.stale = <<>> /\ Idle.pc = "idle"
    /\ Idle.own[2] = Idle.key
  BY CacheAssumption DEF Idle, ProcState, NoWrappers

LEMMA PurgeStep ==
    ASSUME CacheInv, NEW p \in Procs, NEW me \in ProcState, me.own[2] = me.key,
           NEW c, NEW stale, Purgeable(p, c, stale),
           Purge(p, me, c, stale), UNCHANGED <<version, saver>>
    PROVE  CacheInv'
<1>1. /\ Tidy(c) /\ c \in Seq(Entry) /\ Len(c) \in Nat
      /\ stale \in Seq(Version) /\ Len(stale) \in Nat /\ Len(stale) <= 1
      /\ Len(c) <= Len(stale) + 1
  BY DEF Purgeable, Tidy
<1>2. CASE stale # <<>>
  <2> DEFINE key == Head(stale)
             d == Drop(c, key)
             w == At(c, key)
             st == [me EXCEPT !.pc = "close", !.stale = Tail(stale), !.closing = w]
  <2>1. key \in Keys(c) /\ Tail(stale) = <<>>
    BY <1>1, <1>2 DEF Purgeable
  <2>2. cache' = d /\ proc' = [proc EXCEPT ![p] = st]
    BY <1>2, <2>1 DEF Purge
  <2> HIDE DEF key
  <2>3. /\ Tidy(d) /\ Len(d) = Len(c) - 1
        /\ \A k \in 1..Len(d) : \E i \in 1..Len(c) : d[k] = c[i] /\ c[i].key # key
    BY <1>1, <2>1, DropFacts
  <2>4. PICK i \in 1..Len(c) : c[i].key = key /\ w = c[i].wrappers
    BY <1>1, <2>1, AtFacts
  <2>5. c[i] \in Entry
    BY <1>1
  <2>6. w \in Wrappers
    BY <2>4, <2>5 DEF Entry
  <2> HIDE DEF d, w
  <2>7. /\ st \in ProcState /\ st.stale = <<>> /\ st.pc = "close"
        /\ st.own = me.own /\ st.key = me.key /\ st.closing = w
    <3>1. <<>> \in Seq(Version)
      OBVIOUS
    <3>2. st = [me EXCEPT !.pc = "close", !.stale = <<>>, !.closing = w]
      BY <2>1
    <3> HIDE DEF st
    <3>3. QED
      BY <2>6, <3>1, <3>2 DEF ProcState
  <2> HIDE DEF st
  <2>8. \A k \in 1..Len(d) : d[k].wrappers[1] # w[1]
    BY <2>3, <2>4 DEF Purgeable, Tidy
  <2>9. \A k \in 1..Len(d) : \A q \in Procs \ {p} :
           /\ Closing(q) => proc[q].closing[1] # d[k].wrappers[1]
           /\ Building(q) => proc[q].own[1] # d[k].wrappers[1]
    BY <2>3 DEF Purgeable
  <2>10. \A q \in Procs \ {p} :
            /\ Closing(q) => proc[q].closing[1] # w[1]
            /\ Building(q) => proc[q].own[1] # w[1]
    BY <2>4 DEF Purgeable
  <2>11. Len(d) <= 1
    BY <1>1, <2>3
  <2>12. QED
    BY <2>2, <2>3, <2>6, <2>7, <2>8, <2>9, <2>10, <2>11, PurgeCache
<1>3. CASE stale = <<>>
  <2>1. cache' = c /\ Len(c) <= 1
    BY <1>1, <1>3 DEF Purge
  <2>2. \E st \in ProcState :
           /\ proc' = [proc EXCEPT ![p] = st]
           /\ st.stale = <<>> /\ st.pc \in {"idle", "use", "write"} /\ st.own[2] = st.key
    <3> DEFINE used == [me EXCEPT !.pc = "use", !.stale = <<>>, !.closing = NoWrappers]
               found == [me EXCEPT !.pc = "use", !.stale = <<>>, !.closing = NoWrappers,
                                   !.own = At(c, me.key)]
               write == [me EXCEPT !.pc = "write", !.stale = <<>>, !.closing = NoWrappers]
    <3>1. <<>> \in Seq(Version)
      OBVIOUS
    <3>2. /\ used \in ProcState /\ used.stale = <<>> /\ used.pc = "use"
          /\ used.own[2] = used.key
      BY <3>1 DEF ProcState
    <3>3. /\ write \in ProcState /\ write.stale = <<>> /\ write.pc = "write"
          /\ write.own[2] = write.key
      BY <3>1 DEF ProcState
    <3>4. ASSUME me.key \in Keys(c)
          PROVE  /\ found \in ProcState /\ found.stale = <<>> /\ found.pc = "use"
                 /\ found.own[2] = found.key
      <4>1. PICK i \in 1..Len(c) : c[i].key = me.key /\ At(c, me.key) = c[i].wrappers
        BY <1>1, <3>4, AtFacts
      <4>2. c[i] \in Entry
        BY <1>1
      <4>3. At(c, me.key) \in Wrappers /\ At(c, me.key)[2] = me.key
        BY <1>1, <4>1, <4>2 DEF Entry, Tidy
      <4>4. QED
        BY <3>1, <4>3 DEF ProcState
    <3> HIDE DEF used, found, write
    <3>5. \/ proc' = [proc EXCEPT ![p] = used]
          \/ me.key \in Keys(c) /\ proc' = [proc EXCEPT ![p] = found]
          \/ proc' = [proc EXCEPT ![p] = write]
          \/ proc' = [proc EXCEPT ![p] = Idle]
      BY <1>3 DEF Purge, used, found, write
    <3>6. QED
      BY <3>2, <3>3, <3>4, <3>5, IdleState
  <2>3. PICK st \in ProcState :
           /\ proc' = [proc EXCEPT ![p] = st]
           /\ st.stale = <<>> /\ st.pc \in {"idle", "use", "write"} /\ st.own[2] = st.key
    BY <2>2
  <2>4. QED
    BY <1>1, <2>1, <2>3, PurgeCache DEF Purgeable
<1>4. QED
  BY <1>2, <1>3

-----------------------------------------------------------------------------
(* The steps. *)

LEMMA OfProc ==
    ASSUME CacheInv, NEW p \in Procs
    PROVE  proc[p] \in ProcState /\ proc[p].stale = <<>>
  BY DEF CacheInv, CacheTypeOK, OneEntry, Procs

LEMMA ReadAgentKeeps ==
    ASSUME CacheInv, NEW r \in Procs, NEW want \in {"graph", "wrappers"}, ReadAgent(r, want)
    PROVE  CacheInv'
<1>1. PICK v \in Version : v = version
  BY DEF CacheInv, CacheTypeOK
<1>2. v \in 0..MaxVersion
  BY CacheAssumption DEF Version
<1> DEFINE st == [Idle EXCEPT !.pc = "lookup", !.want = want, !.key = v]
<1>3. st \in ProcState /\ st.stale = <<>> /\ st.pc = "lookup" /\ st.key = v
  BY <1>2, IdleState DEF ProcState
<1>4. proc' = [proc EXCEPT ![r] = st]
  BY <1>1 DEF ReadAgent
<1> HIDE DEF st
<1>5. cache' = cache /\ version' \in Version /\ saver' \in BOOLEAN
  BY DEF ReadAgent, CacheInv, CacheTypeOK
<1>6. QED
  BY <1>1, <1>3, <1>4, <1>5, MoveCache

LEMMA HitKeeps ==
    ASSUME CacheInv, NEW r \in Procs, Hit(r)
    PROVE  CacheInv'
<1>1. PICK me \in ProcState : me = proc[r]
  BY OfProc
<1>2. cache \in Seq(Entry) /\ Tidy(cache)
  BY DEF CacheInv, Tidy
<1>3. me.key \in Keys(cache) /\ me.stale = <<>>
  BY <1>1, OfProc DEF Hit
<1>4. PICK w \in Wrappers : w = At(cache, me.key) /\ w[2] = me.key
  <2>1. PICK i \in 1..Len(cache) :
           cache[i].key = me.key /\ At(cache, me.key) = cache[i].wrappers
    BY <1>2, <1>3, AtFacts
  <2>2. cache[i] \in Entry
    BY <1>2
  <2>3. QED
    BY <1>2, <2>1, <2>2 DEF Tidy, Entry
<1> DEFINE st == [me EXCEPT !.pc = "use", !.own = w]
<1>5. st \in ProcState /\ st.stale = <<>> /\ st.pc = "use" /\ st.own[2] = st.key
  BY <1>3, <1>4 DEF ProcState
<1>6. proc' = [proc EXCEPT ![r] = st]
  BY <1>1, <1>4 DEF Hit, CacheInv, CacheTypeOK, Procs
<1> HIDE DEF st
<1>7. cache' = cache /\ version' \in Version /\ saver' \in BOOLEAN
  BY DEF Hit, CacheInv, CacheTypeOK
<1>8. QED
  BY <1>5, <1>6, <1>7, MoveCache

\* A new list gets an identity that nothing refers to.
LEMMA MissKeeps ==
    ASSUME CacheInv, NEW r \in Procs, Miss(r)
    PROVE  CacheInv'
<1>1. PICK me \in ProcState : me = proc[r]
  BY OfProc
<1>2. PICK n \in Unused : n = CHOOSE k \in Unused : TRUE
  BY DEF Miss
<1>3. /\ n \in 1..MaxLists
      /\ \A i \in DOMAIN cache : cache[i].wrappers[1] # n
      /\ \A q \in Procs : proc[q].own[1] # n /\ proc[q].closing[1] # n
  BY <1>2 DEF Unused, Procs
<1>4. me.key \in Version /\ me.stale = <<>>
  BY <1>1, OfProc DEF Miss, CacheInv, OwnInv
<1> DEFINE w == <<n, me.key>>
<1>5. w \in Wrappers /\ w[1] = n /\ w[2] = me.key
  BY <1>3, <1>4 DEF Wrappers
<1> HIDE DEF w
<1> DEFINE st == [me EXCEPT !.pc = "probe", !.own = w]
<1>6. /\ st \in ProcState /\ st.stale = <<>> /\ st.pc = "probe" /\ st.own = w
      /\ st.key = me.key
  BY <1>4, <1>5 DEF ProcState
<1>7. proc' = [proc EXCEPT ![r] = st]
  BY <1>1, <1>2 DEF Miss, CacheInv, CacheTypeOK, Procs, w
<1> HIDE DEF st
<1>8. cache' = cache /\ version' \in Version /\ saver' \in BOOLEAN
  BY DEF Miss, CacheInv, CacheTypeOK
<1>9. QED
  BY <1>3, <1>4, <1>5, <1>6, <1>7, <1>8, MoveCache

\* r goes on building its list.
LEMMA BuildKeeps ==
    ASSUME CacheInv, NEW r \in Procs, Building(r), NEW next \in {"open", "setup"},
           proc' = [proc EXCEPT ![r].pc = next], cache' = cache, version' = version,
           saver' \in BOOLEAN
    PROVE  CacheInv'
<1>1. PICK me \in ProcState : me = proc[r]
  BY OfProc
<1> DEFINE st == [me EXCEPT !.pc = next]
<1>2. me.stale = <<>> /\ me.own \in Wrappers /\ me.key \in Version /\ me.own[2] = me.key
  BY <1>1, OfProc DEF CacheInv, OwnInv, Building
<1>3. /\ st \in ProcState /\ st.stale = <<>> /\ st.pc = next /\ st.own = me.own
      /\ st.key = me.key
  BY <1>2 DEF ProcState
<1>4. proc' = [proc EXCEPT ![r] = st]
  BY <1>1 DEF CacheInv, CacheTypeOK, Procs
<1> HIDE DEF st
<1>5. /\ \A i \in DOMAIN cache : cache[i].wrappers[1] # me.own[1]
      /\ \A q \in Procs \ {r} :
            /\ Closing(q) => proc[q].closing[1] # me.own[1]
            /\ Building(q) => proc[q].own[1] # me.own[1]
  BY <1>1 DEF CacheInv, ApartInv
<1>6. version' \in Version
  BY DEF CacheInv, CacheTypeOK
<1>7. st.pc # "close" /\ st.pc # "lookup" /\ st.own[2] = st.key
  BY <1>2, <1>3
<1>8. st.own \in Wrappers /\ st.key \in Version
  BY <1>2, <1>3
<1>9. /\ \A i \in DOMAIN cache : cache[i].wrappers[1] # st.own[1]
      /\ \A q \in Procs \ {r} :
            /\ Closing(q) => proc[q].closing[1] # st.own[1]
            /\ Building(q) => proc[q].own[1] # st.own[1]
  BY <1>3, <1>5
<1>10. QED
  BY <1>3, <1>4, <1>6, <1>7, <1>8, <1>9, MoveCache

\* p is done.
LEMMA IdleKeeps ==
    ASSUME CacheInv, NEW p \in Procs, proc' = [proc EXCEPT ![p] = Idle],
           cache' = cache, version' \in Version, saver' = saver
    PROVE  CacheInv'
<1>1. saver' \in BOOLEAN
  BY DEF CacheInv, CacheTypeOK
<1>2. Idle.pc = "idle"
  BY DEF Idle
<1>3. QED
  BY <1>1, <1>2, IdleState, MoveCache

LEMMA WriteRowType ==
    ASSUME CacheInv, WriteRow
    PROVE  version' \in Version
  BY CacheAssumption DEF CacheInv, CacheTypeOK, WriteRow, Version

LEMMA UpdateFirstKeeps ==
    ASSUME CacheInv, NEW a \in Procs, UpdateFirst(a)
    PROVE  CacheInv'
<1> DEFINE st == [Idle EXCEPT !.pc = "written", !.want = "invalidate"]
<1>1. st \in ProcState /\ st.stale = <<>> /\ st.pc = "written" /\ st.own[2] = st.key
  BY IdleState DEF ProcState
<1>2. proc' = [proc EXCEPT ![a] = st] /\ cache' = cache /\ saver' = saver
  BY DEF UpdateFirst
<1> HIDE DEF st
<1>3. version' \in Version /\ saver' \in BOOLEAN
  BY <1>2, WriteRowType DEF UpdateFirst, CacheInv, CacheTypeOK
<1>4. QED
  BY <1>1, <1>2, <1>3, MoveCache

-----------------------------------------------------------------------------
(* The steps that purge. *)

\* The cached lists are in no other hands that could close or replace them.
LEMMA CacheApart ==
    ASSUME CacheInv
    PROVE  \A i \in 1..Len(cache) : \A q \in Procs :
              /\ Closing(q) => proc[q].closing[1] # cache[i].wrappers[1]
              /\ Building(q) => proc[q].own[1] # cache[i].wrappers[1]
<1>1. DOMAIN cache = 1..Len(cache)
  BY DEF CacheInv, Tidy
<1>2. \A i \in 1..Len(cache) : \A q \in Procs :
         Closing(q) => proc[q].closing[1] # cache[i].wrappers[1]
  BY <1>1 DEF CacheInv, CachedIsOpen, Closing, Procs
<1>3. \A i \in 1..Len(cache) : \A q \in Procs :
         Building(q) => proc[q].own[1] # cache[i].wrappers[1]
  BY <1>1 DEF CacheInv, ApartInv
<1>4. QED
  BY <1>2, <1>3

LEMMA CloseKeeps ==
    ASSUME CacheInv, NEW p \in Procs, Close(p)
    PROVE  CacheInv'
<1>1. PICK me \in ProcState : me = proc[p]
  BY OfProc
<1>2. me.stale = <<>> /\ me.own[2] = me.key
  BY <1>1, OfProc DEF Close, CacheInv, OwnInv
<1>3. PICK c : c = cache
  OBVIOUS
<1>4. Purgeable(p, c, <<>>)
  <2>1. <<>> \in Seq(Version) /\ Len(<<>>) = 0
    OBVIOUS
  <2>2. Tidy(c) /\ Len(c) <= 1
    BY <1>3 DEF CacheInv, OneEntry
  <2>3. QED
    BY <1>3, <2>1, <2>2, CacheApart DEF Purgeable
<1>5. Purge(p, me, c, <<>>) /\ UNCHANGED <<version, saver>>
  BY <1>1, <1>2, <1>3 DEF Close
<1>6. QED
  BY <1>2, <1>4, <1>5, PurgeStep

\* Everything that is cached may be purged.
LEMMA AllPurgeable ==
    ASSUME CacheInv, NEW p \in Procs
    PROVE  Purgeable(p, cache, KeysInOrder(cache))
<1>1. Tidy(cache) /\ Len(cache) <= 1 /\ Len(cache) \in Nat
  BY DEF CacheInv, OneEntry, Tidy
<1>2. PICK k : k = KeysInOrder(cache)
  OBVIOUS
<1>3. /\ k \in Seq(Version) /\ Len(k) = Len(cache)
      /\ \A i \in 1..Len(cache) : k[i] \in Keys(cache)
  BY <1>1, <1>2, KeysFacts
<1>4. k # <<>> => Head(k) \in Keys(cache)
  <2>1. k # <<>> => 1 \in 1..Len(cache) /\ Head(k) = k[1]
    BY <1>1, <1>3
  <2>2. QED
    BY <1>3, <2>1
<1>5. Len(k) <= 1 /\ Len(cache) <= Len(k) + 1
  BY <1>1, <1>3
<1>6. QED
  BY <1>1, <1>2, <1>3, <1>4, <1>5, CacheApart DEF Purgeable

LEMMA InvalidateKeeps ==
    ASSUME CacheInv, NEW a \in Procs, Invalidate(a)
    PROVE  CacheInv'
<1>1. PICK me \in ProcState : me = proc[a]
  BY OfProc
<1>2. me.own[2] = me.key
  BY <1>1 DEF Invalidate, CacheInv, OwnInv
<1>3. PICK c : c = cache
  OBVIOUS
<1>4. PICK k : k = KeysInOrder(cache)
  OBVIOUS
<1>5. Purgeable(a, c, k)
  BY <1>3, <1>4, AllPurgeable
<1>6. Purge(a, me, c, k) /\ UNCHANGED <<version, saver>>
  BY <1>1, <1>3, <1>4 DEF Invalidate
<1>7. QED
  BY <1>2, <1>5, <1>6, PurgeStep

LEMMA InvalidateFirstKeeps ==
    ASSUME CacheInv, NEW a \in Procs, InvalidateFirst(a)
    PROVE  CacheInv'
<1>1. PICK me : me = [Idle EXCEPT !.want = "write"]
  OBVIOUS
<1>2. me \in ProcState /\ me.own[2] = me.key
  BY <1>1, IdleState DEF ProcState
<1>3. PICK c : c = cache
  OBVIOUS
<1>4. PICK k : k = KeysInOrder(cache)
  OBVIOUS
<1>5. Purgeable(a, c, k)
  BY <1>3, <1>4, AllPurgeable
<1>6. Purge(a, me, c, k) /\ UNCHANGED <<version, saver>>
  BY <1>1, <1>3, <1>4 DEF InvalidateFirst
<1>7. QED
  BY <1>2, <1>5, <1>6, PurgeStep

LEMMA InsertKeeps ==
    ASSUME CacheInv, NEW r \in Procs, Insert(r)
    PROVE  CacheInv'
<1>1. PICK me \in ProcState : me = proc[r]
  BY OfProc
<1>2. Building(r)
  BY DEF Insert, Building
<1>3. me.own \in Wrappers /\ me.key \in Version /\ me.own[2] = me.key
  BY <1>1, <1>2 DEF CacheInv, OwnInv, Building
<1>4. /\ \A i \in 1..Len(cache) : cache[i].wrappers[1] # me.own[1]
      /\ \A q \in Procs \ {r} :
            /\ Closing(q) => proc[q].closing[1] # me.own[1]
            /\ Building(q) => proc[q].own[1] # me.own[1]
  <2>1. DOMAIN cache = 1..Len(cache)
    BY DEF CacheInv, Tidy
  <2>2. QED
    BY <1>1, <1>2, <2>1 DEF CacheInv, ApartInv
<1>5. PICK d : d = Put(cache, me.key, me.own)
  OBVIOUS
<1>6. /\ Tidy(d) /\ me.key \in Keys(d) /\ Len(d) <= 2
      /\ \A i \in 1..Len(d) :
            d[i].wrappers = me.own \/ \E j \in 1..Len(cache) : d[i] = cache[j]
  BY <1>3, <1>4, <1>5, PutFacts DEF CacheInv, OneEntry
<1>7. PICK k : k = Others(d, me.key)
  OBVIOUS
<1>8. k \in Seq(Version) /\ Len(k) = Len(d) - 1 /\ (k # <<>> => Head(k) \in Keys(d))
  <2>1. PICK e : e = Drop(d, me.key)
    OBVIOUS
  <2>2. /\ Tidy(e) /\ Len(e) = Len(d) - 1
        /\ \A i \in 1..Len(e) : \E j \in 1..Len(d) : e[i] = d[j] /\ d[j].key # me.key
    BY <1>6, <2>1, DropFacts
  <2>3. k = KeysInOrder(e)
    BY <1>7, <2>1 DEF Others
  <2>4. k \in Seq(Version) /\ Len(k) = Len(e) /\ \A i \in 1..Len(e) : k[i] = e[i].key
    BY <2>2, <2>3, KeysFacts
  <2>5. k # <<>> => 1 \in 1..Len(e) /\ Head(k) = k[1]
    BY <2>4
  <2>6. \A i \in 1..Len(d) : d[i].key \in Keys(d)
    BY <1>6, KeysFacts
  <2>7. k # <<>> => Head(k) \in Keys(d)
    BY <2>2, <2>4, <2>5, <2>6
  <2>8. QED
    BY <2>2, <2>4, <2>7
<1>9. \A i \in 1..Len(d) : \A q \in Procs \ {r} :
         /\ Closing(q) => proc[q].closing[1] # d[i].wrappers[1]
         /\ Building(q) => proc[q].own[1] # d[i].wrappers[1]
  BY <1>4, <1>6, CacheApart
<1>10. Len(k) <= 1 /\ Len(d) <= Len(k) + 1
  <2>1. Len(d) \in Nat
    BY <1>6 DEF Tidy
  <2>2. QED
    BY <1>6, <1>8, <2>1
<1>11. Purgeable(r, d, k)
  BY <1>6, <1>8, <1>9, <1>10 DEF Purgeable
<1>12. Purge(r, me, d, k) /\ UNCHANGED <<version, saver>>
  BY <1>1, <1>5, <1>7 DEF Insert
<1>13. QED
  BY <1>3, <1>11, <1>12, PurgeStep

-----------------------------------------------------------------------------
LEMMA CacheStep == CacheInv /\ [CacheNext]_cacheVars => CacheInv'
<1> SUFFICES ASSUME CacheInv, [CacheNext]_cacheVars PROVE CacheInv'
  OBVIOUS
<1>1. CASE UNCHANGED cacheVars
  <2>1. cache' = cache /\ proc' = proc /\ version' = version /\ saver' = saver
    BY <1>1 DEF cacheVars
  <2>2. QED
    BY <2>1 DEF CacheInv, CacheTypeOK, OneEntry, OwnInv, ApartInv, CachedIsOpen, Tidy,
                KeysInOrder, IsInjective, Building, Closing
<1>2. ASSUME NEW r \in Requests, RequestNext(r) PROVE CacheInv'
  <2>1. r \in Procs
    BY DEF Procs
  <2>2. ASSUME NEW want \in {"graph", "wrappers"}, ReadAgent(r, want) PROVE CacheInv'
    BY <2>1, <2>2, ReadAgentKeeps
  <2>3. CASE Hit(r)
    BY <2>1, <2>3, HitKeeps
  <2>4. CASE Miss(r)
    BY <2>1, <2>4, MissKeeps
  <2>5. CASE OpenSaver(r)
    <3>1. Building(r) /\ saver' \in BOOLEAN
      BY <2>5 DEF OpenSaver, Building, CacheInv, CacheTypeOK
    <3>2. QED
      BY <2>1, <2>5, <3>1, BuildKeeps DEF OpenSaver
  <2>6. CASE SaverOpened(r)
    <3>1. Building(r) /\ saver' \in BOOLEAN
      BY <2>6 DEF SaverOpened, Building
    <3>2. QED
      BY <2>1, <2>6, <3>1, BuildKeeps DEF SaverOpened
  <2>7. CASE Insert(r)
    BY <2>1, <2>7, InsertKeeps
  <2>8. CASE RequestEnds(r) \/ Release(r)
    <3>1. version' \in Version
      BY <2>8 DEF RequestEnds, Release, CacheInv, CacheTypeOK
    <3>2. QED
      BY <2>1, <2>8, <3>1, IdleKeeps DEF RequestEnds, Release
  <2>9. CASE Close(r)
    BY <2>1, <2>9, CloseKeeps
  <2>10. QED
    BY <1>2, <2>2, <2>3, <2>4, <2>5, <2>6, <2>7, <2>8, <2>9 DEF RequestNext
<1>3. ASSUME NEW a \in Admins, AdminNext(a) PROVE CacheInv'
  <2>1. a \in Procs
    BY DEF Procs
  <2>2. CASE UpdateFirst(a)
    BY <2>1, <2>2, UpdateFirstKeeps
  <2>3. CASE Invalidate(a)
    BY <2>1, <2>3, InvalidateKeeps
  <2>4. CASE InvalidateFirst(a)
    BY <2>1, <2>4, InvalidateFirstKeeps
  <2>5. CASE Update(a)
    BY <2>1, <2>5, WriteRowType, IdleKeeps DEF Update
  <2>6. CASE AdminEnds(a)
    <3>1. version' \in Version
      BY <2>6 DEF AdminEnds, CacheInv, CacheTypeOK
    <3>2. QED
      BY <2>1, <2>6, <3>1, IdleKeeps DEF AdminEnds
  <2>7. CASE Close(a)
    BY <2>1, <2>7, CloseKeeps
  <2>8. QED
    BY <1>3, <2>2, <2>3, <2>4, <2>5, <2>6, <2>7 DEF AdminNext
<1>4. QED
  BY <1>1, <1>2, <1>3 DEF CacheNext

\* The inductive invariant of the cache: it holds one entry, which was built
\* from the version of its key; whoever builds a list of wrappers is the only
\* one that has it, and whoever closes one, too.
THEOREM CacheInvAlways == CacheSpec => []CacheInv
  BY InitCache, CacheStep, PTL DEF CacheSpec

\* Every coroutine is in one of the places where it awaits, and every entry is
\* a list built for a version.
THEOREM CacheTypeOKAlways == CacheSpec => []CacheTypeOK
<1>1. CacheInv => CacheTypeOK
  BY DEF CacheInv
<1>2. QED
  BY <1>1, CacheInvAlways, PTL

\* A request runs with the configuration it read from the agent row, however
\* many updates, builds and purges overlap with its own.
THEOREM ServedIsRequestedAlways == CacheSpec => []ServedIsRequested
<1>1. CacheInv => ServedIsRequested
  BY DEF CacheInv, OwnInv, ServedIsRequested, Procs
<1>2. QED
  BY <1>1, CacheInvAlways, PTL

\* No list of wrappers is being closed while a lookup would still find it, and
\* none is closed by two coroutines at the same time.
THEOREM CachedIsOpenAlways == CacheSpec => []CachedIsOpen
<1>1. CacheInv => CachedIsOpen
  BY DEF CacheInv
<1>2. QED
  BY <1>1, CacheInvAlways, PTL

\* What a purge leaves a request for wrappers with is an entry of the cache.
LEMMA PurgeHands ==
    ASSUME CacheInv, CacheInv', NEW r \in Requests,
           proc[r].pc # "use", proc'[r].pc = "use", proc'[r].want = "wrappers",
           NEW p \in Procs, NEW me \in ProcState, NEW c, NEW stale, Purge(p, me, c, stale)
    PROVE  \E i \in DOMAIN cache' : cache'[i].wrappers = proc'[r].own
<1> DEFINE closes == [me EXCEPT !.pc = "close", !.stale = Tail(stale),
                                !.closing = At(c, Head(stale))]
           used == [me EXCEPT !.pc = "use", !.stale = <<>>, !.closing = NoWrappers]
           found == [me EXCEPT !.pc = "use", !.stale = <<>>, !.closing = NoWrappers,
                               !.own = At(c, me.key)]
           write == [me EXCEPT !.pc = "write", !.stale = <<>>, !.closing = NoWrappers]
<1>1. /\ closes.pc = "close" /\ write.pc = "write" /\ Idle.pc = "idle"
      /\ used.want = me.want /\ found.own = At(c, me.key)
  BY DEF ProcState, Idle
<1> HIDE DEF closes, used, found, write
<1>2. \/ proc' = [proc EXCEPT ![p] = closes]
      \/ proc' = [proc EXCEPT ![p] = Idle]
      \/ me.want = "graph" /\ proc' = [proc EXCEPT ![p] = used]
      \/ me.key \in Keys(c) /\ cache' = c /\ proc' = [proc EXCEPT ![p] = found]
      \/ proc' = [proc EXCEPT ![p] = write]
  BY DEF Purge, closes, used, found, write
<1>3. proc \in [Procs -> ProcState] /\ r \in Procs
  BY DEF CacheInv, CacheTypeOK, Procs
<1>4. r = p
  BY <1>2, <1>3
<1>5. me.key \in Keys(c) /\ cache' = c /\ proc'[r].own = At(c, me.key)
  BY <1>1, <1>2, <1>3, <1>4
<1>6. cache' \in Seq(Entry)
  BY DEF CacheInv, CacheTypeOK
<1>7. PICK i \in 1..Len(c) : At(c, me.key) = c[i].wrappers
  BY <1>5, <1>6, AtFacts
<1>8. QED
  BY <1>5, <1>6, <1>7

\* get_agent_wrappers returns a list that is in the cache when it returns,
\* whatever replaced, popped or closed the one that was built meanwhile.
THEOREM HandedIsCachedAlways == CacheSpec => HandedIsCached
<1>1. ASSUME CacheInv, CacheInv', [CacheNext]_cacheVars, NEW r \in Requests,
             proc[r].pc # "use", proc'[r].pc = "use", proc'[r].want = "wrappers"
      PROVE  \E i \in DOMAIN cache' : cache'[i].wrappers = proc'[r].own
  <2>1. proc \in [Procs -> ProcState] /\ r \in Procs /\ cache \in Seq(Entry)
    BY <1>1 DEF CacheInv, CacheTypeOK, Procs
  <2>2. ASSUME NEW p \in Procs, Close(p) \/ Invalidate(p)
        PROVE  \E me, c, stale : me \in ProcState /\ Purge(p, me, c, stale)
    BY <2>1, <2>2 DEF Close, Invalidate
  <2>3. ASSUME NEW p \in Procs, Insert(p)
        PROVE  \E me, c, stale : me \in ProcState /\ Purge(p, me, c, stale)
    BY <2>1, <2>3 DEF Insert
  <2>4. ASSUME NEW p \in Procs, InvalidateFirst(p)
        PROVE  \E me, c, stale : me \in ProcState /\ Purge(p, me, c, stale)
    <3>1. [Idle EXCEPT !.want = "write"] \in ProcState
      BY IdleState DEF ProcState
    <3>2. QED
      BY <2>4, <3>1 DEF InvalidateFirst
  <2>5. ASSUME NEW p \in Procs, Close(p) \/ Invalidate(p) \/ Insert(p) \/ InvalidateFirst(p)
        PROVE  \E i \in DOMAIN cache' : cache'[i].wrappers = proc'[r].own
    <3>1. PICK me, c, stale : me \in ProcState /\ Purge(p, me, c, stale)
      BY <2>2, <2>3, <2>4, <2>5
    <3>2. QED
      BY <1>1, <3>1, PurgeHands
  <2>6. ASSUME NEW p \in Requests, Hit(p)
        PROVE  \E i \in DOMAIN cache' : cache'[i].wrappers = proc'[r].own
    <3>1. p = r /\ proc[r].key \in Keys(cache)
      BY <1>1, <2>1, <2>6 DEF Hit, Procs
    <3>2. cache' = cache /\ proc'[r].own = At(cache, proc[r].key)
      BY <2>1, <2>6, <3>1 DEF Hit
    <3>3. PICK i \in 1..Len(cache) : At(cache, proc[r].key) = cache[i].wrappers
      BY <2>1, <3>1, AtFacts
    <3>4. QED
      BY <2>1, <3>2, <3>3
  <2>7. ASSUME NEW p \in Procs, NEW st, st.pc # "use", proc' = [proc EXCEPT ![p] = st]
        PROVE  FALSE
    BY <1>1, <2>1, <2>7
  <2>8. ASSUME NEW p \in Requests, RequestEnds(p) \/ Release(p) PROVE FALSE
    BY <2>7, <2>8, IdleState DEF RequestEnds, Release, Procs
  <2>9. ASSUME NEW p \in Admins, UpdateFirst(p) \/ Update(p) \/ AdminEnds(p) PROVE FALSE
    <3>1. [Idle EXCEPT !.pc = "written", !.want = "invalidate"].pc # "use"
      BY DEF Idle
    <3>2. QED
      BY <2>7, <2>9, <3>1, IdleState DEF UpdateFirst, Update, AdminEnds, Procs
  <2>10. ASSUME NEW p \in Requests, NEW want \in {"graph", "wrappers"}, ReadAgent(p, want)
         PROVE  FALSE
    <3>1. [Idle EXCEPT !.pc = "lookup", !.want = want, !.key = version].pc # "use"
      BY DEF Idle
    <3>2. QED
      BY <2>7, <2>10, <3>1 DEF ReadAgent, Procs
  <2>11. ASSUME NEW p \in Requests, Miss(p) \/ OpenSaver(p) \/ SaverOpened(p) PROVE FALSE
    <3>1. proc'[p].pc # "use" /\ \A q \in Procs : q # p => proc'[q] = proc[q]
      BY <2>1, <2>11 DEF Miss, OpenSaver, SaverOpened, Procs, ProcState
    <3>2. QED
      BY <1>1, <2>1, <3>1
  <2>12. proc' # proc
    BY <1>1
  <2>13. QED
    BY <1>1, <2>5, <2>6, <2>8, <2>9, <2>10, <2>11, <2>12
       DEF CacheNext, RequestNext, AdminNext, cacheVars, Procs
<1>2. CacheInv /\ CacheInv' /\ [CacheNext]_cacheVars
         => [\A r \in Requests :
                proc[r].pc # "use" /\ proc'[r].pc = "use" /\ proc'[r].want = "wrappers"
                   => \E i \in DOMAIN cache' : cache'[i].wrappers = proc'[r].own]_cacheVars
  BY <1>1
<1>3. QED
  BY <1>2, CacheInvAlways, PTL DEF CacheSpec, HandedIsCached

\* Every insertion purges what another build left, so that at most one
\* configuration stays cached and no purge meets a key that is gone.
THEOREM OneEntryAlways == CacheSpec => []OneEntry
<1>1. CacheInv => OneEntry
  BY DEF CacheInv
<1>2. QED
  BY <1>1, CacheInvAlways, PTL

=============================================================================
