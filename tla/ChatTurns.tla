----------------------------- MODULE ChatTurns -----------------------------
(***************************************************************************)
(* What the connector pipeline promises the members of a chat: the         *)
(* messages it accepts wait in a bounded line, and the agent takes them in *)
(* the order they were accepted, one turn at a time.  A restart loses what *)
(* waits and the turns under way, and nothing else does.                   *)
(***************************************************************************)
EXTENDS Naturals, Sequences

CONSTANTS
    Chats,  \* chats of a connector
    Limit   \* messages of a chat that may wait

VARIABLES
    accepted,  \* accepted[ch]: messages accepted so far
    waiting,   \* waiting[ch]: ranks of the messages that wait
    turns      \* turns[ch]: ranks of the messages whose turn it is

vars == <<accepted, waiting, turns>>

Init ==
    /\ accepted = [ch \in Chats |-> 0]
    /\ waiting = [ch \in Chats |-> <<>>]
    /\ turns = [ch \in Chats |-> {}]

Accept(ch) ==
    /\ Len(waiting[ch]) < Limit
    /\ accepted' = [accepted EXCEPT ![ch] = @ + 1]
    /\ waiting' = [waiting EXCEPT ![ch] = Append(@, accepted[ch] + 1)]
    /\ UNCHANGED turns

Begin(ch) ==
    /\ turns[ch] = {}
    /\ waiting[ch] # <<>>
    /\ turns' = [turns EXCEPT ![ch] = {Head(waiting[ch])}]
    /\ waiting' = [waiting EXCEPT ![ch] = Tail(@)]
    /\ UNCHANGED accepted

End(ch) ==
    /\ turns[ch] # {}
    /\ turns' = [turns EXCEPT ![ch] = {}]
    /\ UNCHANGED <<accepted, waiting>>

Lose ==
    /\ waiting' = [ch \in Chats |-> <<>>]
    /\ turns' = [ch \in Chats |-> {}]
    /\ UNCHANGED accepted

Next == (\E ch \in Chats : Accept(ch) \/ Begin(ch) \/ End(ch)) \/ Lose

Spec == Init /\ [][Next]_vars

=============================================================================
