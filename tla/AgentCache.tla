----------------------------- MODULE AgentCache -----------------------------
(***************************************************************************)
(* The cache of agent_factory: the compiled graph of an agent and the list *)
(* of its A2A clients ("wrappers"), keyed by the agent and the updated_at  *)
(* of its row, and the checkpointer all graphs share.                      *)
(*                                                                         *)
(* One agent; entries of different agents never meet.  Requests and        *)
(* administrators are coroutines of one process: what the code does        *)
(* between two awaits is one step.                                         *)
(***************************************************************************)
EXTENDS Integers, Sequences, SequencesExt

CONSTANTS
    Requests,    \* requests that look the agent up
    Admins,      \* administrative requests that invalidate it
    MaxVersion,  \* bound: writes of the agent row
    MaxLists     \* bound: wrapper lists that exist at the same time

ASSUME CacheAssumption ==
    /\ Requests \cap Admins = {}
    /\ MaxVersion \in Nat \ {0}
    /\ MaxLists \in Nat

VARIABLES
    version,  \* updated_at of the agent row, as a counter
    cache,    \* _cache: entries [key, wrappers] in insertion order
    proc,     \* proc[p]: the state of a request or an administrator
    saver     \* _checkpointer is set

cacheVars == <<version, cache, proc, saver>>

Version == 1..MaxVersion

\* A list of wrappers: its identity, and the version it was built from.
Wrappers == (1..MaxLists) \X Version
NoWrappers == <<0, 0>>

Entry == [key : Version, wrappers : Wrappers]

(***************************************************************************)
(* key, own: the version the request read and the list it built or uses;   *)
(* stale: keys still to purge; closing: the list being closed.             *)
(***************************************************************************)
ProcState ==
    [pc : {"idle", "lookup", "probe", "open", "setup", "close", "use", "written", "write"},
     want : {"graph", "wrappers", "invalidate", "write"}, key : 0..MaxVersion,
     own : Wrappers \cup {NoWrappers}, stale : Seq(Version),
     closing : Wrappers \cup {NoWrappers}]

Idle == [pc |-> "idle", want |-> "graph", key |-> 0, own |-> NoWrappers,
         stale |-> <<>>, closing |-> NoWrappers]

KeysInOrder(c) == [i \in DOMAIN c |-> c[i].key]

CacheTypeOK ==
    /\ version \in Version
    /\ cache \in Seq(Entry)
    /\ IsInjective(KeysInOrder(cache))
    /\ proc \in [Requests \cup Admins -> ProcState]
    /\ saver \in BOOLEAN

CacheInit ==
    /\ version = 1
    /\ cache = <<>>
    /\ proc = [p \in Requests \cup Admins |-> Idle]
    /\ saver = FALSE

-----------------------------------------------------------------------------
(* The dictionary. *)

Keys(c) == {c[i].key : i \in DOMAIN c}

At(c, key) == c[CHOOSE i \in DOMAIN c : c[i].key = key].wrappers

\* Assigning a key that is present replaces the value in its place.
Put(c, key, w) ==
    IF key \in Keys(c)
    THEN [i \in DOMAIN c |-> IF c[i].key = key THEN [key |-> key, wrappers |-> w] ELSE c[i]]
    ELSE Append(c, [key |-> key, wrappers |-> w])

\* Pops a key that is present.
Drop(c, key) == RemoveAt(c, CHOOSE i \in DOMAIN c : c[i].key = key)

-----------------------------------------------------------------------------
(* The purge. *)

\* Mutant: the wrappers are closed first and the keys popped afterwards.
PurgeCloseFirst(p, me, c, stale) ==
    IF stale # <<>> /\ Head(stale) \in Keys(c) THEN
        /\ cache' = c
        /\ proc' = [proc EXCEPT ![p] =
                      [me EXCEPT !.pc = "close", !.stale = Tail(stale),
                                 !.closing = At(c, Head(stale))]]
    ELSE
        /\ cache' = c
        /\ proc' = [proc EXCEPT ![p] =
                      IF me.want = "graph"
                      THEN [me EXCEPT !.pc = "use", !.stale = <<>>, !.closing = NoWrappers]
                      ELSE Idle]

\* Mutant: the request gets the wrappers it built, without another lookup.
PurgeOwn(p, me, c, stale) ==
    IF stale # <<>> /\ Head(stale) \in Keys(c) THEN
        /\ cache' = Drop(c, Head(stale))
        /\ proc' = [proc EXCEPT ![p] =
                      [me EXCEPT !.pc = "close", !.stale = Tail(stale),
                                 !.closing = At(c, Head(stale))]]
    ELSE
        /\ cache' = c
        /\ proc' = [proc EXCEPT ![p] =
                      IF me.want \in {"graph", "wrappers"}
                      THEN [me EXCEPT !.pc = "use", !.stale = <<>>, !.closing = NoWrappers]
                      ELSE Idle]

(***************************************************************************)
(* Pops the keys of stale one by one; after each pop the wrappers are      *)
(* closed, which awaits.  A key that another coroutine popped meanwhile    *)
(* raises KeyError.  At the end an administrator is done or writes the     *)
(* row, and a request uses the graph it built, or asks the cache for the   *)
(* wrappers again (KeyError if its own entry is gone).                     *)
(***************************************************************************)
Purge(p, me, c, stale) ==
    IF stale # <<>> THEN
        IF Head(stale) \in Keys(c) THEN
            /\ cache' = Drop(c, Head(stale))
            /\ proc' = [proc EXCEPT ![p] =
                          [me EXCEPT !.pc = "close", !.stale = Tail(stale),
                                     !.closing = At(c, Head(stale))]]
        ELSE
            /\ cache' = c
            /\ proc' = [proc EXCEPT ![p] = Idle]
    ELSE
        /\ cache' = c
        /\ proc' = [proc EXCEPT ![p] =
                      CASE me.want = "graph" ->
                             [me EXCEPT !.pc = "use", !.stale = <<>>, !.closing = NoWrappers]
                        [] me.want = "wrappers" /\ me.key \in Keys(c) ->
                             [me EXCEPT !.pc = "use", !.stale = <<>>, !.closing = NoWrappers,
                                        !.own = At(c, me.key)]
                        [] me.want = "write" ->
                             [me EXCEPT !.pc = "write", !.stale = <<>>, !.closing = NoWrappers]
                        [] OTHER -> Idle]

Close(p) ==
    /\ proc[p].pc = "close"
    /\ Purge(p, proc[p], cache, proc[p].stale)
    /\ UNCHANGED <<version, saver>>

-----------------------------------------------------------------------------
(* Requests. *)

\* The route reads the agent row, by the graph or by the wrappers it needs.
ReadAgent(r, want) ==
    /\ proc[r].pc = "idle"
    /\ proc' = [proc EXCEPT ![r] = [Idle EXCEPT !.pc = "lookup", !.want = want,
                                                !.key = version]]
    /\ UNCHANGED <<version, cache, saver>>

\* Mutant: any entry of the agent is a hit, whatever its updated_at.
HitAnyVersion(r) ==
    /\ proc[r].pc = "lookup"
    /\ cache # <<>>
    /\ proc' = [proc EXCEPT ![r].pc = "use", ![r].own = cache[1].wrappers]
    /\ UNCHANGED <<version, cache, saver>>

Hit(r) ==
    /\ proc[r].pc = "lookup"
    /\ proc[r].key \in Keys(cache)
    /\ proc' = [proc EXCEPT ![r].pc = "use", ![r].own = At(cache, proc[r].key)]
    /\ UNCHANGED <<version, cache, saver>>

\* Identities of lists that nothing refers to (any more).
Unused ==
    {n \in 1..MaxLists :
        /\ \A i \in DOMAIN cache : cache[i].wrappers[1] # n
        /\ \A p \in Requests \cup Admins : n \notin {proc[p].own[1], proc[p].closing[1]}}

\* The wrappers are created; then the MCP servers are probed, which awaits.
Miss(r) ==
    /\ proc[r].pc = "lookup"
    /\ proc[r].key \notin Keys(cache)
    /\ Unused # {}
    /\ proc' = [proc EXCEPT ![r].pc = "probe",
                            ![r].own = <<CHOOSE n \in Unused : TRUE, proc[r].key>>]
    /\ UNCHANGED <<version, cache, saver>>

\* get_checkpointer finds none and opens a connection.
OpenSaver(r) ==
    /\ proc[r].pc = "probe"
    /\ ~saver
    /\ proc' = [proc EXCEPT ![r].pc = "open"]
    /\ UNCHANGED <<version, cache, saver>>

\* The open connection becomes the checkpointer before its tables are set up.
SaverOpened(r) ==
    /\ proc[r].pc = "open"
    /\ saver' = TRUE
    /\ proc' = [proc EXCEPT ![r].pc = "setup"]
    /\ UNCHANGED <<version, cache>>

\* Mutant: nothing is stale, the administrators invalidate anyway.
OthersNone(c, key) == <<>>

\* With a checkpointer the graph is compiled and cached, and all other
\* entries of the agent are stale.
Others(c, key) == KeysInOrder(Drop(c, key))

Insert(r) ==
    LET c == Put(cache, proc[r].key, proc[r].own) IN
    /\ \/ proc[r].pc = "probe" /\ saver
       \/ proc[r].pc = "setup"
    /\ Purge(r, proc[r], c, Others(c, proc[r].key))
    /\ UNCHANGED <<version, saver>>

\* The checkpointer cannot be opened or set up, the graph not be compiled, or
\* the client disconnects: the coroutine ends there, also between the pop of
\* a list and its close.
RequestEnds(r) ==
    /\ proc[r].pc \in {"probe", "open", "setup", "close"}
    /\ proc' = [proc EXCEPT ![r] = Idle]
    /\ UNCHANGED <<version, cache, saver>>

\* The turn or the resume that used the graph or the wrappers is over.
Release(r) ==
    /\ proc[r].pc = "use"
    /\ proc' = [proc EXCEPT ![r] = Idle]
    /\ UNCHANGED <<version, cache, saver>>

-----------------------------------------------------------------------------
(* Administrators. *)

\* Commits the row, which gets a new updated_at.
WriteRow ==
    /\ version < MaxVersion
    /\ version' = version + 1

\* The agent, or something that it binds, is changed: the row is written, and
\* then the cache is invalidated.
UpdateFirst(a) ==
    /\ proc[a].pc = "idle"
    /\ WriteRow
    /\ proc' = [proc EXCEPT ![a] = [Idle EXCEPT !.pc = "written", !.want = "invalidate"]]
    /\ UNCHANGED <<cache, saver>>

Invalidate(a) ==
    /\ proc[a].pc = "written"
    /\ Purge(a, proc[a], cache, KeysInOrder(cache))
    /\ UNCHANGED <<version, saver>>

\* The agent is published or not any more, or something that it binds is
\* deleted: the cache is invalidated, and then the row is written.
InvalidateFirst(a) ==
    /\ proc[a].pc = "idle"
    /\ Purge(a, [Idle EXCEPT !.want = "write"], cache, KeysInOrder(cache))
    /\ UNCHANGED <<version, saver>>

Update(a) ==
    /\ proc[a].pc = "write"
    /\ WriteRow
    /\ proc' = [proc EXCEPT ![a] = Idle]
    /\ UNCHANGED <<cache, saver>>

\* The client disconnects, or the database fails.
AdminEnds(a) ==
    /\ proc[a].pc \in {"written", "close", "write"}
    /\ proc' = [proc EXCEPT ![a] = Idle]
    /\ UNCHANGED <<version, cache, saver>>

-----------------------------------------------------------------------------
RequestNext(r) ==
    \/ \E want \in {"graph", "wrappers"} : ReadAgent(r, want)
    \/ Hit(r)
    \/ Miss(r)
    \/ OpenSaver(r)
    \/ SaverOpened(r)
    \/ Insert(r)
    \/ RequestEnds(r)
    \/ Release(r)
    \/ Close(r)

AdminNext(a) ==
    \/ UpdateFirst(a)
    \/ Invalidate(a)
    \/ InvalidateFirst(a)
    \/ Update(a)
    \/ AdminEnds(a)
    \/ Close(a)

CacheNext ==
    \/ \E r \in Requests : RequestNext(r)
    \/ \E a \in Admins : AdminNext(a)

CacheSpec == CacheInit /\ [][CacheNext]_cacheVars

-----------------------------------------------------------------------------
(* Correctness. *)

\* The configuration that a request uses is the one it read: however slow a
\* build is, and whatever is written or purged meanwhile.
ServedIsRequested ==
    \A r \in Requests : proc[r].pc = "use" => proc[r].own[2] = proc[r].key

\* A list that is being closed is not in the cache any more, where the next
\* lookup would find it, and no two coroutines close the same one.  Those that
\* already hold it are not protected: a turn goes on with it, and a build that
\* awaits the close of an older list returns a graph on it.
CachedIsOpen ==
    LET closing == {p \in Requests \cup Admins : proc[p].pc = "close"} IN
    /\ \A i \in DOMAIN cache :
          \A p \in closing : cache[i].wrappers[1] # proc[p].closing[1]
    /\ \A p, q \in closing : p # q => proc[p].closing[1] # proc[q].closing[1]

\* A resume request, unlike a turn, is only ever handed wrappers that are in
\* the cache at that moment (so open, and closed by whoever pops them): those it
\* built may have been replaced, or popped and closed, while it awaited.
HandedIsCached ==
    [][\A r \in Requests :
          proc[r].pc # "use" /\ proc'[r].pc = "use" /\ proc'[r].want = "wrappers"
              => \E i \in DOMAIN cache' : cache'[i].wrappers = proc'[r].own]_cacheVars

\* At most one configuration of the agent is cached, although the purges of
\* overlapping builds and invalidations await between two pops: so no purge
\* ever finds a key gone that it was about to pop.
OneEntry ==
    /\ Len(cache) <= 1
    /\ \A p \in Requests \cup Admins : proc[p].stale = <<>>

=============================================================================
