# Verification of a2a-gateway

TLA+ models of the gateway, TLC runs that check them on small instances, and
TLAPS proofs for every instance. Paths below are relative to the repository;
`gateway/` stands for `src/a2a_gateway/`. `PROJECT.json` maps every definition
to the lines it models, names a mutation of the code that each property
catches, and lists the hazards of the code at their lines.

Running: `tlc -config <run>.cfg <module>.tla`, `tlapm <name>Proofs.tla`.

## 1. Inventory

The gateway is one asyncio process (FastAPI) in front of a PostgreSQL
database. It runs LangGraph agents that call downstream A2A agents, MCP
servers, skills and sandboxed scripts, and offers the agents to a web chat, to
A2A clients and to chat platforms. Code between two `await`s is not
interrupted; everything else interleaves, and there are hardly any locks.

| Component | State | Operations | Hard behaviour | What makes it correct |
|---|---|---|---|---|
| Input-required loop (`pending_store.py`, `tools.py`, `routes/a2a_server.py`, `routes/chat.py`, `graph.py`) | table `pending_a2a_tasks`, one row per conversation; the turn and its tool calls | `a2a_call`, `a2a_resume`, resume request, notice before a model step, check at the end of a turn, expiry, deletions | read-then-write over awaits on the network, no lock per conversation, turns that outlive their agent | answers reach the task and agent that asked, the question shown is the one stored, conversations do not mix, an agent that is gone leaves no record |
| Connector pipeline (`connectors/pipeline.py`, `routes/connectors.py`) | `_seen`, `_queues`, worker coroutines, connector row | webhook, deduplicate, enqueue, work, reply, time out, alert, update/delete | repeated deliveries, full queue, timeouts inside a turn, restart | one turn at a time per chat, in order, no event twice, none dropped silently, no chat stuck |
| Agent cache (`agent_factory.py`) | `_cache`, `_checkpointer` | get instance, get wrappers, invalidate, open the checkpointer | overlapping builds and purges, awaits between two pops | what is served is what was asked for, nobody finds clients in the cache that are being closed, none is closed twice |
| A2A client (`a2a_client.py`) | client per wrapper; flags of one call | connect, stream, fetch artifacts, retry, close | agents that differ in how they stream, failure half way, retry of what was already done | one answer from one attempt, results not lost, the call ends |
| History hook (`graph.py`) | `summary`, `summarized_count`, `active_skills` in the checkpoint | window, summarise, re-inject skills | counters over a growing list, failing summaries, cancelled turns | every message is in the summary or in the window, no orphan tool message first |
| Registry, bindings, review (`repository.py`, `routes/registry.py`, `routes/admin.py`) | registry rows, snapshots in agent rows, review status | create/update/delete/detach/refresh/review/publish/import | several transactions per request, concurrent administrators, last commit wins on JSON columns | a published agent uses approved skills and current endpoints |
| Conversations and identity (`identity.py`, `repository.py`, `routes/chat.py`) | directory rows with an owner, identity cookie | register, import, claim at login, rename, delete | check-then-insert, claim racing a request under way | nobody takes over a conversation, a claim is complete |
| Script sandbox (`sandbox/`, `sandbox_client.py`, trial and tool) | semaphore and handlers of the gate, process groups of the runner | submit, queue, forward, run, time out, kill, collect, restart | four timeouts in three processes, a wait that none of them covers, scripts that fork, callers that give up | bounded concurrency, a reported timeout is true, the slot comes back |
| Skill import and parsing (`skill_import.py`, `skills.py`, `routes/registry.py`) | a package, its skills, the counters of a commit; rows of the registry | fetch, unpack, split, preview, commit name by name | nested and repeated skills, limits written twice, a registry that changes between preview and commit | a script goes to one skill, an import can be edited, nothing is overwritten unasked |
| API keys, startup, migrations, MCP client, model access, authentication, adapters, speech, web front end, schema | rows or none | CRUD and I/O | little | not modelled, see section 7 |

How they meet: a turn (web chat, A2A request, connector message) takes its
graph from the **agent cache**, whose hook reads the **pending table** and whose
tools call the **A2A client** and write the pending table; the end of the turn
reads the pending table again. Administrators write agent rows and then
invalidate the cache (some write paths invalidate first). The **connector
pipeline** runs turns in background coroutines. **Skill import** writes skills
as an administrator would; a tool of a turn, or a trial, sends a script to the
**sandbox**, which is two processes of its own.

## 2. Modules

One module per component, with one action per handler or per stretch of code
between two awaits; `MC...` modules hold the values of constants and the
symmetry sets for TLC, `...Proofs` modules the theorems. `ChatTurns` is an
abstract specification; the definition `Turns` of `ConnectorPipeline` is its
instance under the refinement mapping. A definition whose comment starts with
"Mutant" is a bug the code does not have: `PROJECT.json` says of which
definition, and which property notices it.

| Module | Models | State and actions in the code |
|---|---|---|
| `PendingTasks` | the input-required loop | `table` is `pending_a2a_tasks` (key `thread_id`); `round` are turns (`_stream_chat`, `_rpc_stream`, `_rpc_send_message`, retries); `call` are the coroutines of `a2a_call`, `a2a_resume` and of resume requests, with the local variables they hold over awaits; `task` is what the downstream agents have; `shown` is the question a client was last asked to answer |
| `PendingTasksProofs` | its theorems | |
| `MCPendingTasks` | symmetry for TLC | |
| `ConnectorPipeline` | webhook to reply | `seen` is `_seen` in its order, `young` the same events in the order of their time stamps, `queue` is `_queues`, `worker` the coroutines of `_worker`, `busy` the tasks of `_busy_reply`; `ticket`, `turn`, `handled`, `forgotten`, `settled` are history variables |
| `ChatTurns` | what a chat is promised | `accepted`, `waiting`, `turns`: a bounded line of messages, taken one at a time in order; a restart loses what waits |
| `ConnectorPipelineProofs` | that the pipeline implements `ChatTurns`, and what the table of seen events is for | |
| `AgentCache` | `_cache` and `_checkpointer` | `cache` is the dictionary in insertion order, for one agent; `proc` the coroutines of requests and administrators with their local variables (`stale`, the list being closed) |
| `MCAgentCache` | symmetry for TLC | |
| `A2AClientStream` | one call of `stream_message_events` | `attempt` and the four flags are its local variables; `state` and `artifacts` the downstream task; `chunks`, `arrived`, `unreachable` record what the caller saw |
| `AgentRuntimeProofs` | theorems about `A2AClientStream` and `AgentCache` | |
| `SkillBindings` | skills, their review, the agents that bind them | `skill` and `agent` are the tables (`skill_ids`, `skills` of an agent row); `req` are administrative requests with what their ORM session holds: the skill (`own`), the values to write (`new`), the agents (`mine`), the lists resolved so far (`result`) |
| `SkillBindingsProofs` | its theorems | |
| `MCSkillBindings` | symmetry for TLC | |
| `TargetBindings` | endpoints and the lists of agents | `endpoint` is the registry; `agent` holds `a2a_target_ids` and `a2a_targets`; `todo` is what a request of the registry still has to do after its first commit; `behind` is history: the lists that were not resolved although what they are made of changed |
| `TargetBindingsProofs` | its theorems | |
| `MCTargetBindings` | symmetry for TLC | |
| `HistoryWindow` | checkpoints of a conversation and the hook | `head` is the newest checkpoint (`messages`, `summarized_count`, `active_skills`, the node to run next), `fork` the one a retry starts from, `bound` the skills in the order of the binding |
| `HistoryWindowProofs` | its theorems | |
| `MCHistoryWindow` | symmetry for TLC | |
| `Conversations` | the directory of conversations, identities | `row` is the table `conversations` (one row for a `thread_id`), `cookie` what each browser presents, `req` the requests with the identity they act for (`who`), the row their session loaded (`own`) and the cookie they will set (`reply`) |
| `ConversationsProofs` | its theorems | |
| `MCConversations` | symmetry for TLC | |
| `SandboxRun` | scripts from the caller to the processes | `caller` is `run_script` of `sandbox_client.py`; `gate`, `queue`, `free` the handlers and the semaphore of `gate.py`; `runner`, `procs` the handlers of `runner.py` and the process groups; `patience`, `gateLeft`, `runLeft` what is left of the timeout each waits under; `orphans`, `delayed` are history |
| `SkillImport` | packages, previews, commits | `req` is the import (its package and the skills found in it, the names still `todo`, the preview's `conflicts`, the row found for the next name, counters); `registry` the attachments of each skill, written by imports and by other administrators |
| `MCSkillImport` | the packages TLC imports | |
| `ScriptProofs` | theorems about `SkillImport` and `SandboxRun` | |

### PendingTasks

An action is the code from one await to the next, so `get` and the delete of
an expired row are two steps (`GetExpired`, then `DeleteRow`; `NoticeExpired`,
then `NoticePurge`), and so are the SELECT and the write of an upsert
(`UpsertLoad`, then `UpsertSave` or `UpsertFails`). `Merge` is what the ORM
does on the write: a column whose new value equals the loaded one stays out of
the UPDATE. A row is identified by the question that created it, which stands
for its autoincrement key: an UPDATE of a row that was deleted or replaced
fails. The foreign key makes a write for a deleted agent fail and deletes its
rows with it.

Data is abstracted to tasks and numbered questions: text, target names and
context ids follow the task. `delete_pending_a2a_task` is one step: whatever
happens between its SELECT and its DELETE is the same as one of the orders of
the steps of the model. A downstream agent keeps the id of a task it is asked to
continue, and hands out an id once (both are rules of the A2A protocol).
The failure of the store itself appears where the code reacts to it
(`GetNothing`, `EndPlain`, `AbortRound`, `AbortRpc`).

Nothing in the code keeps the turns of a conversation apart, and in the model
anything overlaps. `Orderly` names the conversations that restrict themselves: a
client that waits for the end of a turn before its next message, and a model
that calls one tool at a time. What the code promises to them, and only to
them, is stated for them; expiry, deletion, rebinding and aborts are free there
too, and the other conversations do as they like around them.

A resume request has one id, its task id: all its accesses to the table go by
`pending.thread_id`, the id it was looked up with. Its context id may be another one
(`gateway/routes/a2a_server.py:324`, `591`, `656`) and chooses nothing but the history
that question and answer are appended to. Which history grows is no part of this
module, and `HistoryWindow` (`AppendResume`) has one conversation.

### ConnectorPipeline

One connector; its chats share the deduplication table. `WebhookAccepted` and
`WebhookRejected` are the loop body of `platform_webhook` (no await inside).
`StartAgent` stands for `_process` up to `ainvoke`; a worker may time out or
fail at every await of `_process`. A
repetition moves an entry to the end of `_seen` and leaves its time stamp, so the order of
eviction (`seen`) and the order of expiry (`young`) differ; an entry that expires leaves both.
`Restart` loses everything in memory. A deleted agent takes its connector along.
A job keeps the reference it was queued with, and rebinding the connector to another agent is left out:
it makes later jobs run another agent and changes nothing about the queue.

`ChatTurns` knows a message by its rank in the chat. The mapping takes the
queue to the line (`Line`), the jobs the workers of a chat hold to the turn
(`InTurn`), and everything else (deduplication, replies, alerts, rows) to
stutters. `Begin` needs an empty turn, so a second worker for a chat, a job
taken out of order or put back after a failure would be no step of `ChatTurns`.

### AgentCache

Entries of different agents never meet, so there is one agent. Wrapper lists
have identities taken from a finite pool; one that nothing refers to can be
used again. `Purge` is the loop that pops stale keys up to the next await.
A request that is cancelled, or whose build fails, ends wherever it waits.
A turn is handed the graph it built (`gateway/agent_factory.py:99`), and it awaited the
closing of older lists since it put that into the cache (lines 95-97): an
invalidation may have closed it by then. `get_agent_wrappers` looks its list up
after the await instead (line 107), which is what `HandedIsCached` is about.
Administrators write the row and then invalidate (`UpdateFirst`, `Invalidate`: changes of the
agent or of a registry entry), or invalidate and then write (`InvalidateFirst`, `Update`:
publication, removal of an entry); these requests may overlap and break off, too.

### A2AClientStream

The downstream agent streams any mix of task snapshots, status updates,
artifacts and messages; it may put artifacts into the task without streaming
them, and the connection may fail at any point with any class of error.
An artifact stands for one with text or data: those without any yield nothing.
That a stream ends with the question or the end of its task is a rule of the protocol and not of
the code: a caller that was asked keeps `required` even if the task completes in the
same stream (`gateway/tools.py:63`). The model lets the agent go on; `overran` records
that it did, and `NotEmptyHanded` and `SuspendedTaskWaits` exempt such an attempt.
A caller that stops reading early ends the call and has no step of its own.

### SkillBindings

Every SELECT and every commit of a request is a step. Sessions are made with
`expire_on_commit=False` and a SELECT does not overwrite an object the session
still refers to, so a request acts on copies: `Seen` is the registry as its
session sees it (its own skill as loaded, the others as they are), and `Column`
leaves out of an UPDATE what does not differ from the copy. Edit, review and
import share the steps from loading the skill to committing the agents;
deletion refuses or detaches first; creating or updating an agent passes the
gate (`Gate`), is resolved and committed in separate steps. The limit on the
size of the bound texts is the action `Refuse`, which may always happen.
`Abort` ends a request anywhere and keeps what it has committed.

Publication is not a state here: the code checks the skills of an agent when they are
bound, also for drafts. An import of several skills is one of each.

### TargetBindings

One request at a time: the interleavings of load, resolve and commit are those
of `SkillBindings`, the subject here is the merge of ticked and hand-written
targets in `_merge_bindings`, and what refresh, detach and a restart make of the list.
A list is a set of targets, and where the code keeps the first of several with
one url the model keeps any. MCP servers run through the same functions with the
name as the key; `ensure_default_agent` knows A2A endpoints only.

A request of the registry commits its row and the lists of the agents in two
transactions (`gateway/routes/registry.py:114` and `116`; a deletion the other way around), so it is
two actions with `todo` in between, and `RequestDies` may take the place of the
second. Lists are then stale until a request resolves them again, and so is the list of a
default agent for which a restart ticked endpoints: `behind` names these agents.

Not stored, and so a source of surprises that no document settles: which entries are
hand-written. Unticking an endpoint without sending the list keeps its old
target as a hand-written one; a default agent with hand-written targets and no
ticks gets ticks at the next start; two endpoints with one url (only names are
unique) make that start fail.

### HistoryWindow

A turn runs the hook, the model and the tools of LangGraph's prebuilt agent
in turn, and a checkpoint is written after each. LangGraph is external: what is
modelled is that a message of the user or an answer is appended, that a step which raises
leaves the newest checkpoint as it was, and that the model node raises if a tool
call of its input has no result (`Valid`). A turn may end between any two steps (`Abort`), so
a call may stay unanswered for good; the next turns are then rejected (`Reject`) until
it has left the window. `Retry` goes on from the newest checkpoint that ends
with a message of the user. `AppendResume` adds the two messages of a resume
request. Bodies are counted, not measured: `Budget` is how many fit.
The history variable `given` is in the checkpoint because a fork takes it back.

### Conversations

A request reads its cookie when it starts (`Enter`), and a SELECT (`Load`) and
the commit that follows it (`Insert`, `Save`, `Delete`, `Claim`) are steps of
their own. An UPDATE names the changed columns and the key of the loaded row, so
`held` says whether that row is still the one of the conversation: one that was
deleted is not written, even if the conversation was registered again. Only some
routes send a new visitor its cookie (`Replying`); in the others a request
without a cookie acts for a visitor nobody will be again. Ids of visitors are
random, so each is issued once. `Forget` is a cookie that runs out.

A login that presents the cookie of another account claims nothing. Every title
of a row that is not empty stands for its text cut to the column. Whether a
*reader* may see a history is a check without state and left out.

### SandboxRun

Time is counted in ticks of 5 s, the unit of the fixed margins (caller
`timeout_s + 10`, gate `timeout_s + 5` and 5 s to connect, runner `timeout_s`
and 5 s to collect a killed process). A tick comes only when nothing is left to
do at once (`AtOnce`): reacting to an answer, to a free slot or to a deadline is
fast against 5 s. At a deadline the timeout and the event it waits for may come
in either order. The caller's clock starts with the request and runs in the queue.

A script is up to four processes: the interpreter, a child that shares its
output, one that does not, and one that shares it but has left the process group
(`setsid`). `communicate` waits for those that share the output. The kill
(`TimesOut`) reaches the group only (`sandbox/src/sandbox/runner.py:89`), so the last one
survives a timeout that was reported; one that left the group and does not share the output
either would be seen by nobody and is not modelled. They fork and end as they like. `GateRestarts` forgets handlers and semaphore while the
scripts run on (`orphans`); `RunnerStops` ends every process and breaks the
connections. A refusal for the token, the size or the form is `SubmitFails`; one of the
runner, `Refuses`. Files, output and its truncation, and the resource limits
of the operating system (a process may end at any time) are left out.

### SkillImport

`Parse` goes from the limits (`_zip_entries`) to the split into skills (`_build_groups`). A
package is a sequence of entries, and a part of it, the texts, the scripts or the roots, is the set
of positions they have there; `Rank` and `Nth` say which index a position has in the list the
code makes of that part. Roots are the directories with a `SKILL.md`, texts go to every
skill around them, scripts to the innermost (`Innermost`, as `_ordered_roots` and
the loop over it do it, with an entry that is there twice counted twice). An entry is a
record with what the code looks at: the sort of its path, whether it decodes, its size, the
name a `SKILL.md` declares. Sizes are added up by counting (`Total`). A commit parses the package again and then goes through
the names one at a time, with a SELECT and a commit each; other
administrators create, edit and delete skills of these names in between.
The review of what was imported is in `SkillBindings`.

## 3. Runs

| Run | Module, config | Checks | Bounds | Distinct states |
|---|---|---|---|---|
| `pending_mixed` | `MCPendingTasks`, `PendingTasks_mixed.cfg` | `AnswerReachesAsker`, `ShownIsStored`, `ConversationsApart`, `RowsOfLiveAgents` | 2 conversations, one of them orderly, 2 agents, 2 targets, 2 tasks with 2 questions in all (`TwoQuestions`), 1 turn, 2 calls; one agent rebound or deleted (`OneChanged`), and while one is rebound one call at a time (`ReboundAlone`) | 2,409,149 |
| `connector_chat` | `ConnectorPipeline`, `ConnectorPipeline_chat.cfg` | `TypeOK`, `HandledOnce`, `NothingDropped`, `ImplementsTurns`, `Drains` | 1 chat, 2 events delivered up to twice, queue of 2, table of 1, 1 restart, 2 workers | 259,712 |
| `cache_safety` | `MCAgentCache`, `AgentCache_safety.cfg` | `ServedIsRequested`, `CachedIsOpen`, `OneEntry`, `HandedIsCached` | 2 requests, 2 administrators, 3 versions | 3,998,319 |
| `client_call` | `A2AClientStream`, `A2AClientStream_call.cfg` | `TextOfOneAttempt`, `NotEmptyHanded`, `SuspendedTaskWaits`, `Ends` | 2 artifacts, 2 retries (the default of the code) | 8,951 |
| `sandbox_gate` | `SandboxRun`, `SandboxRun_gate.cfg` | `SlotsBoundScripts`, `TimeoutMeansKilled`, `GivesUpWhenDelayed`, `TurnComes` | 2 requests, 1 slot, scripts of 1 or 2 ticks, 1 restart of the gate or the runner | 402,269 |
| `import_batch` | `MCSkillImport`, `SkillImport_batch.cfg` | `ScriptsAtHome`, `ImportedEdits`, `OverwritesOnDemand` | 2 names, 34 packages of up to 5 entries in 4 directories, limits of 4 files, 2 bytes a file, 1 a script, 6 together, 1 redirect | 180,325 |
| `skills_serial` | `MCSkillBindings`, `SkillBindings_serial.cfg` | `ApprovedIsReviewed`, `RunsReviewedOnly`, `SnapshotsCurrent`, `NoDanglingSkill` | 2 skills, 2 contents, 2 agents, 1 request at a time | 4,355,279 |
| `skills_review` (violation) | `MCSkillBindings`, `SkillBindings_review.cfg` | `ApprovedIsReviewed` | 1 skill, 2 contents, 1 agent, 2 requests | |
| `targets_lists` | `MCTargetBindings`, `TargetBindings_lists.cfg` | `ListsFollowRegistry`, `RestartKeepsReach` | 2 endpoints, 2 urls, 2 tokens, the default agent and another | 530,551 |
| `targets_manual` (violation) | `MCTargetBindings`, `TargetBindings_manual.cfg` | `ManualKept` | the same | |
| `history_turns` | `MCHistoryWindow`, `HistoryWindow_turns.cfg` | `TypeOK`, `NoOrphanResult`, `CoveredWasGiven`, `GapIsBounded`, `LoadedSkillVisible`, `Recovers` | 8 messages, window of 3, batch of 2, 2 calls in a message, 2 skills, a budget of 1 body | 1,073,156 |
| `conversations_owners` | `MCConversations`, `Conversations_owners.cfg` | `ClaimComplete`, `OwnerKept`, `OnlyOwnersWrite` | 1 conversation, 2 browsers, 2 visitors, 1 account, 2 requests at once | 3,053,600 |

Why the bounds are enough. *Pending*: a conflict needs two writers of one row,
or a writer and a reader that deletes, which two calls are; in the conversation that is not
orderly they run beside the turn, upserts of two tasks included. Two questions are two of one
task or one each of two, a second conversation or target is a wrong place to go to. An answer
depends on the binding of one agent (`OneChanged`), and what rebinding does to two calls
that overlap is nothing an orderly conversation could see (`ReboundAlone`): the theorems have
neither bound. *Connector*: a capacity of 1 makes the second
event evict the first, four deliveries fill a queue of 2 and reject one more, one
restart separates a registration from its repetition. Chats share only the table,
and the second event of the chat plays the part of another chat there. *Cache*:
three versions let two builds and an invalidation purge three different keys; three
requests and free writes over two versions were also explored once (5.1 million states).
*Client*: the second artifact distinguishes "some" from "all". *Sandbox*: one slot
and two requests are somebody who waits behind somebody who has it; scripts of
two lengths make a caller give up before, at and after the tick at which its
turn comes; a fourth process that left the group is what the kill does not reach.
More slots and requests, other timeouts and more restarts are covered by the proofs. *Import*: the packages are
a skill within a skill, beside it, repeated, unparsable, too large, without any, and
with a script at each of these places; a commit of two names may be overtaken at
both. *Skills*: a change touches one
skill, the second is the one that must not change with it; two contents are before
and after. *Targets*: two endpoints and two urls give the endpoint that moves to the
url of another, two tokens tell a hand-written target from the registry's; the list of the default agent and
of another may both be behind.
*History*: 8 messages give two summaries with a retry between them; a window of 3 is
cut inside the results of a message with two calls; two skills exceed the budget of one.
*Conversations*: one request holds a stale row while the other deletes, registers,
claims or logs out any number of times; two visitors and an account are an owner, an
heir and a stranger (3 visitors were explored once, 7.4 million states, and the three
properties are proved for all sizes anyway).

Symmetry is declared only in runs without liveness properties (`RestartKeepsReach`,
`ManualKept`, `OwnerKept`, `OnlyOwnersWrite` and `HandedIsCached` are about single steps). The runs of
`A2AClientStream` and `ConnectorPipeline` switch the deadlock check off: a call ends, and
so do the deliveries to a connector that was deleted (`Drains` says that nothing is left then).

### What the passing runs show

- `ConversationsApart`, `RowsOfLiveAgents`: whatever overlaps, conversations never mix, although
  a task id of an A2A client is used as a conversation id, and no record of a deleted
  agent is left, although a turn of it may still try to write one.
- `AnswerReachesAsker`, `ShownIsStored`: in an orderly conversation an answer goes to the
  agent and task that asked, and the client answers the question that is stored,
  whatever happens in the conversations that are not. In those both fail (see below).
- `ImplementsTurns`, `HandledOnce`, `NothingDropped`, `Drains`: a chat is a line
  with one turn at a time, in order. `HandledOnce` holds up to what `seen_recently` had to
  forget. `NothingDropped` includes events that were refused with a busy reply.
- `ServedIsRequested`, `CachedIsOpen`, `OneEntry`: with any interleaving of builds
  and purges the cache holds at most one entry of an agent, no purge ever
  awaits with keys left to pop, and so `_cache.pop` never raises KeyError. What a lookup
  finds is not being closed. What a coroutine holds may be: a request that uses clients while an
  administrator invalidates them, and the builder described in section 2.
- `HandedIsCached`: a resume request is given clients that are in the cache at that moment, also
  when it built others and lost them while it awaited.
- `TextOfOneAttempt`, `NotEmptyHanded`, `SuspendedTaskWaits`, `Ends`: what a caller reads
  comes from one attempt, with the artifacts of a finished task if they can be read; a
  question with a text suspends a task that waits for the answer; the call ends. The second and
  third presume an agent that leaves alone a task that asked or ended.
- `SlotsBoundScripts`, `TimeoutMeansKilled`, `GivesUpWhenDelayed`, `TurnComes`: the
  timeouts are nested, so a handler leaves by its own timeout only after the runner killed
  the process group, and slots bound the groups that run; who hears of a timeout can rely on the
  group being gone, and on nothing about a process that left it;
  a caller gives up first only if it had to wait; nobody keeps a slot for good.
- `ScriptsAtHome`, `ImportedEdits`, `OverwritesOnDemand`: a script goes to the innermost skill
  around it and to no other, if no `SKILL.md` is repeated; the limits of the
  import and of the editor, written twice, agree on whatever was stored; and no
  interleaving with other administrators makes an import overwrite unasked.
- `ApprovedIsReviewed`, `RunsReviewedOnly`, `SnapshotsCurrent`, `NoDanglingSkill`: with one
  administrator at a time no unreviewed text reaches an agent, and copies are stale
  only for a skill whose request died between two commits. With a second request
  all four fail; `skills_review` is the one a document promises.
- `ListsFollowRegistry`, `RestartKeepsReach`: whatever sequence of changes
  made a list, if it was resolved since its ticks or their rows changed (the agent is not
  `behind`, nor waiting for the second commit of a request) it has every ticked
  endpoint as the registry has it and no other target of one of their urls; and a restart
  takes no address away.
- `NoOrphanResult`, `CoveredWasGiven`, `GapIsBounded`, `LoadedSkillVisible`, `Recovers`: the
  window never opens with a result, summary and window do not overlap, also after a retry from
  before a summary; what is in neither is less than a batch and the results cut off;
  a loaded skill stays visible up to the budget; a conversation with an unanswered call is
  rejected fewer than `Keep` times.
- `OwnerKept`, `OnlyOwnersWrite`, `ClaimComplete`: no overlap of requests moves a
  conversation to somebody else or lets a stranger write it, a stale copy of a row
  never undoes a claim, and what a claimed visitor still owns was inserted after
  the claim: by a request that was under way, or by one sent later by a browser that had not
  seen the response of the login.

### Where code and documents disagree

Each is a run that TLC refutes; `PROJECT.json` quotes the sentence.

- `skills_review`: an edit loads a skill that is pending, an approval is committed, and the
  edit then writes its content only: its status did not change for the ORM. The
  new content is approved, although any change is to reset the review.
- `targets_manual`: a change of an endpoint drops the hand-written targets of the
  agents that tick it; ticked and hand-written targets are to exist side by side.

Seen while modelling, without a run of its own because it takes no more than a look at
the lines, or because no document says what should happen:

- A timeout is answered and logged, but the branch (`gateway/connectors/pipeline.py:114`) calls no
  `notify_alert`, although the head of the file (line 7) and the design of 2026-09-22 say so.
  It also covers the posting of the reply: a chat may get the answer and then the
  notice that there is none. Messages queued before a connector is
  disabled still run the agent (`pipeline.py:128`).
- Two tool calls that both suspend in one conversation leave a row mixed of both, or one fails on
  the unique key (`repository.py:1256`): where the client does not wait, the answer may go to the
  agent of the other task, or to another question than the one shown.
- A purge deletes by conversation, not by record (`pending_store.py:112`): one of two requests reads the
  expired record (`GetExpired`, `NoticeExpired`), the other stores a new question (`UpsertSave`), and the first
  deletes that (`DeleteRow`, `NoticePurge`). The design of the resume tool (2026-09-18) says of a record
  nobody resumed that it is kept and not deleted by mistake (line 152), and of
  parallel requests only that the last write wins (line 154). Likewise a resume that
  ends deletes the record that a parallel `a2a_call` stored meanwhile (`tools.py:152`).
- The end of a turn reports an interrupt for a record of an earlier turn (`routes/chat.py:106`).
- A question without text is not output, so its attempt may be repeated after an error and
  complete, and the turn then suspends on a task that is finished (`tools.py:64`,
  `a2a_client.py:297`). Streamed artifacts are fetched again (`a2a_client.py:290`).
- A builder that awaits the closing of older clients may return a graph whose own were closed by
  an invalidation meanwhile (`agent_factory.py:99`).
- An administrator who dies between `routes/registry.py:114` and `116` leaves the agents with the
  endpoint as it was, until something else resolves their lists.
- The late build of an older version evicts the newer one (`agent_factory.py:94`); the
  checkpointer is shared before its tables are set up, and two first requests open two
  (`agent_factory.py:40`).
- Two overlapping administrative requests break all of `ApprovedIsReviewed`, `RunsReviewedOnly`,
  `SnapshotsCurrent` and `NoDanglingSkill`.
- An empty answer of the summary model keeps the old summary and counts the segment as covered
  (`graph.py:257`). A message that loaded a conversation without a title overwrites the
  title a rename gave in between (`repository.py:1108`).
- The wait for the semaphore is not bounded (`sandbox/src/sandbox/gate.py:69`), while
  `openwiki/operations/sandbox.md:96` says that the client's timeout covers it: a caller
  that gives up leaves a script that runs for nobody. Processes that a script leaves
  in the background outlive its normal end (`runner.py:79`), and one that calls `setsid`
  outlives the kill of its group (`runner.py:89`), though the timeout is reported.
- `_ordered_roots` promises the order of `_group_entries` (`skill_import.py:202`) and differs
  from it when a package holds a `SKILL.md` twice: a script goes to another skill, or
  the index is out of range and the import fails. One unparsable `SKILL.md` refuses
  the whole package, where `routes/registry.py:334` says that the other entries go on.
- A name that came into being after the preview is left alone by a commit without overwrite, but
  counted as updated, which line 559 of `routes/registry.py` rules out; a commit that
  fails half way leaves the skills it has overwritten, and the agents that bind them
  are not refreshed (lines 567-572).

## 4. Fairness

`ConnectorPipeline`: weak fairness of the steps of each worker. The event loop
runs every coroutine that can run, and every await of a worker ends: the
processing by `wait_for`, replies and alerts by the timeouts of their HTTP
clients. Nothing is assumed of platforms or administrators.
`A2AClientStream`: weak fairness of the call's own steps, of which the end of
the stream is one: a downstream agent closes its stream, or the HTTP client
times out. Nothing else is assumed of the agent, which may keep sending.
`SandboxRun`: weak fairness of time, of the semaphore, of a caller's timeout and of the
handlers of gate and runner for each request (`WF` of each of `Tick`, `Acquire`, `GivesUp(r)`,
`GateNext(r)`, `RunnerNext(r)`): three event loops that run what can run. Nothing is assumed of
scripts, which may go on for ever, nor of restarts; `RunnerStarts` is not fair, and
a connection to a runner that is down ends by `NotConnected`.
The other modules state safety only.

## 5. Proofs

`PendingTasksProofs`, from `PendingAssumption` and `NoneAssumption` (at least
one question per task; `None` is no value of another set):

- `TypeOKAlways`: `TypeOK` is not inductive alone, because a step uses what
  earlier steps fixed: the target of a call that waits on the network, the
  question of one that writes. `WellFormed` says what each program counter has
  established, and `TypeInv == TypeOK /\ WellFormed` is inductive.
- `RowsOfLiveAgentsAlways`: inductive given `TypeInv`; the cases are the insert
  (foreign key), the update that keeps the column `agent_id` it loaded (the row
  would have gone with the agent) and the cascade.
- `ConversationsApartAlways`: `HomeInv` adds that a question a
  call is about to write is of the conversation of the call, and that a task without
  questions has no home; so every mixture that `Merge` can produce, of what the call
  writes and what the row holds by then, is made of parts of that conversation.
- `AnswerReachesAskerAlways`, `ShownIsStoredAlways`: for any set `Orderly`, and any number of
  conversations, turns and calls. `AloneInv` says who is alone: at most one turn or resume
  request is on an orderly conversation, and a tool runs there only while its turn
  is open. `OrderlyInv` adds what this is good for, about orderly conversations only: the target of a
  row is where its task waits (`RowOK`), whoever is under way still finds the row it read, up to its age (`CallOK`), so
  `Merge` writes every column, and a question is shown only while nothing is under way (`ShownOK`).
  A new task changes no target that anybody refers to, which takes `HomeInv`.

`AgentRuntimeProofs`, from `RetriesAssumption` (`Retries \in Nat`) for the call of a client:

- `TypeOKAlways`: with the fact that a retry is only waited for while one is
  left, so attempts stay within `Retries`.
- `TextOfOneAttemptAlways`: `OneAttemptInv` ties the history to the flag: the
  attempts that yielded text are the current one if `yielded`, none otherwise.
- `NotEmptyHandedAlways`: `FlagsInv` says what each of the three flags stands
  for; a task does not change after it was seen to end, or `overran` is set.
- `SuspendedTaskWaitsAlways`: a question with a text sets the flag that forbids a retry,
  so the task that asked is the one of the last attempt.

and from `CacheAssumption` (requests are no administrators, there are a version at least
and a number of lists) for the cache:

- `CacheInvAlways`, with `CacheTypeOKAlways`, `ServedIsRequestedAlways`, `CachedIsOpenAlways` and
  `OneEntryAlways` as its conjuncts or consequences, and `HandedIsCachedAlways`, for which
  `PurgeHands` follows a purge to the lookup after it. `Tidy` says that no two entries have one key
  or one list, and that a list was built from the version of its key. `OwnInv` says what a
  coroutine holds: the version it read, and the list it builds or closes. `ApartInv` keeps
  a list that is being built out of the cache and of all other hands. A purge finds at
  most one stale key, because the cache has one entry, so no key is popped by two.

`ConnectorPipelineProofs`, from `PipelineAssumption` and `NoneAssumption`:

- `Implements`: `Spec => ImplementsTurns`, the refinement. `LineInv` is what it rests on: a
  worker has a chat exactly while it lives, its chat has a queue, and no two workers are
  of one chat. It is preserved because queue and worker are created in one
  stretch without an await, and is all that `Begin` needs. The lemmas compute
  what each step does to `Line` and `InTurn`, which are functions of the queue and the workers
  only, so the steps of rows, replies and administration are stutters at once.
- `TypeOKAlways`: `TableInv` says that `seen` and `young` are two orders of one set, without
  repetitions and within the capacity.
- `HandledOnceAlways`: `Due(e)` adds up the places of an event in the queues, a worker about
  to start on it and the runs of the agent on it so far. `DueInv` bounds the sum by the
  deliveries and, for an event that the table did not have to forget, by one if it is registered and by none
  if it is not. A queue, a worker and the history each give to the next what they lose.
- `NothingDroppedAlways`: what is registered waits in a queue, is with a worker, is being refused, or is
  settled; each step hands it on. Failures and timeouts settle what the worker held.

`ScriptProofs`, from `ImportAssumption` and `SourcesAssumption` (limits are numbers, packages are
sequences of entries) for imports:

- `ScriptsAtHomeAlways`, for packages without a repeated `SKILL.md` (`Regular`): a part of a package and its list are one thing (`RankFacts`: positions
  and ranks determine each other), in such a package the two lists of
  roots agree (`RootsAgree`), roots around one entry lie within each other (`RootsNest`), and so
  the innermost one is the one that all others are around (`InnermostIsDeepest`). That no
  *other* script is taken for this one needs that a relative path and its root tell the
  directory (`BelowTells`).
- `ImportedEditsAlways`: the attachments of a skill come from entries of their own (`FilesOrigin`), so there
  are no more of them, and no more bytes (`FewerBytes`: the bytes of a skill are
  mapped one to one to bytes of the package), than the limits of the import let through.
- `OverwritesOnDemandAlways`: `Sound` says that a row which was found is held only under overwrite;
  an `INSERT` touches a name without a row.
- `ImportInvAlways`: `Sound` also says that a request holds what its package, or its text, was parsed
  to, and that the names still to commit are among its groups.

and from `SandboxAssumption` (a slot at least, timeouts of a tick at least) for runs:

- `TypeOKAlways`, with the queue: who is in it waits, and is in it once.
- `SlotsBoundScriptsAlways`: `SlotInv` counts the handlers past the semaphore
  (`Cardinality(Holders) = Slots - free`); `Phases` says that a script that runs has
  a handler that reads, or lost it in a restart.
- `TimeoutMeansKilledAlways`, `GivesUpWhenDelayedAlways`: `Timers` says how the clocks of one
  request run together: one tick between runner and gate and one between gate and caller, unless it
  waited. So the gate's timeout cannot come before the runner killed the process group.

`SkillBindingsProofs`, from the assumptions of the module:

- `TypeOKAlways`: for any number of overlapping requests; `RequestOK` says which fields a request has
  set at each step.
- `ApprovedIsReviewedAlways`: with one request at a time (`OneAtATime`) the invariant holds. `ReviewInv` adds
  that the request about to save holds the row as it is (`HoldsRow`), and this is what a second
  request breaks in `skills_review`: the theorem's hypothesis is exactly what is missing there.
- `RunsReviewedOnlyAlways`, `NoDanglingSkillAlways`, `SnapshotsCurrentAlways`: under the same
  hypothesis. `BindInv` says of each agent that its copies are reviewed (`Vetted`) and of skills that
  exist (`Existing`), and of each skill that the copies agree with the registry (`Agrees`), or a request
  is between its two commits (`Changing`), or one broke off there (`broken`). It needs what the
  request holds (`HoldsAgents`): the agents it loaded are the rows as they are, every list it
  has resolved is what the registry says (`GoodResult`), and every agent that binds the skill
  is either resolved already or still to do, so the second commit reaches all of them.

`TargetBindingsProofs`, from the assumptions of the module:

- `ListsFollowRegistryAlways`: `ListInv` says that every list follows
  the registry for the ticks it has (`Resolve(ids, endpoint)` is part of it, nothing
  else of it has a ticked url), for the agents in `UpToDate`: not behind, and not waiting for a second
  commit. It is inductive because each of the writers ends in
  `_merge_bindings` or stores the resolved list (`ListStep`), and the second commit of a change
  reaches exactly the agents that tick the endpoint; the lemmas about `Resolve` and `Merge` carry it.
- `RestartKeepsReachAlways`: given the types, only a restart derives ticks from a list, and it leaves
  the list itself as it was.

`HistoryWindowProofs`, from `HistoryAssumption` (the window, the batch, the
budget and the calls of a message are positive numbers):

- `NoOrphanResultAlways`: the window does not matter, the history does. `Followed`
  says that every result lies within the calls of a message before it with results only
  in between; appending keeps it, and a window that starts with something else than a
  result cannot cut between the two.
- `CoveredWasGivenAlways`: `Counted` adds that the covered prefix ends `Keep` messages before
  the end. Both hold for the checkpoint a retry goes back to as well (`GoodInv`),
  which is why time travel does no harm: the count travels with the messages.
- `GapIsBoundedAlways`: `SummedUp` says that no summary is due once the hook of a turn has run.
  A message in neither summary nor window is then before the window, less than a
  batch behind the summary, or one of the results cut off, whose call is before the window (`Followed`).
- `TypeOKAlways`: `TypeInv` covers both checkpoints, which of them may be retried (`Retriable`) and
  what a node leaves behind (`Running`).
- `LoadedSkillVisibleAlways`: `Shown` says which skills the hook has injected. That the budget
  takes them in the order of the binding is a count of the skills before one, so the
  lemmas are about cardinalities of sets of positions.
- `RecoversAlways`: calls without an answer lie more than `Keep` messages apart (`Apart`), because the
  window of the turn that left the second one was free of the first. All turns rejected since the
  last success met the same open call (`Cause`), each added a message behind it, and the
  call leaves the window before there are `Keep` of them. That a set of positions has a least
  member, for which induction would be the usual way, is derived from the
  well-foundedness of the subsets of a finite set.

`ConversationsProofs`, from `IdentityAssumption` and `NoRowAssumption` (accounts are
no visitors, `None` is no value of another set):

- `OwnerKeptAlways`, `OnlyOwnersWriteAlways`, `ClaimCompleteAlways`: the owner is checked when a
  row is loaded and not again when it is written. `HeldByRight` is what is left of the
  check by then: the row still belongs to the one who loaded it, or to an account
  that claimed that visitor. It is preserved by a claim because accounts are not claimed,
  by an insert because a held row leaves no room for one, and by a deletion because
  it takes the hold of every other request.

Every safety property of a passing run is the statement of a theorem; the type invariants
of the other modules are theorems too. Only model-checked:

- liveness (`Drains`, `Ends`, `TurnComes`): the prover handles no liveness under fairness;
- the two properties that the code violates.

The models are written so that nothing has to be proved by induction over data: the
table of seen events, the skills of a binding and the parts of a package are sequences without
repetitions or sets of positions, and sums are cardinalities, where folds or selections would
define the same.

## 6. Plan

Done, in the order of importance: `PendingTasks`, `ConnectorPipeline`, `AgentCache`,
`A2AClientStream`, `SkillBindings`, `TargetBindings`, `HistoryWindow`, `Conversations`,
`SandboxRun`, `SkillImport`; `ChatTurns` and the refinement; proofs about all of them.

Left, in the order of what it would add:

1. An abstract specification of the input-required loop (a conversation has at most one open
   question) that `PendingTasks` implements in orderly conversations; `OrderlyInv` is what it would rest on.
2. `SkillBindings` composed with `AgentCache`: the order of commit and invalidation.
3. The life of an A2A wrapper: two first calls at once, a close during a call.
4. API keys and the default rows a start ensures.

## 7. Not modelled, and why

- API keys: rows of their own behind one lookup; startup: runs once, before requests.
- The bindings of models, the registry of models and the tools of MCP servers: rows an agent
  refers to without a copy of their contents, or lists that are replaced as a whole.
- MCP client, model access, speech, platform adapters, parsing and signatures: I/O without state
  that outlives a call; the outcomes are choices of the modules that call them.
- Authentication and configuration: checks of a request against settings.
- The front end, beyond the question it shows (`shown`); the schema and its migrations.
- The life of a wrapper (`_ensure_client` of two calls at once, close during a call) and
  `close_all` at shutdown, when no request runs.
- The database connection pool, the contents of files and outputs, the resource limits of the
  operating system: nothing the properties tell apart.

Six hazards of `PROJECT.json` have no property, each for the reason its note gives: the purge and the
resume that delete another record (`pending_store.py:112`, `tools.py:152`), the record of an earlier turn
that is reported at the end of this one (`routes/chat.py:106`), the timeout that may post a second reply (`connectors/pipeline.py:114`), the two checkpointers of two first
requests (`agent_factory.py:40`) and the processes that outlive a script (`runner.py:79`).
