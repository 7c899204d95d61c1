# Verification project for win-wsl-mcp-bridge

TLA+ models of the bridge, TLC configurations that check them on small
instances, and TLAPS proofs of the most important properties for every
instance. Line numbers refer to `src/bridge_runtime.py` unless another file is
named.

## The system

A host pair runs two nodes, one on Windows and one in WSL. Each node is one
asyncio process (`BridgeNode`). The nodes share one TCP connection, the *peer
link*, and each listens on a loopback socket for its own Agents. An Agent's
connector asks its node to `connect` to an MCP that is registered at the other
node; the two nodes carry the session as a *logical stream* over the link, and
the owner node starts the MCP process, one per stream or one shared by all
streams of the registration. Artifacts, input files, HTTP exchanges and control
requests use the same link.

| Component | State | Operations | Hard behaviour | What makes it correct |
|---|---|---|---|---|
| Logical streams (`StreamState`, 2757; `_serve_local_stream`, `_handle_remote_open`, `_send_stream_data`, `_consume_stream_input`, `_close_stream`) | table of streams, inbound queue, sequences in both directions, pending acknowledgement, process, tasks | open, data, data_ok, eof, close, process exit, link loss | a close from three sides at once, timeouts racing acknowledgements, a spawn that outlives its stream, two senders on one stream | chunks arrive in order, once, and before they count as acknowledged; a stream ends at both nodes |
| Peer link (`_connect_loop`, `_install_link`, `_link_heartbeat_loop`) | writer, `link_ready`, peer capabilities, last frame received | connect, accept, hello, heartbeat, loss | a half-dead peer, a new link while the old one is failed | one link at a time; its loss ends everything that used it |
| Shared backend (`SharedBackend`, 3029) | state, generation, process, start and stop futures, recovery task, restart gate, clients | attach, detach, stop, restart, crash reaping, recovery | all of these overlap; each holds the lifecycle lock only between awaits | one process at a time, bounded recovery, every client served or closed |
| Request queue and sessions (`SharedRequestQueue`, 2808; 3873–5213) | lanes per client, pending tables, initialize template, lease owner | enqueue, dispatch, answer, cancel, lease, server request, modern bootstrap | cancellation racing dispatch, a slow client blocking the reader | fairness, bounds, answers to the right client only, one lease owner |
| Operator lifecycle (`_lifecycle_*`, 10309–11458) | drain wishes, per-target locks, operation journal | status, drain, refresh, restart, stop | actions racing clients, crashes and recovery | a drain and a stop win over respawns |
| Managed HTTP backends (`ManagedHttpBackend`, 5216) | state, generation, process, demand | start with readiness, stop, drain, restart | exit between readiness and demand | a new generation only after the old exited |
| External HTTP contract (10774–11118) | none of its own | one bounded call per action, readiness poll | timeout with unknown outcome | at most one call per operation |
| Artifact delivery (6622–7105, 8274–9380) | waiters, receive states, journal of partial files | begin, ready, chunk, ack, end, commit, abort, park, resume, prune | link loss and stream close during a transfer, resume offsets, disk writes off the read loop | a committed file has the announced bytes; nothing is committed twice |
| Input staging (7107–7731) | waiters, receive states, handles per stream | stage, commit, rewrite a descriptor, refuse | the refusal racing the MCP's output | a descriptor reaches the MCP only as a staged path |
| HTTP relay (9659–10308) | outgoing exchanges, executing requests, credit | request, head, body, end, error, cancel | cancel and link loss in mid-body | every exchange ends; bodies are neither mixed nor cut silently |
| Persistent connector (`connector_core.py`, `connector_engine.py`) | session, cached handshake, pending requests, input queue | establish, relay, lose, replay, absorb, fail once, reload engine | loss at any point of a handshake or a call | no call is replayed, each request is answered, once if its books and its session agree |
| HTTP facade (`stdio_http_facade.py`) | sessions, channels, pending calls, backend processes | POST, GET, DELETE, dispatch, reap | backend exit racing a POST | each call is answered once |
| Streamable HTTP adapter (`streamable_http_stdio.py`) | remote session, in-flight requests | forward, cancel, re-initialize | session loss with several requests in flight | one re-initialize per loss |
| Reverse-era projection (`legacy_modern_stdio.py`), deferred tools (`deferred_tools.py`) | pending tables, connection-scoped views | call, cancel, reconnect | backend death in a call | no retry of a business call |
| Era shaping (`bridge_protocol.py`), archive profile (`archive_profile.py`), harness probe (`installer/harness_verification.py`) | none | pure functions | none | field by field |
| Registry (2057), journal (1567), trace and evidence workers (5826–5988), `stream_evidence.py`, `journal_*.py` | SQLite rows, bounded queues, correlators | read, record, prune, pair | drops and degradation under load | never guesses a pair, never exceeds its bounds |
| Projection (`installer/projection.py`) | outbox, mirror, fingerprints | enroll, sync, reconcile | a crash between document and database | converges, never overwrites foreign entries |
| Node supervisor (`installer/dsh_node_registry_entry.py`) | ports, child processes | start, serve, adopt, stop | several starts at once | one owner of the stack |
| Frontends and command line (11637–13639) | one socket | request, response | none beyond timeouts | — |

The components meet at few places. A stream of a shared registration is opened
by `_handle_remote_open` (which calls `attach`), and closed by `_close_stream`
(which calls `detach`); the backend closes streams by `_close_stream` when a
recovery fails. Everything that crosses the link goes through `_send_frame`,
which either writes or raises, and comes back through one read loop per node,
`_link_read_loop`, one frame at a time. Losing the link closes all streams.

`PROJECT.json` lists the hazards of this code, each at the line where it bites,
with the properties that would catch it. A hazard without a property says why.

## Modules

| Module | Models | Checked by | Proved in |
|---|---|---|---|
| `ByteChannel` | what one direction of a stream promises (abstract) | — | — |
| `LogicalStream` | one logical stream at both nodes, and the link | `stream`, `stream_live`, `stream_orphan` | `LogicalStreamProofs` |
| `SharedBackend` | one shared registration, its generations and clients | `backend`, `backend_live` | `SharedBackendProofs` |
| `SharedQueue` | the request queue: lanes, limits, round robin | `session` (composed) | `SharedSessionProofs` |
| `SharedSession` | the clients of one running generation; extends `SharedQueue` and refines its specification | `session`, `node_live` | `SharedSessionProofs` |
| `PeerLink` | connect, accept, handshake, heartbeat, loss, queries | `node`, `node_live`, `link_unread` | `PartsProofs` |
| `ManagedHttp` | one bridge-managed HTTP service and the actions on it | `node`, `node_live` | `PartsProofs` |
| `HttpRelay` | HTTP requests relayed to a service of the peer | `node`, `node_live` | `PartsProofs` |
| `Delivery` | what the publishers of one artifact are promised (abstract) | — | — |
| `ChunkedTransfer` | the transfer that `ArtifactV1` and `InputStaging` extend | — | — |
| `ArtifactV1` | artifacts/1; refines `Delivery` | `node` | `PartsProofs` |
| `ArtifactV2` | artifacts/2 with journal, parking and resume; refines `Delivery` | `node`, `node_live`, `artifact_cut` | `ArtifactProofs` |
| `InputStaging` | inputs staged for a private server, and their handles | `node` | `PartsProofs` |
| `Projection` | the registry projected into one client's file | `node`, `node_live` | `PartsProofs` |
| `Connector` | the persistent stdio connector and its recovery | `agents`, `agents_live` | `ProgramProofs` |
| `FacadeSession` | HTTP facade, legacy sessions | `agents`, `agents_live` | `AgentsProofs` |
| `FacadeModern` | HTTP facade, stateless requests | `agents`, `agents_live` | `ProgramProofs` |
| `HttpAdapter` | stdio client of a remote with sessions | `agents`, `agents_live` | `ProgramProofs` |
| `AdapterModern` | stdio client of a stateless remote | `agents`, `agents_live` | `ProgramProofs` |
| `LegacyModern` | legacy client of a modern stdio server | `agents`, `agents_live` | `ProgramProofs` |
| `DeferredTools` | the deferred tools facade | `agents`, `agents_live` | `ProgramProofs` |

`MCLogicalStream`, `MCSharedBackend` and `MCSharedSession` only give values to
constants. `MCNode` and `MCAgents` each put the smaller components of a node, and
those between an Agent and its node, side by side: a behaviour runs one of them,
named by the variable `part`, and the others stand still. So one check goes
through all, each under the faults its instance names, and a property says what
several components have in common. `NodeParts` and `AgentParts` declare what they run:
the sizes, the variables, and the instances the proofs are about. `PartsProofs` and
`ProgramProofs` prove theorems about the components that have no proof module of
their own, and `NodeProofs` and `AgentsProofs` what `MCNode` and `MCAgents` say of all
from the theorems about each (the sessions of the facade, which run in three
settings, are in `AgentsProofs`). Some components are there twice, with faults whose
product would be too large for one instance.

An operator that a comment calls faulty belongs to no specification: it is the
bug that the property named in `PROJECT.json` catches.

An action of a module is what one task does between two awaits that really
yield: a node runs one asyncio loop, so nothing else happens in between. An
`asyncio.Lock` whose section contains no yielding await (`lifecycle_lock`) needs
no variable of its own. The programs between the Agent and the node use threads:
there an action is a critical section, or what lies between two of them and the
system calls. Names of variables are those of the attributes where they have
one. `Habits` is the set of the faults and ways of the environment an instance
considers; each module lists them.

### LogicalStream

The *opener* is the node of the Agent, the *owner* that of the MCP.

| Model | Code |
|---|---|
| `wire`, `conn`, `ready`, `LinkDrop`, `LinkLost`, `LinkUp` | the connection, `link_ready`, `_install_link` and its `finally` (6298); a broken connection delivers a prefix of what was written |
| `Sends`, `SendRaises` | `_send_frame` (6332): it returns, or raises BridgeError (no link) or ConnectionError (dead connection); callers that catch only the first are modelled so |
| `Schedule`, `CloseBegin`, `CloseFinish` | `_background(_close_stream)` and `_close_stream` (9437), split at its first await; the opener's `CloseFinish` comes when the Agent has read what was written to it (`wait_closed`, 9487) |
| `PumpSend`, `PumpRefused`, `PumpAcked`, `PumpFailed`, `PumpEnd` | `_send_stream_data` (7854) in the pump of the local source |
| `TakeData`, `TakeEof`, `TakeBroken`, `AckData` | `_consume_stream_input` (8235) |
| `TakeRefused`, `RefuseSend`, `RefuseRefused`, `RefuseAcked`, `RefuseFailed` | `_consume_dedicated_input` (7733) refusing an input descriptor |
| `ClientWake` … `ClientClosed` | `_serve_local_stream` (7772) |
| `RecvOpen`, `SpawnOk`, `SpawnFails`, `ProcExit`, `ProcStopped`, `WaitDone` | `_handle_remote_open` (7947), `_start_http_stdio_compatibility` (7891), `_wait_process` (8218) |
| `RecvData`, `RecvDataOk`, `RecvEof`, `RecvClose`, `RecvOpened` | `_handle_frame` (6377) and its handlers |

A chunk is its index: the i-th chunk a node sends has value i, so lost,
repeated and reordered chunks are visible in `got`. The variables `sent`, `got`
and `dropped` are history. Left out: the content of chunks, the artifact and
evidence parts of `_close_stream`, the stderr pump, and the owner's shared route,
which is `SharedBackend`'s.

### SharedBackend

| Model | Code |
|---|---|
| `state`, `generation`, `alive` | the generation state machine (3093) and the real processes |
| `start[g]`: `Spawned`, `SpawnFails`, `InitSucceeds`, `InitFails` | the task `_start_generation` (3163) with the initialize of a replacement (3282) |
| `stopper[g]`: `StopEndsProcess`, `StopFinishes` | the task `_stop_generation` (3536) |
| `wait[g]`: `WaitWakes` … `WaitCloses`, `RecoverGivesUp`, `RecoverFinds`, `RecoverStarts` … `RecoverEnds` | the task `_wait_process` (3639) with `_recover_after_exit` (3754) |
| `sick[g]`: `TaskFails`, `StopFailed` | a protocol task that failed (3306, 3322) |
| `gate` | `restart_ready`, the negation of `restart_in_progress` |
| `att[c]`: `AttachRefused`, `AttachTries`, `AttachWakes` | `attach` (3099) |
| `Closes`, `DetachSettles`, `DetachTimesOut` | `_close_stream`, `detach` (3334) and `_cancel_client_requests` (3359) |
| `stopCall[s]`: `CallsStop`, `StopWakes` | the loop of `stop` (3420), called by a detach or the Operator |
| `op`: `OpDrains`, `OpStops` …, `OpRestarts` … | `_lifecycle_drain`, `_lifecycle_stop`, `_lifecycle_restart` (11188–11375), one at a time per registration |
| `ses[c]`, `req[c]`, `Route`, `Dispatch`, `AnswerClient`, `AnswerBridge` | as much of 3873–4465 as the life cycle decides about: which request is held at the gate, waits for the initialize, is queued, is with the process, or was lost |

`_recover_after_exit` also returns when the state is not exited: `RecoverFinds`,
when a restart that came in the back-off stops or starts a generation itself.
`RecoveryOff` is one guard for the two looks before and after the back-off: the
sleep is the time that passes before `RecoverGivesUp` or `RecoverStarts`.

Left out: what the clients of one generation do to each other (leases, eras,
several requests, cancellation), which is `SharedSession`'s; requests of the
server and artifact stages.

### SharedQueue and SharedSession

| Model | Code |
|---|---|
| `Put`, `Discard`, `Take`, `Clear` | `SharedRequestQueue` (2808): `put_nowait`, `discard`, `get`, `clear`. A lane is a set of identities, which increase, so first in first out is by identity; `ahead[c]` is the order of the `OrderedDict` |
| `cons[c]`, `held[c]`, `bootId[c]` | the task `consume_client_input` (3873) of a client and what it waits in |
| `Hello`, `HelloWakes` | the initialize of a legacy client (4036–4104) |
| `Bootstrap`, `BootEnds`, `BootTimesOut`, `WaitEnds` | `_ensure_modern_session` (4808): a modern client's call brings up the legacy session of the process, or waits for the one that does |
| `Call`, `Submit`, `LeaseBusy` | routing of a call (3937–4034), `_apply_lease_policy` (4639), `_enqueue_request` (5045–5196) |
| `Cancel`, `Eof` | `notifications/cancelled` (4557) and the end of input (3878–3921) |
| `Dispatch` | `_request_worker` (4278), one request with the process at a time |
| `Answer`, `SendOrDone`, `Acked`, `SendFails` | `_route_backend_message` (4302), split where it awaits the client's acknowledgement (4753) |
| `Close`, `DetachGoesOn`, `CleanupEnds`, `DetachTimesOut` | `detach` (3334), `_cancel_client_requests` (3359), `_cleanup_lease` (4678) |
| `Ends` | what `_stop_generation` forgets; the generation's end is the end of the model |

A legacy client may call as soon as its initialize was taken, which is all the code
looks at (4015). `Habits` are ways of the environment: a client that sends calls behind an
unanswered release, a process that is slow to initialize, one that outlasts a
detach, a client that does not acknowledge. `passed` and `answers` are history.

Left out: requests of the process to a client (4466–4556), notifications, also
`notifications/initialized`, and requests the Bridge answers alone, which
change no state.

### PeerLink

| Model | Code |
|---|---|
| `caller`, `Connect`, `Greeted`, `CallerLoses`, `CallerFailed` | `_connect_loop` (6136) and its half of `_install_link` (6179), with `_fail_link_state` (9514) |
| `handler[c]`, `installing`, `Accept`, `Greet`, `Refused`, `Loses`, `Failed` | `_accept_link` (6151) for each connection |
| `wire`, `stuffed`, `Ends`, `Dies` | the connection: closed by an end, or silently dead, perhaps with writers that wait on it |
| `query`, `Query`, `Answered`, `Expires` | `_remote_registry_query` (9611) and its like: waits for the link, asks, waits for the answer |

The heartbeat (6349) is the step `Loses` of a handler whose connection is dead.
`Failed` and `CallerFailed` come when the Agents of all streams have read what was
written to them (9526, 9487), which `AgentsRead` assumes and `FairSpec` does not.
Left out: versions and capabilities of the hello. What the loss does to streams,
transfers and relayed requests is in their modules.

### ManagedHttp

| Model | Code |
|---|---|
| `state`, `gen`, `alive`, `watched`, `drain` | `ManagedHttpBackend` (5216), the real processes, the wait task, `drain_requested` |
| `startTask`: `Spawn`, `Passes`, `BecomesReady`, `StartFails` | `_start_generation` (5356), with the readiness gate |
| `stopTask`: `Asks`, `Stops` | `_stop_generation` (5542), `_terminate_tree` (5620) |
| `Exits`, `Notices` | the process exits on its own; `_wait_process` (5489) |
| `Demand`, `DemandWaited`, `Served` | `_http_backend_demand_ready` (10508) and the request that is served |
| `Operate`, `Drained`, `OpStops`, `OpStopped`, `OpStarts`, `OpStarted` | `_lifecycle_managed_http_action` (10537), confirmed actions, one at a time (target lock 10309) |
| `LinkLost`, `Down`, `NodeStops`, `NodeStopped` | the stop on the loss of the link (9530, 9547) |

### HttpRelay

| Model | Code |
|---|---|
| `client[r]`, `head[r]`, `body[r]`: `Ask`, `GetsHead`, `GetsError`, `HeadLate`, `Writes`, `Ends`, `Breaks` | the consumer: `_relay_dispatch_request` (9803) |
| `owner[r]`: `Arrives`, `Cancelled`, `OwnerAsks`, `OwnerHead`, `OwnerBody`, `OwnerEnds`, `OwnerFails` | `_handle_relay_request` (9958), `_handle_relay_cancel` (10027), `_relay_execute` (10042) |
| `FrameArrives` | the relay frames at the consumer (9902–9957) |
| `LinkLost`, `Reconnect` | `_fail_relay_state` (9535) |

A response is a head and a few pieces, without a body, or an event stream that
never ends. A body delimited by the close of the connection (10220–10229) is left
out: it ends cleanly whenever the service closes, so nobody can tell that it was
cut. Heads and chunk sizes are not parsed; parsing that fails is `OwnerFails`.

### ChunkedTransfer, ArtifactV1, InputStaging

| Model | Code |
|---|---|
| `send[t]`, `sent[t]`: `Start`, `Reply`, `TimesOut` | `_send_artifact_snapshot` (7020); `_send_input_snapshot` (7172) is a copy of it |
| `recv[t]`: `Begin`, `Chunk`, `End`, `Cancel` | `_handle_artifact_begin` … (8957–9107); `_handle_input_begin` … (7331–7483) |
| `Get`, `Write`, `Sync`, `Commit`, `Linked`/`Minted` | the worker `_receive_artifact` (9207), `_commit_artifact_no_overwrite` (9342); `_receive_input` (7485) |
| `Abort`, `Close`, `StreamGone`, `StageRemoved` | `_abort_received_artifact` (9315), `_close_stream` (9467–9502) |
| `Use`, `Rewrite` | a call with a handle, `_rewrite_input_descriptor_line` (7644) |

### ArtifactV2

| Model | Code |
|---|---|
| `pub[p]`, `known`: `Publish`, `Reply`, `TimesOut`, `Interrupted`, `Again`, `StopsRetrying` | `_publish_local_artifact` (6671), `_send_artifact_snapshot_v2` (6889) with the attempt and its repetition (6784), `publish_resume_tokens` |
| `begin[p]`: `Begin`, `BeginPrunes`, `BeginPrepares` | the task `_handle_artifact_begin_v2` (8364) between its journal calls |
| `rec[p]`: `Seed`, `Get`, `Write`, `Ack`, `Sync`, `Commit`, `Unlink`, `Linked`, `Mark` | the worker `_receive_artifact_v2` (8815), with `_commit_artifact_v2_file` (8757) in the two steps `os.link` and `unlink` |
| `twin`, `Alters`, `Removes` | between the two the partial and the final name are one inode: what is done to the bytes of one is done to the other's |
| `Chunk`, `End`, `Cancel`, `Close`, `Abort` | the frames and `_abort_artifact_v2` (8682) |
| `ParkStarts`, `ParkTruncates`, `ParkRecords` | `_park_artifact_v2` (8640) |
| `file`, `final`, `journal`, `old`, `Restart` | partial files, the final name, the receipts in SQLite, those past the retention; a killed node starts again (6001) |

Chunk i is written as i and a hole as 0, so a file that is torn, shifted or
mixed is visible. One digest and one name; each publish has its own stream. A kill
between `Commit` and `Unlink` is the habit `"cuts"`. On Windows `os.rename` does both
at once, so there the habit does not exist.

### Projection

| Model | Code |
|---|---|
| `registry`, `mirror`, `Sync` | the peer's registry, and `projection_sync_peer` (2794) |
| `pc[p]`, `snap[p]`: `ReadRows`, `ReadFile`, `ReadStored`, `ReadPrevious`, `Replace`, `Commit` | one command in `_reconcile_one_environment` (3736) and `_adapter_apply_file` (2612): what it read, when, and the replacement of the file before the commit of the fingerprints |
| `Adds`, `Updates`, `Keeps`, `Obsolete`, `Removed`, `Drifted` | its decisions per name (3839–3942) |
| `Enroll`, `Stop`, `Unenroll`, `Unenrolled` | `projection_enroll` (3021), `projection_unenroll` (3378) |
| `Crash`, `Edit` | a command is killed between any two steps; the user edits the file |

### Connector

| Model | Code |
|---|---|
| `writer`: `Take`, `Route`, `Queue`, `Send`, `Look`, `Notes`, `StdinEnds` | `_stdin_loop` (584), `_publish_agent_line` (464), cut where it takes or gives up a lock: the look at socket and mark, the send, the second look, the entry in the books |
| `reader[s]`: `Absorbs`, `Reads`, `Ends`, `EndsQuietly`, `Loses` | `_session_loop` (500), `_handle_node_line` (542), `_on_session_lost` (565) in its two parts; the thread of each session, also of one that is in use no more |
| `main`: `Opens`, `Waits`, `DrainSends`, `DrainNotes`, `Drained`, `GoesUp`, `Fails`, `Reconnects`, `Exits` | `run` (688), `_establish` (611) |
| `engine`: `Finds`, `Adopts`, `Hands` | `_maybe_reload_engine` (395) from its look at the books to the new `Recovery`, and `_close_current` (759) |
| `pending`, `uncertain`, `failed`, `FailOnce` | `Recovery` in `connector_engine.py` (149–362) |

A session may be lost at any point of any thread, and nothing is left out of the
orders in which the threads meet. A request goes *astray* when its books and its
session disagree; `astray` says which, and each place that adds to it names a way:

- it is entered in the books when its answer was already read, or when the loss of
  its session was already dealt with or will not be reported (`Strays`);
- its answer comes before that of the replayed handshake, and is written to the
  Agent without being crossed off (`Absorbs`);
- it is failed when another session is lost, its own being read on (`Loses`);
- its session is given up without a report (`EndsQuietly`, `Hands`), or its entry is
  in the books of the engine that was replaced (`Adopts`);
- a handshake is queued when the queue has been drained (`Queue`).

`reached`, `answered`, `told`, `errors` and `astray` are history. A `sendall` that times
out in the middle of a line, and a line too long to be taken, are left out.

### FacadeSession and FacadeModern (`stdio_http_facade.py`)

| Model | Code |
|---|---|
| `pc[a]`: `Create`, `Spawn`, `Post`, `Register`, `Attach`, `Send`, `Written`, `Reply`, `TimesOut` | one thread per POST (925–1138), an initialize included |
| `Open`, `Stream`, `StreamGivesUp` | GET (1141) and the event stream (866) |
| `inbound`, `disp`, `DispatchAnswer`, `DispatchRequest`, `DispatchExit`, `Offer`, `Refuse` | the dispatcher of a session (540–627) |
| `Delete`, `Reap`, `Stop`, `Closes` | DELETE (1161), the reaper (764), `Session.close` (657) |
| `Accept`, `CreateProxy`, `Receive`, `GiveUp`, `Kill`, `Report` | a stateless POST and its proxy (1242–1850) |
| `WriterTakes`, `WriterWrites`, `started`, `reached` | the writer thread of a proxy (1303–1322): the flag it sets before it writes, and whether bytes really were written (history) |

### HttpAdapter and AdapterModern (`streamable_http_stdio.py`)

| Model | Code |
|---|---|
| `Begin`, `Served`, `Failed`, `SessionGone`, `Compare`, `Clear`, `Reinitialize`, `Probe`, `Adopt`, `Abandon`, `Retry` | `post` (564), `_recover_session_loss` (550), `reinitialize_session` (515), each step under the lock it is under |
| `Lose`, `live`, `executed` | a remote that forgets sessions |
| `Stream`, `End`, `EndDelete` | the GET loop (760), `terminate_session` (803) |
| `token`, `CancelToken`, `Send`, `SendBody`, `Emit`, `Silence`, `Raise`, `Report` | `_ModernPending` (1052) and the pool thread that consults it (1282–1515) |
| `Handle`, `Cancel`, `Shutdown`, `Joined`, `TimesOut` | the reader thread, the timer and the end |

### LegacyModern (`legacy_modern_stdio.py`) and DeferredTools (`deferred_tools.py`)

| Model | Code |
|---|---|
| `ReadRequest`, `ReadCancel`, `LookInFlight`, `Hits`, `Forward`, `Mark` | the reader thread; `_handle_cancelled` (944) finds a request queued, taken or written, under two locks |
| `Pop`, `Start`, `Enter`, `Check`, `Write`, `Wrote`, `Await`, `Leave` | the main thread and one exchange (1009–1285) |
| `Ask`, `Cancel`, `CancelPending` | the input thread of the deferred tools facade (832, 445, 287) |
| `Dial`, `Begin`, `Send`, `Look`, `Page`, `Adopt`, `Expand`, `Collapse`, `Returned` | the serving thread: connection on demand, the catalog page by page with its epoch, the call |
| `Drop`, `Tidy`, `ReceiveAnswer`, `ReceiveChange`, `Invalidate` | the connection's reader thread |

## Runs

| Run | Question | Bounds | Result |
|---|---|---|---|
| `stream` | is the stream a pair of reliable channels while it lasts? | one chunk towards the owner, two towards the Agent (the second reuses every part of the stop-and-wait machinery), one re-established link, an inbound queue of one, all three routes | pass, 1.4 million states |
| `stream_live` | does it end? | one chunk towards the Agent, one re-established link, the two routes without staging | pass |
| `stream_orphan` | does closing a stream stop its process? | as `stream_live`, no second link | violated, see below |
| `backend` | safety of the life cycle | two interchangeable clients, three generations, one recovery attempt, two requests, at most two crashes and two disturbances together (crashes, Operator actions, rare faults), and one more restart while a crash is recovered from | pass, 2.1 million states |
| `backend_live` | does every client and every attach call end well after a crash? | four generations, two attempts, one crash, the Operator may drain | pass |
| `session` | does the session of a generation answer each call once, within its bounds, and honour the lease? does it implement the queue? | one legacy and one modern client, three calls, lanes of two, three queued requests in all, sizes of one and two bytes with lanes of three, slow or stubborn process, an acknowledgement that times out | pass, 337 thousand states |
| `node` | is nothing torn, doubled or overwritten by the other components of a node? | files of two chunks published twice, one break, one kill of the receiver, or timeouts and expired receipts; two transfers of artifacts/1, two inputs of one name; two relayed requests for one place; two connections, three deaths, two queries; two demands, one action, one crash, five generations; one name, two changes of the registry, two edits, two commands, one crash | pass, 559 thousand states |
| `node_live` | does everything begun there come to an end? | one of each: a publish, a relayed request, a demand and an action, the link with three deaths, the projection without crashes, and a session of two clients with two calls and a Bridge lane of one | pass |
| `link_unread` | does the survivor of a silent death let go of the link? | two connections, one death, no queries | violated, see below |
| `artifact_cut` | is the final file whole when a kill may fall between link and unlink? | two chunks, two publishes, one kill | violated, see below |
| `agents` | is a client told the truth, once, by the programs between it and the node? | one call and the handshake over two sessions, each lost at any point; one facade session with two POSTs and a stream; two stateless POSTs for one place; one call and one notification over three remote sessions, with a remote that forgets and with exchanges that fail; two requests at once; a queue of one; a catalog of two pages that changes, two connections | pass, 2.9 million states |
| `agents_live` | is every request answered there? | the same with one request each and one session of the connector, without a process that outlives its kill, a backend that stalls and cancellations of deferred tools | pass, 122 thousand states |

Two more configurations pass and are beside the runs for their time:
`ConnectorLive.cfg` (module `Connector`; `EachAnswered` over two sessions, 1.6 million
states) and `ArtifactV2Told.cfg` (module `ArtifactV2`; `ToldIsWhole` with kills between
the link and the unlink of a commit, three publishes, two kills or breaks, 2.0 million
states).

Two clients are enough for every property here: each one is about one client
or about two that compete. Three generations cover a start, its replacement and
the replacement's replacement, after which the control state repeats. With two
disturbances every pair of them interleaves (a crash in a restart, a crash in a
recovery, a stop or a drain in a recovery), and `MaxRestarts` lets a restart meet
a recovery that a restart and a crash already met. An inbound queue of one is the
tightest bound: with the code's bound of 32 a queue can only be less full. Three
calls fill a lane and leave one in the other, so that every limit refuses
something and lanes empty, return and overtake; four calls let a released lease
be taken twice. The Bridge's lane of two or one (four in the code) lets a cleanup
meet a full lane. Two chunks are the fewest that distinguish a prefix from a
file; a second publish meets what the first one left (a parked receive, a token,
a committed file), and a third what a cut commit and a refused one left. Two sessions
of the connector let an old reader, an old mark and an old entry meet a newer session
(27 million states with three give the same). A third session of the adapter is the
first one that follows a repeated loss. `InboundLimit`, `MaxAttempts`, the six
limits of `SharedQueue`, `MaxInflight`, `MaxSessions` of the facade, `MaxQueue` and
`QueueSize` are bounds of the code; all others stop the environment.

`CHECK_DEADLOCK FALSE` everywhere: streams and backends end, and the counters
of the bounds stop the environment.

### Properties

`LogicalStream`

- `AckedIsDelivered`, `ImplementsChannels`: each direction refines `ByteChannel`;
  an acknowledgement means the receiver wrote the chunk, and at most one chunk
  is written and not acknowledged.
- `SettledMeansDelivered`: while the stream is usable and nothing is pending,
  everything handed over was written at the other end, so neither EOF nor close
  overtakes data.
- `NoFalseFault`: two nodes that run this code never close a stream on each other
  for a wrong sequence or a full queue.
- `GraceEndsStream`, `NoHalfOpenStream`, `LinkLossEndsStreams`: a stream ends in
  the cases where it must, at both nodes, while the Agents read (`AgentsRead`);
  `GraceIsBounded` is the documented form without that, which does not hold.

`SharedBackend`

- `NoGenerationOverlap`, `RecoveryIsSole`: one process, one recovery, and whatever
  restarts, attach calls and further crashes do beside it, somebody is left to
  open a gate that was shut.
- `ClientsFit`, `DrainedNeverStarts`: what an attach call or a recovery checked
  before it waited is still true when it acts: the stream is open, a registration
  for one client has one, a drained one starts nothing.
- `NoRequestForgotten`, `CrashSettles`, `AttachSettles`: after a crash no call is
  lost silently, every client is served or closed, every attach call ends.

`SharedQueue` and `SharedSession`

- `QueueBounded`, `BytesAccounted`, `NoOvertaking`: no order of puts, discards and
  gets exceeds a limit or lets a counter drift, and while a client waits no other
  is served twice.
- `QueueSpec`: whatever the session does to the queue is one of the queue's
  operations, so what is proved of the queue holds in the composition.
- `TablesAgree`, `OneAnswer`: queue, pending table and worker agree, and each
  queued request of an attached client is answered exactly once.
- `LeaseKept`: the process works on a leased call for the owner only
  (`LeaseHonoured`), and no lease is left without somebody who will release it
  (`LeaseIsWatched`).
- `AnswersFirst`: after the end of input the stream is closed only when no call is
  pending.
- `WaitingIsServed`, `WorkerFrees`, `SessionSettles`, `LeaseSettles` (in `WorkEnds`):
  no client, no bootstrap and no lease is stuck for good.

`MCNode`

- `Delivers`: artifacts/2 and each transfer of artifacts/1 refine `Delivery`: a
  file appears whole or not at all, is never overwritten, and success is reported
  only while it is there. `NothingTorn`: a parked transfer has on disk what it
  acknowledged; a handle names the file that was staged for it; a relayed
  response that looks complete is.
- `OneAtATime`: the acceptor has one link and nobody waits for an answer over one
  that is gone; a managed service has one live generation, none that its state
  machine takes for gone, and none that a stop or restart reported as applied
  left alive.
- `KeepsTheUsersOwn`: no command changes an entry the user made or changed, also
  across a crash; after an unenroll nothing of the bridge is left in the file.
- `WorkEnds`, `Converges`: all of it ends, the nodes are linked again however a
  connection ended (while Agents read), and the watch brings the file to what the registry says.

`MCAgents`

- `SafeMeansUnsent`: whoever is told that a call may be sent again is told the
  truth, now and later.
- `OnceAnswered`: a request gets one answer, and its own, also when ids repeat; one of
  the connector gets a second only if it went astray (`AnsweredTwiceIsAstray`).
- `NeverReplayed`: the connector sends no call twice, and none it has failed; the
  adapter gives up no session that the remote still knows and opens none beside it.
- `NothingLeaks`: places in flight return, a closed session has no process, and
  there are never more subprocesses than places.
- `CatalogIsCurrent`: tools are shown and called from the newest catalog of the
  connection in use.
- `CancelIsRespected`: no result after a cancellation that was taken, and a
  cancellation strikes no other request.
- `EachRequestEnds`: every request is answered; one of the connector while the Agent
  keeps its end open, and unless it went astray (`EachAnswered`).

### What the documents say and the code does not do

- `stream_orphan` (`ClosedStreamStopsProcess`): a close that arrives while the
  process is being spawned finds nothing to terminate. The handler goes on when
  the spawn returns, starts the tasks of a stream that is no longer in the table,
  and the process runs on. `docs/ARCHITECTURE.md:700-701` says that closing the
  stream stops it.
- `link_unread` (`SurvivorLetsGo`): `_fail_link_state` closes the streams one after the
  other (9526) and so waits for each Agent; `link_installing` is set meanwhile, and
  every handshake is refused. `CHANGELOG.md:12-14` says that this state is no more.
- `artifact_cut` (`CommittedWhole`): a receiver killed between `os.link` (8784) and `unlink`
  (8786) leaves the committed file and a partial with a receipt as one inode. The
  next begin truncates the partial to what was acknowledged (8498), and with it the
  file; its own commit is refused, since the file has two names (8769). The docstring
  (8758) says "Atomically". No publisher was told of success then, nor is one
  while the file is torn: `ToldIsWhole` holds (`ArtifactV2Told.cfg`).

### Known not to hold

Where a configuration or a habit is named, the property is in the module and TLC
finds it violated. The habit is left out of the passing instances; that is the
assumption under which they pass.

Of `LogicalStream` and the shared backends:

- `RefusalAnswered` (`LogicalStreamRefusal.cfg`): the error response to a refused
  descriptor is dropped when the stdout pump waits for an acknowledgement;
  `docs/ARCHITECTURE.md:512-514` promises the error response.
- `GraceIsBounded` (`LogicalStreamUnread.cfg`): when the grace is over `_close_stream`
  closes the Agent's socket and waits, without a timeout, until what is buffered has
  been read (9487); only then is the peer told (9508–9512). An Agent that sends its EOF and reads
  no more keeps the remote process. `docs/ARCHITECTURE.md:132-134` calls the five
  seconds a bound.
- `CrashSettles` with two crashes (`SharedBackendCrashes.cfg`): the recovery announces its
  replacement before it clears `recovery_task`. A crash in that window is taken
  for a nested failure, nobody recovers it, and the gate opens over an exited
  backend. `docs/ARCHITECTURE.md:685-693` says held clients are served again or
  closed.
- `LeaseExclusive` (`SharedSessionLease.cfg`, two clients that pipeline): the owner's
  check is made when a call is queued, not when it is dispatched. A client that sends a leased call behind a
  release it has not seen answered has it queued as the owner; the release clears
  the lease, another client takes it, and the process still gets the first
  client's call.
  `docs/ARCHITECTURE.md:621` says that the first call owns the lease and another
  client is refused. `LeaseHonoured`, the stronger form, holds for clients that
  wait.
- `StopWins` (`SharedBackendStop.cfg`): a stop during the back-off of a recovery
  does nothing, since the state is exited then, and the recovery respawns; the
  comment at 3780–3781 says a stop wins.
- With the faults `brokenPipe` (3322) and `garbage`, `NoRequestForgotten` fails: a
  generation stopped as failed forgets its calls. So it does with the Operator's stop,
  when a client attaches after the streams to close were listed (a stop ends the
  generation and not the stream), and with a restart whose replacement does not start,
  when an attach call then starts one.
- With the fault `sendRaises` (3687), `CrashSettles` fails: the wait task dies in
  `_send_backend_lost_error`, the state stays `stopping`, the gate shut.
- An attach call that is refused after it started a generation (3154) leaves the
  generation running without a client.
- When sending `open` fails (7794), the registered stream stays until the link is
  lost.

The liveness runs leave the three faults out; the safety run has them all.

Of the connector (all with one call, the handshake and two sessions):

- `AnsweredOnce` (`ConnectorTwice.cfg`): a call is entered in the books after it was sent
  (`connector_core.py:474`). If its answer is read in between, the entry stays, and the
  next loss fails the call as well, against `connector_core.py:476-477` and
  `connector_engine.py:233-234`. A stale reader does the same to the calls of the session
  in use (`connector_core.py:569-579`).
- `HandshakeFirst` (`ConnectorEarly.cfg`): a loss between the look at `_lost`
  (`connector_core.py:651`) and the mark (681) leaves the mark set; the next session has
  its socket before the replayed handshake is answered (630), and a call is sent in
  it, against `docs/ARCHITECTURE.md:214-217`.
- `EachCallEnds` (`ConnectorForgets.cfg`): a call whose session is lost between its send and
  its entry in the books is entered when the loss has been dealt with. With the next
  session up nobody answers it, against `docs/ARCHITECTURE.md:211-214`.

Of the peer link, transfers, relay and managed services:

- `PeerLink!LinkComesBack` without `AgentsRead` (see `link_unread`). With `early`: a
  connection that goes dead before the handshake is over is held without a timer. With
  `stuffed`: the watchdog closes the transport, which waits for what is still to be
  written. `CHANGELOG.md:9-16` promises that a silent peer cannot block later handshakes.
- `InputStaging!HandlesHold` with `together`: two inputs of one name staged at once.
- `ArtifactV2!ParkedResumable`: a receive parked with a chunk accepted and not
  acknowledged has a receipt whose chunk count is one beyond its offset. With
  `overlap` `CommittedWhole` fails: a second publish while the first receive is
  live shares its token and its partial file. The pruning (8329) and the mark of a
  commit can unlink a partial file that is written to.
- `ManagedHttp!ReadyMeansLive` with `lateExit`: a process that exits after it has
  answered the probe and before the state is `ready` is noticed by a wait task that
  leaves it to the start; the state is `ready` for a process that is gone and
  nobody watches. `DrainLetsFinish`: a demand that waits for the start is
  served after the drain found no request in flight, and the stop cuts it; with
  `graceEnds` the stop cuts what outlasts the grace, as intended.
  `AppliedMeansGone` with `linkLost`: a stop during `stopping`, which the node
  itself began, returns at once and is reported as applied while the process lives.
- `HttpRelay!RelayReleases` with `resets`: an Agent that resets its connection at
  the first write leaves the owner's task of an endless response running.
- `Projection!KeepsTheUsersOwn` with `races`, `RemovedIsClean` with `races` or
  `overlaps`: nothing locks the file between reading and replacing it (the
  docstring of `_atomic_replace_bytes`, `installer/projection.py:199`, says
  "Locked"). `Converges` fails with these habits, with `keeps` and after a crash
  between file and database: an entry whose fingerprint is missing or matches neither
  side is taken for the user's own and is neither repaired nor removed. So an entry
  written just before the crash, whose registration then goes away, stays in the file
  for good, against `docs/VERIFICATION.md:291-292`.

Of the programs between Agent and node:

- `Connector`: besides the three runs above, whatever goes astray (see its table) may be
  answered twice or not at all.
- `FacadeSession!BackendNeverHangs` with `asks`: a request of the backend that no
  stream takes is never answered when its refusal cannot be queued
  (`stdio_http_facade.py:587-590`).
- `HttpAdapter!NothingLeftOpen` with `ends`: after the client's EOF the GET stream
  meets the 404 of the session that was just deleted and initializes a new one,
  which nobody deletes.
- `LegacyModern!MarkedIsNeverSent` with `stalls` and `late`, `CancelHitsItsOwn` when
  an id is used again; `DeferredTools!CancelHitsItsOwn` with `cancels`: the request
  that was in flight when the cancellation was read is over when it is forwarded.
- `AdapterModern!CancelledIsSilent`: an error may still be reported after a
  cancellation (a result may not, which is proved).

Met while the modules were written, and visible in their actions:

- artifacts/2: the repetition within one publish always finds the link gone or a
  token that is not parked yet; a flush of a closed handle while parking raises
  ValueError out of `_fail_link_state`; the same descriptor twice in one call is
  refused as ambiguous.
- The relay treats a 1xx response as final, keeps an unbounded queue of body
  pieces, and has the sense of `exc.close` reversed for `keep`.
- The future of a query whose send fails stays in `pending_registry` (9631); a
  sender that waits for the write lock when the link is lost meets the assertion
  in `_send_frame`.
- A managed service: an over-long header in the probe's answer (ValueError) leaves
  the state `starting` for good.
- The connector fails requests that were queued when the session was lost, where
  `docs/ARCHITECTURE.md:214-217` says they are delivered later; it retries a
  refused first open, where `:251-253` and `:904` call that fatal; an initialize
  sent while the node is absent reaches the session twice.
- The facade: a message too long for the backend keeps its place for good; a
  stream that gives up keeps its place until the backend answers or exits; a
  session that is being started at shutdown leaves its process; a full queue
  makes `put_nowait` raise in `_on_backend_exit`, which ends the dispatcher; a
  backend that stops reading blocks `close` behind the write lock; an SSE request
  is not answered when its session is deleted; a start that fails leaves an empty
  session until it is reaped.
- The adapters: no `notifications/initialized` after a re-initialize; the GET loop
  never opens for a server without session ids; the pool may reorder
  notifications; a request that reuses a cancelled id is dropped while the old
  worker finishes.
- The legacy projection never retries a failed launch, though
  `legacy_modern_stdio.py:566-569` says a later initialize may; the look at `poll`
  hides an answer that is already in the pipe.
- The projection: when applying a new file fails, the file stays; the database is
  locked while later environments' files are written.

Met while `SharedSession` was written, and visible in its actions:

- A bootstrap that times out resets `initialize_pending` (4838) while its
  initialize is still queued or active: a second one can be sent, and its answer
  replaces the template.
- A legacy initialize that is refused because the Bridge's lane is full leaves
  `initialize_pending` set; later clients wait for an initialize nobody sent.
- A confirmed lease cleanup stops the generation when another client takes the
  lease before the detach resumes (4700).
- An active request that was cancelled and is never answered keeps the dispatcher.
- The acknowledgement timeout of one client (a `TimeoutError`, not a
  `BridgeError`) stops the generation for all.
- The last answer may still be on its way when the end of input closes the stream:
  `AnswersFirst` speaks of what is pending.

## Fairness

`LogicalStream!FairSpec`: weak fairness for the tasks of the two loops, for the
timeouts (30 s acknowledgement, 10 s open, 5 s grace), for a spawn to return, a
terminated process to end (it is killed after 5 s), frames that arrived to be
handled, and a dead connection to be noticed (EOF or the heartbeat watchdog,
6349). Nothing is assumed of the MCP process, of its pipes (the drain in `AckData`) or
of the link coming back; of the Agent only that its socket takes the one line of
`ClientOpened`, which fits any buffer. That it reads what is written to it, which the
opener's close waits for without a timeout, is not in `FairSpec`: the three liveness
properties state it as their hypothesis `AgentsRead`, and `GraceIsBounded` shows what
happens without.

`SharedBackend!FairSpec`: the same for the tasks of a generation, attach calls,
stop calls and the settling of a detached client's request (answered or given up
after five seconds). The Operator, the clients, the answers of the process and
crashes are not fair; the runs bound the number of crashes, which is the
assumption that a client is not kept waiting by crashes for ever. The code's
bound on attempts is in the model.

`SharedSession!FairSpec`: one weak fairness condition over all steps that go on
without the clients (the node's tasks, a close the node decided on, the answer
of the process, the acknowledgement or its timeout), while the generation is
up. As the clients' steps are bounded, no task is passed over for ever. That the
process answers is an assumption: a process that never answers blocks its queue
by design. Nothing is assumed of the clients.

The other modules assume weak fairness of the same kinds of steps, and `MCNode`
and `MCAgents` assume it of the component that runs:

- `PeerLink`: handlers and the connect loop go on, the initiator dials again, ends
  of files arrive, heartbeats fire. That a query ends is not assumed. That the failing
  of a link's state ends depends on the Agents (`AgentsRead`), is a hypothesis of
  `LinkComesBack`, and is not assumed in `link_unread`.
- `ArtifactV1`, `ArtifactV2`: tasks go on and frames of an unbroken link arrive. That the
  receiver is through with a lost link (`ParkStarts`, `ReceiverDown`) again assumes that
  the Agents of its streams read.
  Timeouts, clients, restarts and the coming back of the link owe nothing.
- `HttpRelay`: frames arrive, and the tasks at both ends go on. `OwnerBody` and its
  like are steps of the task: the service answers, ends, breaks off or, for an
  endless response, gives signs of life. So it is assumed not to fall silent for
  good; its own timeout (slow) is then not needed.
- `ManagedHttp`: the tasks, a spawn, the gate and a terminated process come to an
  end, as their timers enforce. Requests being served end.
- `Projection`: commands that run go on, and the watch runs again and again.
- `Connector`: threads go on and the node answers what it received in a session
  that stays open. The node need not be there or stay.
- `FacadeSession`, `FacadeModern`: threads go on, and waits meet their deadlines.
  Nothing is assumed of the backend, nor of a client reading its stream.
- `HttpAdapter`: exchanges end, well or badly, by the socket's timeout.
- `AdapterModern`, `LegacyModern`, `DeferredTools`: threads go on, and waits end
  with an answer or their deadline. A backend that neither reads nor dies
  (`stalls`) is left out of the liveness of `LegacyModern`.

## Proofs

All proofs are checked by TLAPS without assumptions other than the named ones
on the constants (`ConstantsAssumption`, `QueueAssumption`,
`SessionAssumption`, `ArtifactAssumption`, `NodeAssumption`, `AgentsAssumption`, and those
of the modules they instantiate: types and sizes of the bounds), and those
on `Habits` that are stated below. A theorem `Assumption => (Spec => ...)` states its
assumption so that it can be used of an instance.

**LogicalStreamProofs.** `TypeCorrect` is inductive by itself. `AckedIsDelivered`
is not: nothing in it says that an acknowledgement in flight belongs to a written
chunk. `StopAndWait` adds, per direction: data frames in flight carry no sequence
beyond the sender's (`DataBehind`), acknowledgements in flight or set or held
belong to written chunks (`AcksBehind`, `SetBehind`, `HeldBehind`), the receiver
is at most one chunk ahead (`WindowOne`), and the queue holds at most one data
entry, the next to be written (`QueueNext`). `StopAndWaitInvariant` proves it:
most actions send at most one harmless frame (`ControlStep`); the four that move
a counter have a lemma each (`AcceptedStep`, `TakenStep`, `AckedStep`,
`DataSend`). `AcknowledgedIsDelivered` follows.

`SettledIsDelivered`, `NoFalseFaults` and the refinement of `ByteChannel` need
more: what a chunk's value is, and that a stream that nothing closes loses
nothing. `BeginInv` says how a stream begins and ends: nobody sends before `open`
is answered, there is one `open`, `eof` is last, and a node that has no link is
closing the stream. `ChannelInv` then has, for each direction, `Numbers` (the
chunk on its way or in the queue under the expected sequence is the one that
belongs there), `Spent` (a sequence whose chunk was given up is on its way,
accepted, or its receiver has left), `Shadowed` (such a sequence is never
accepted a second time with another chunk), `InStep` (while nothing closes the
stream only the chunk that waits for its acknowledgement is not counted), and
`Token`: the chunk not yet acknowledged is in at most one place, as data on its
way, in the queue, in the hands of the receiver, or as its acknowledgement.
`ChannelsHold` goes by the actions that move the token (`DataSendStep`,
`DataArrives`, `TakeChannel`, `AckChannel`); all others are `Calm`.
`RoomForExpected` is the reason for `NoFalseFaults`: while the expected chunk is
on its way the queue holds none. `StreamImplementsChannels` maps every step to a
step of `ByteChannel` or a stutter, in both directions. All of it holds for every
number of chunks and links and every queue bound, that is for every length of the
transfer.

**SharedBackendProofs.** `GenerationsDoNotOverlap` needs `GenerationInv`: a
process lives only for the current generation, and not while the state is exited
or starting nor after the wait task began to reap it, because that task only
starts when the process is gone. `DrainHolds` needs `RestartCleared`: while a
restart replaces a generation it may start one, so the drain has to stay cleared
by then; the Operator's actions of one registration exclude each other.
`ClientsAreOpen` and `OneClientAdmitted` need `ClientInv`: an attach call adds a
client only in the same step in which it looked at the stream, the drain and the
other clients. `RecoveryStaysSole` needs `RecoveryInv`: the wait task that recovers is
`recovery_task` and a nested one only reaps (`CrashedAreRecTask`, `NestedEnd`); a
generation whose crash is reaped never runs again and nobody stops it
(`CrashedGone`), so no stop cancels its wait task; while the gate is shut and no
restart is under way nobody but the recovery starts a generation (`ShutIsIdle`).
The attempt to prove it found an error of an earlier version of the model, which
had left out that `_recover_after_exit` looks at the state after the back-off,
for a reason that two disturbances confirmed and a third refutes: a restart, its
crash and another restart. `RequestsAreRemembered` is the one theorem here with a
hypothesis, `Calm`: at most one crash, no Operator action but the drain, none of the
rare events. These are the conditions of `backend_live`, and without each of them the
property fails (see above). Its invariant has two halves. `ServedInv`: attached clients
are without a running generation only while the gate is shut, the gate is shut only
while the one crash is recovered from, and when it opens they are served or gone.
`AskedInv`: once the pending calls were answered, and until the gate opens, no request
of an attached client is on its way (`NothingUnderWay`), so what `_start_generation`
and `_stop_generation` clear is empty. All of it holds for every set of clients and all
bounds but that on the crashes.

**SharedSessionProofs, the queue.** `LimitsHold` needs only the types of the lanes: a put that
was not refused adds one request to one lane, nothing else adds any.
`NoOvertaking` is not inductive: it does not say where the lane that was served
stands. `Rotation` adds that a client served since c began to wait stands behind
c (`c \in ahead[d]`), so it cannot be taken again before c; it needs that
identities not yet given out are not queued (`Fresh`). `BytesStayAccounted` says
that the counters are the sums of the sizes in the lanes. The sum is a fold over a
set, so what adding or removing a request does to it is an induction over finite
sets; instead of an operator it is made about the sets themselves: a set of
identities for which the sum is not what it should be has a subset of least
cardinality of that kind (`MinimalSet`), and one request less leads to a
contradiction (`TotalRemove`, `TotalSplit`, `TotalAgrees`). All three theorems
hold for every finite set of clients and all limits.

**SharedSessionProofs, the session.** `QueueAndTableAgree` (`TablesAgree`) and `ImplementsQueue`
(`Spec => QueueSpec`) rest on a classification of the steps by what they do to
queue, table and worker (`Effect`): most actions leave all three alone, and each
other action has one of a few effects, about which the invariant `WorkInv` is
proved once. The refinement carries the queue's theorems over to the session
(`SessionLimitsHold`, `SessionRoundRobin`, `SessionBytesAccounted`).
`SessionTypes` is `TypeOK`. `LeaseStaysWatched` needs that only an
attached client has a task that waits to submit a call (`LeaseInv`), so that a
client gains no lease once its detach began.
`AnsweredOnce` needs that an identity not yet given out has no answer and no
asker (`AnswerInv`). `ClosesAfterAnswers` needs `FirstInv`: a client that is
closing has nothing pending, because its task looked when its input ended and
takes no further line, and one that has not been greeted never asked.
`LeaseIsKept` needs `CallInv`: whatever call about the resource is queued or with
the process belongs to the owner of the lease, there is one release at a time,
and it is behind every call of its owner. That is false of a client that sends a
call behind its unanswered release, so the theorem assumes
`"pipelines" \notin Habits`; `SharedSessionLease.cfg` shows that it must.

**ArtifactProofs.** The theorems about artifacts/2 rest on one invariant, `Inv`, in
three parts.

- `Core` says what is under way. One thing of a publish is, at a time: its begin,
  then a chunk or the end, the answer to it, or the chunk is in the hands of the
  worker (`Turn`, `Course`). It is the chunk after those that were received
  (`Numbers`). The phase of a receive decides what its worker, its stream and the
  link can be (`Phase`), and a publish that was given up has left its cancellation
  behind whatever of it is still on the way (`OrderInv`).
- `FileInv`: the partial file of the receive that may use it holds the chunks that
  were received, in order and nothing else. With retries and resumption several
  receives share a token and a file; the one that leads is the last that began, or
  the one before while that is not given up (`Leads`).
- `FirmInv`: while somebody was told of success, or is about to be, the final name
  has the whole file and no worker can take it back (`Firm`).

`Core` is kept by each of the steps of `Publish`, the link, the begins, the worker,
the aborts and the parking; most are reduced to one of three patterns, that the
exchange of a publish stands (`Stays`), that a worker goes on (`Worked`, `Calm`,
`Onward`), or that frames are taken and added (`Moves`, `Orderly`). `ArtifactDelivers`
maps every step to a step of `Delivery` or a stutter. All of it assumes `Serialised`:
without `"overlap"`, publishes of one artifact come one after the other, without
`"slowDisk"` the journal has answered a begin before the next frame of its stream is
read, and without `"cuts"` no kill falls between the link and the unlink of a commit
(every other point of a kill is in). With `overlap` and with `cuts` the theorems are
false (see above); with `slowDisk` they are
only model-checked in their parts. It holds for every number of chunks, publishes and
losses of the link.

**PartsProofs, artifacts/1 and inputs.** What a step does to a channel is one relation,
`Moves`: some frames are taken from its front, its end may be cut off by a break, and
new frames are of a given kind. So facts about frames under way are kept by lemmas
about `Moves` alone (`MovesHas`, `MovesOf`, `MovesOnce`). `OldDelivers` needs `OldInv`: whoever
was answered with success, or is about to be, has its file and is over for the
receiver, a begin on its way has met no receive, and a file that was linked is there
until its answer is sent. `InputHandlesHold` needs `InputInv`: one input of the client is
under way at a time, so a receive that is registered finds the path free or its own,
and what was answered with success keeps path and handle while the stream is open.
That assumes that the client does not stage two inputs of one name at once
(`together` is left out of the instance), without which it is false (see above).
Both hold for every set of transfers and every number of chunks.

**PartsProofs, the relay.** `WholeMeansAll` counts: for each request, the pieces the
Agent has, those in its body queue and those on the link are together those the owner
sent, as long as nothing was cut off, and the end follows them everywhere (`RelayAt`).
So who meets the end has all. `Count` is a cardinality of positions, and what an
append, a head taken or a lost link does to it is proved once. It holds for every set
of requests, every number of pieces and of places, and all habits.

**PartsProofs, the link.** `OneLinkAtATime` needs `LinkInv`: `link_installing` is set for
as long as a handler holds the link or is on its way to it, which is why the next
is refused, also while the last link is being failed. `QueriesFailWithTheLink`
needs that nobody waits unless the initiator is up (`QueryInv`). Both hold for
any number of connections, deaths and queries and with all habits.

**PartsProofs, managed services.** `GenerationsAreOne` needs `GenerationInv`, the agreement of
the tasks and the state machine: a start task works exactly in `starting`, a stop
task exactly in `stopping`, and only the start task of the current generation
spawns, over nothing that lives. `AppliedIsGone` needs `ActionInv`: from the moment
the stop of an action returned, the generation it named is past, and past
generations stay so (`Past(k)`); and whoever began a stop still waits for it, so
that no action finds a service `stopping`. It is about behaviours without the loss of
the link (`Linked`): the node's own stop after a loss breaks that, and the property
with it (see above). `ManagedTypes` needs that a generation that is begun has a number.
They hold for any number of demands, actions, generations and crashes and, but for
the loss, with all habits.

**PartsProofs, the projection.** It is about `Crashing`, the instance of `MCNode` in which
commands are killed, for every set of servers and passes and all habits but two.
`ProjectionTypes` needs that no command gets to the file with
a target that has no route (`ConfigRouted`). `UsersOwnIsKept`, an action property, and
`RemovedStaysClean` need `ConfigPassInv`: one command runs at a time (`ConfigOneRuns`),
the file and the stored fingerprints are as that command read them until it replaces
them (`ConfigReadIsCurrent`), what `unenroll` found of the bridge's is as it was written and
goes (`ConfigOperatorRemoves`), and an environment that is gone is left alone
(`ConfigGoneIsClean`). A kill at any point keeps it, since the next command reads
everything again. Both theorems assume `Undisturbed`: commands do not overlap and
the user does not edit during one. Nothing locks the file, and without the
assumption both are false (see above).

**NodeProofs.** `MCNode` runs the instances of `NodeParts`, and those of artifacts/2 and
of the session, so the theorems about a component are also about the one that runs
in it. The theorems of `PartsProofs` are about components with all their habits; that
a component with fewer takes only steps of that one is proved action by action
(`LinkRuns`, `RelayRuns`, `HttpSteps`, `DownedSteps`, `WatchSteps`). A component that runs
takes steps of its own specification and one that does not run stutters (`PublishRuns`,
`OldRuns`, `ConfigRuns`, ...), and which one runs is fixed for good (`DownedIsFixed`,
`RepublishIsFixed`). `NodeHasOne`, `NodeKeepsTheUsersOwn`,
`NodeDelivers`, `NodeNothingTorn` and `NodeTypes` follow from the theorems of the parts:
every safety property of `MCNode` is proved for all values of its constants
(`NodeAssumption`). The sizes of the session in `MCNode` are those of
its instance; its own theorems have no such bound.

**ProgramProofs and AgentsProofs.** The steps of each program are proved to keep an
invariant of its own; as in `NodeProofs`, what runs is a behaviour of the program and
what does not run stutters (`ProxyRuns`, `ConnRuns`, `AdapterRuns`, ...). Every safety
property of `MCAgents` follows from these invariants, for all values of its constants
(`AgentsAssumption`). Four programs have `outcomeUnknown` in
common, and each keeps its promise for a reason of its own, so `ToldSafeIsUnsent`
rests on four invariants.

- The facade (`ProxyUntouchedInv`): the mark is set before the writer thread
  takes the business request, and whoever reports a request as untouched does so
  when the writer is stopped or was never started. `ProxiesStayBounded` needs that
  whoever has a process, or is about to spawn one, holds a place
  (`ProxyPlacesInv`).
- The stateless adapter (`PoolMarkInv`): the token's mark is set before the first
  byte of the business request leaves, the error report repeats it, and after a
  report that calls the request safe the pool thread does not come back to the
  write.
- The legacy projection (`LegacySentInv`): a request is in the queue, in the hands
  of the main thread or done, at one place at a time, and the verdict on the one in
  hand follows from whether it was written. A purge of the queue is taking out one
  element (`PurgedIsPart`).
- The deferred tools (`DeferredSentInv`): likewise, and a call that was sent is the
  one of the exchange that is waited for. It rests on `DeferredFlowInv`, which says
  what the exchange, the connection and the messages on it have to do with one
  another: at most one answer is owed, on its way or taken (`DeferredOneAnswer`),
  and whatever is done to end a connection belongs to one of its own
  (`DeferredLinkTypes`).

`CatalogStaysCurrent` needs to know of an old answer wherever it may be: on its way
there is a notice behind it (`DeferredBackInv`); taken, the notice is on its way or
was read since the listing began (`DeferredEventInv`); among the pages, the same of
all of them, and all are of the connection in use (`DeferredPagesInv`). When the last
page is adopted the epoch is compared with the one the listing began with, which
leaves the first two (`DeferredCatalogInv`). Two facts about single steps carry most
cases: a notice on its way stays or is read (`DeferredHeldStep`), and the distance
of the epoch from the one that was looked at never shrinks (`DeferredGrownStep`).

`CancellationsAreRespected` needs, in the adapter, that a request the client took
back has a reason that its token never loses (`PoolTokenInv`): the emission looks at
it under the lock the cancellation takes. In the legacy projection a mark, and what
the main thread makes of one, is about a request that was cancelled
(`LegacyCancelInv`); that assumes that the client gives each request an id of its own
(`LegacyUnique`, by `LegacyIds`), without which it is false (see above).

`EachIsAnsweredOnce`, `NothingIsReplayed` and `NothingIsLeaked` are about the programs
that keep sessions.

- The connector (`ConnInv`): what a thread has in its hands is in no book, and before it
  is sent it is new to every session and was told nothing (`ConnWriterInv`); so a line
  reaches the node in one session (`ConnReachInv`) and not after it was failed
  (`ConnBooksInv`), which is `NeverReplayed`. A request that did not go astray was failed
  with the session it was sent in, which nobody reads any more, and is in no book when
  it is answered (`ConnAstrayInv`), which gives `AnsweredTwiceIsAstray`. That the node's
  own answer comes once needs that an answer still to be read is the first
  (`ConnUnreadInv`) and, of the handshake, that of two answers in one session the first
  is absorbed (`ConnHelloInv`). The session may be lost at any point, stale readers and
  handovers of the engine included, and there is no hypothesis but the constants'.
- The adapter (`AdapterInv`): whoever holds the lock of the re-initialization found
  no session and nobody else makes one, and whoever is about to give a session up
  used one that the remote has forgotten (`AdapterSessionInv`); a call that is not over
  was neither executed nor answered (`AdapterCallInv`). `AdapterKeepsItsSession` follows
  for every step. The theorems are about `Failing`, which has all faults; that
  `Adapter` takes only its steps is `AdapterSteps`.
- The facade runs in three settings. `AnyFacade` has all habits and any ids, and each
  setting takes only its steps (`FacadeDoes`, `IdsDoes`, `ShutdownDoes`). An answer,
  given or in the queue of a stream, is that of the request itself (`FacadeOwnInv`).
  The dispatcher looks its request up by id, so when clients use ids as they like
  this rests on `FacadeIdsInv`: pending requests of one session have different ids,
  and the backend has each request at most once, only while it is pending or its
  session lost. `SlotsReturn` needs that a pending request with a JSON answer is on its
  way and has no answer (`FacadeSlotsInv`), `NoOrphan` that a deleted session is over
  and its process is stopped or about to be (`FacadeOrphanInv`).

`AgentsTyped` is `TypeOK`. Most of it is part of the invariants above; the bound on the
pool of the stateless adapter is `PoolPlacesInv`.

All of it holds for every set of sessions, requests, streams, tools and calls, every
number of places, pages, catalogs and connections, every bound on the queues, and, but
for the habits named above, whatever the peers do.

Only model-checked: all liveness. Liveness under fairness
and ENABLED are out of the prover's reach, as are inductions over data and RECURSIVE
operators; the proved modules use neither.

## Plan

What is left, most important first.

1. `SharedSession`: requests of the process to a client (4466–4556), progress and
   list notifications. Property: a server request is answered by the client it
   was routed to, or by the Bridge when that client left.
2. Operator lifecycle: refresh and the journal of operation ids, with a restart of
   the node between the action and the record of its outcome.
3. Proofs: artifacts/2 with a slow disk, which is model-checked only.
4. `Projection` with several environments, and the official-CLI mode
   (`installer/projection.py` 2522–2591), where another program writes the file.
5. The external HTTP lifecycle contract (10774–11118): a timeout whose outcome is
   unknown.
6. Stream evidence and the trace workers: the bounds of their queues and that a
   pair is never guessed.

## Not modelled

- `bridge_protocol.py`, the registry's manifest checks, the archive profile and
  the harness probe: pure functions on documents without interleaving; their
  unit tests reach their cases.
- The event journal, traces and stream evidence: best-effort records nothing else
  reads back.
- The node supervisor: what it decides on is the state of the system's ports,
  which it polls.
- The Registry MCP, the Control MCP and the command line: one request and one
  response over one socket.
- In the modelled components: texts, sizes, schemas, headers and versions, and
  the parsing of them, but for its failing.
