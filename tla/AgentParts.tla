----------------------------- MODULE AgentParts -----------------------------
(* What the programs between an Agent and its node have to do, their         *)
(* variables, and all of them but the facade, whose settings are with the    *)
(* specification that runs it.                                               *)
EXTENDS Naturals, Sequences, FiniteSets

CONSTANTS
  Parts,  \* the programs that are run
  \* how much they have to do, and the places they have for it
  Business, Links,  \* of the connector: calls, and sessions with the node
  Opened, Posted, Gets, Sse, On, Named,  \* of the facade: sessions, requests, streams, ids
  MaxSessions, MaxInflight, MaxQueue,
  Proxied, ProxiedTools, Places,
  Calls, Notices, Remotes,  \* of the adapter: messages, sessions of the remote
  Pooled, PooledTools, PoolPlaces,
  Lists, LegacyTools, QueueSize,
  Expands, DeferredCalls, Collapses, Pages, MaxReal, MaxPeers,
  \* what their peers may do
  ProxyHabits, PoolHabits, LegacyHabits, DeferredHabits,
  None

\* The tools are among the requests, and nothing but None means none.
ASSUME AgentsAssumption ==
  /\ {"hello", "replayed"} \cap Business = {} /\ Links \in Nat \ {0}
  /\ On \in [Posted \cup Gets -> Opened] /\ Sse \subseteq Posted
  /\ Opened \cap (Posted \cup Gets) = {} /\ Posted \cap Gets = {}
  /\ (Opened \cup Posted) \cap {"refused", "lost", "deleted", "timeout", "close", "request", "exit"} = {}
  /\ MaxInflight \in Nat /\ MaxQueue \in Nat
  /\ "get" \notin Calls \cup Notices /\ Remotes \in Nat \ {0}
  /\ IsFiniteSet(Proxied) /\ PooledTools \subseteq Pooled
  /\ Places \in Nat /\ PoolPlaces \in Nat /\ QueueSize \in Nat
  /\ Pages \in Nat \ {0} /\ MaxReal \in Nat /\ MaxPeers \in Nat
  /\ None \notin Business \cup Opened \cup Posted \cup {"get"} \cup Calls \cup Notices
  /\ None \notin {"hello", "replayed"} \cup Lists \cup LegacyTools
  /\ None \notin Expands \cup DeferredCalls \cup Collapses
  /\ None \notin {"preflight", "business", "cancel", "answered", "untouched", "unknown", "gone",
                "cancelled", "timeout", "refused", "safe", "result", "error", "ok", "overload",
                "failed", "dropped", "init", "list", "call"}

VARIABLES
  part,  \* the component that runs in this behaviour
  connMain, engine, sess, sock, up, lost, ready, connReader, conn, fresh, connWriter, queued, cached,
  connPending, uncertain, connFailed, connReached, connAnswered, told, errors, astray, facadePc, answer,
  facadePending, table, deleted, dead, ending, facadeClosed, facadeProc, facadeStalled, wlock,
  todo, facadeInbound, chans, facadeQueue, disp, serverRequest, proxyPc, slots, proxies,
  proxyProc, outbound, proxyWriter, proxyStarted, proxyReached, proxyInbound, proxyFailed,
  quiet, stopped, proxyReply, serverStops, session, adapterInitialized, reinit, adapterPc, used,
  adapterGot, retried, executed, answered, made, live, adapterMain, deleting, poolPending,
  poolPc, reason, poolStarted, poolGot, unknown, poolMain, delivered, poolReply, poolWithdrawn,
  legacyQueue, pend, markers, legacyInflight, written, legacyPc, legacyCur, legacyReader,
  backend, legacyStalled, legacyGot, legacyClosed, legacyInitialized, legacySent, forwarded,
  cancel, verdict, legacyReply, asked, deferredWithdrawn, deferredInbound, cancelling,
  deferredInflight, expanded, catalog, epoch, peer, deferredClosed, deferredPending, event,
  deferredPc, deferredCur, seen, pages, tidying, real, back, owed, deferredSent, struck,
  deferredReply

connVars == <<connMain, engine, sess, sock, up, lost, ready, connReader, conn, fresh, connWriter, queued, cached,
    connPending, uncertain, connFailed, connReached, connAnswered, told, errors, astray>>
facadeVars == <<facadePc, answer, facadePending, table, deleted, dead, ending, facadeClosed, facadeProc,
    facadeStalled, wlock, todo, facadeInbound, chans, facadeQueue, disp, serverRequest>>
proxyVars == <<proxyPc, slots, proxies, proxyProc, outbound, proxyWriter, proxyStarted, proxyReached,
    proxyInbound, proxyFailed, quiet, stopped, proxyReply, serverStops>>
adapterVars == <<session, adapterInitialized, reinit, adapterPc, used, adapterGot, retried, executed,
    answered, made, live, adapterMain, deleting>>
poolVars == <<poolPending, poolPc, reason, poolStarted, poolGot, unknown, poolMain, delivered, poolReply,
    poolWithdrawn>>
legacyVars == <<legacyQueue, pend, markers, legacyInflight, written, legacyPc, legacyCur, legacyReader,
    backend, legacyStalled, legacyGot, legacyClosed, legacyInitialized, legacySent, forwarded,
    cancel, verdict, legacyReply>>
deferredVars == <<asked, deferredWithdrawn, deferredInbound, cancelling, deferredInflight, expanded, catalog,
    epoch, peer, deferredClosed, deferredPending, event, deferredPc, deferredCur, seen, pages,
    tidying, real, back, owed, deferredSent, struck, deferredReply>>

\* Calls and the handshake over the sessions of the persistent connector.
Conn == INSTANCE Connector WITH
  Calls <- Business, Hello <- "hello", MaxSess <- Links,
  main <- connMain, reader <- connReader, writer <- connWriter, pending <- connPending,
  failed <- connFailed, reached <- connReached, answered <- connAnswered

\* Stateless requests, each with a process of its own.
Stateless == INSTANCE FacadeModern WITH
  Posts <- Proxied, ToolCalls <- ProxiedTools, MaxInflight <- Places, Habits <- ProxyHabits,
  pc <- proxyPc, proc <- proxyProc, writer <- proxyWriter, started <- proxyStarted,
  reached <- proxyReached, inbound <- proxyInbound, failed <- proxyFailed, reply <- proxyReply

\* A remote that forgets its sessions.
Adapter == INSTANCE HttpAdapter WITH
  Calls <- Calls, Notes <- Notices, Stream <- "get", MaxSessions <- Remotes, Habits <- {"loses"},
  initialized <- adapterInitialized, pc <- adapterPc, got <- adapterGot, main <- adapterMain

\* Exchanges that fail, and a client that ends.
Failing == INSTANCE HttpAdapter WITH
  Calls <- Calls, Notes <- Notices, Stream <- "get", MaxSessions <- Remotes,
  Habits <- {"loses", "fails", "ends"}, initialized <- adapterInitialized, pc <- adapterPc,
  got <- adapterGot, main <- adapterMain

\* Requests at once through the pool of the stateless adapter.
Pool == INSTANCE AdapterModern WITH
  Requests <- Pooled, Tools <- PooledTools, IdOf <- [r \in Pooled |-> r],
  MaxInflight <- PoolPlaces, Habits <- PoolHabits, pending <- poolPending, pc <- poolPc,
  started <- poolStarted, got <- poolGot, main <- poolMain, reply <- poolReply,
  withdrawn <- poolWithdrawn

\* A modern server behind a legacy client, whose requests have ids of their own.
LegacyIds == [r \in {"hello"} \cup Lists \cup LegacyTools |-> r]
Legacy == INSTANCE LegacyModern WITH
  Hello <- "hello", Tools <- LegacyTools, IdOf <- LegacyIds, Habits <- LegacyHabits,
  queue <- legacyQueue, inflight <- legacyInflight, pc <- legacyPc, cur <- legacyCur,
  reader <- legacyReader, stalled <- legacyStalled, got <- legacyGot, closed <- legacyClosed,
  initialized <- legacyInitialized, sent <- legacySent, reply <- legacyReply

\* A catalog of several pages that changes, over several connections.
Deferred == INSTANCE DeferredTools WITH
  Hello <- "hello", Calls <- DeferredCalls, Habits <- DeferredHabits,
  withdrawn <- deferredWithdrawn, inbound <- deferredInbound, inflight <- deferredInflight,
  closed <- deferredClosed, pending <- deferredPending, pc <- deferredPc, cur <- deferredCur,
  sent <- deferredSent, reply <- deferredReply
=============================================================================
