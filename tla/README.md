# A verification project for fi-mcp-kit

fi-mcp-kit runs MCP servers: a command line proxy (`cmd/fi-mcp`) that speaks MCP
on stdio and forwards each request to a local server process or to a remote hub,
and a websocket gateway (`cmd/fi-mcp-gateway`) where server hosts register and
clients find them.  This directory holds TLA+ models of the parts of it where
order and failure matter, the TLC configurations that check them, and proofs
that TLAPS checks.  Paths below are relative to `src/`.

## The system's parts

| part | state | operations | talks to |
|---|---|---|---|
| connection pool, `pkg/pool/pool.go` | idle stacks and counts of connections in use per server, one mutex, one condition variable, statistics | Get, Put, ClearServer, Close, WarmUp, the reaper | dials through a function the proxy gives it; its users are goroutines |
| gateway hub, `pkg/gateway/hub.go` | hosts by server name, clients per host, gauges | one Handler per websocket session: register, attach, broadcast, send, relay | peers over websockets; backends it dials |
| router, `pkg/router/router.go` | registry, health per server and side, tool index | Route, RecordSuccess, RecordFailure, SetRegistry, the Proxy wrapper | the proxy asks it for a side |
| process manager, `pkg/process/manager.go`, `ssh.go` | running processes by name | Start, Stop, StopAll, ReapIdle, Dial | child processes, remote ones over SSH; a library type that pools of other programs dial through |
| proxy, `pkg/proxy/proxy.go`, `proxy_hub.go` | two pools, a router, a counter of request ids | Prepare, and calls over a pooled connection; it starts one process per local connection itself | pool, router, hub |
| REST tool call, `pkg/gateway/toolcall.go` | none beyond one request: a connection, a watcher goroutine, a context | allowlist, initialize, call, reply matching | the registry, a backend it dials |
| registry, `pkg/registry/` | specs of servers by target, shared by all readers and changed by reading | load, GetServerSpec, the merge, the allowlist | read by gateway, proxy, generators |
| profiles, `pkg/profiles/` | named filters | Filter | registry |
| secret stores, `pkg/secrets/` | a chain of backends, a file with a cache, a keychain, 1Password with a cache | Get, Set, Delete, List | files and commands |
| generators, `pkg/generator/` | none of their own; they read one registry for all targets in turn | one configuration file per target | registry |
| validators, command line tools, OIDC, redaction, telemetry | none that outlives a call | pure functions and wiring | |

What is hard here: the pool is shared by goroutines that wait, time out, are
cancelled and dial outside the mutex; the gateway runs a goroutine per session
whose peers vanish, stall or replace each other; the router hears of outcomes in
any order and has its registry swapped underneath; processes die while handed
out; replies arrive after their caller has gone; secrets are written by several
callers to one file.  `PROJECT.json` lists each hazard at its line with the
properties that would notice it.

What makes each part correct:

* pool: never more connections than allowed, no slot lost or freed twice, one
  owner per connection, no open connection forgotten, no lost wakeup, an honest
  `ErrExhausted`, every Get returns, a closed pool drains;
* hub: the two tables agree with where the handlers are, nothing stays open or
  counted after a session, handlers end;
* router: a server is refused only in the window of a tripped breaker, comes
  back unless its local side is made to fail for ever, and Route always has an
  answer;
* process manager: no process is forgotten or started twice, a local one that is
  stopped is gone, and every stop returns;
* proxy: a caller gets the reply to its own request or an error, and takes no
  reply another waits for;
* REST tool call: only what the registry file allows is called, every request is
  answered, and no connection or watcher stays;
* registry: what is read for one target does not change another;
* secret stores: the value that was stored last is read, also by the next
  process (two Deletes that fall short of it are named below), and no crash leaves
  a torn file.

## Modules

| module | what it is |
|---|---|
| `PoolLease` | abstract specification of the pool: connections that are absent, parked or leased, with the two limits, and nothing else |
| `Pool` | the pool as the code has it, one action per critical section of `Pool.mu`; the dial, the deadline, the context and the callbacks are steps of their own |
| `PoolProperties` | its properties and the refinement mapping to `PoolLease` |
| `PoolProofs` | proofs about the limits, slots and waiting of `Pool` |
| `PoolConnProofs` | proofs about its connections and statistics, and that it implements `PoolLease` |
| `GatewayHub` | the hub: a host or client is one run of `Handler` after the upgrade |
| `GatewayHubProperties`, `GatewayHubProofs` | its properties and proofs |
| `Router` | routing and the circuit breakers, with properties |
| `RouterProofs` | proofs about `Router` |
| `ProcessLife` | abstract specification of the process manager: which processes of a server run, and which servers are being stopped |
| `Process`, `ProcessProofs` | the process manager, with properties and the mapping to `ProcessLife`, and proofs |
| `Exchange` | calls of the proxy over connections that `PoolLease` hands out, with properties |
| `HubExchange` | `Exchange` with a second kind of backend: a host behind the gateway's hub |
| `ExchangeProofs` | proofs about both |
| `Registry` | the registry: specs, the merge, and what a merge writes into the registry itself; no behaviour of its own |
| `ToolCall`, `ToolCallProofs` | REST tool calls over `Registry`, with properties, and proofs |
| `Configs` | the client configurations generated from `Registry` |
| `Secrets`, `SecretsProofs` | the manager of secrets over its three stores, in processes that come and go, with properties, and proofs |
| `MCPool`, `MCGatewayHub`, `MCRouter`, `MCProcess`, `MCExchange`, `MCToolCall`, `MCConfigs`, `MCSecrets` | instances for TLC |

A module that holds code also holds, right before a definition, the *mutants* of
it that the project uses to see that each property can fail: the definition with
a plausible bug.  No specification uses them.

### Pool

`conns`, `activeCount`, `stats` and `closed` are the fields of `Pool`.
`transport` says of every connection whether it is closed, usable, or open and
marked unhealthy (`Conn.Healthy`).  `pc` says where each caller is: `waiting` in
`cond.Wait`, `woken` after a broadcast and without the mutex, `dialing` between
reservation and end of the dial, `holding` until it calls Put, otherwise out of
Get with the outcome of its last call.  `expired` and `cancelled` are the callers
in Get whose deadline or context is over, `firing` the callbacks that have
started and want the mutex; a callback may get it long after its Get returned.

Get is a family of actions, one per outcome of a critical section: the first
look (`GetRefused`, `GetIdle`, `GetNew`, `GetExhausted`, `GetCancelled`,
`GetWait`) and each pass of the wait loop (`WakeClosed`, `WakeIdle`, `WakeNew`,
`WakeCancelled`, `WakeExpired`, `WakeWait`).  They share `Take`, `Reserve` and
`Saturated`, parameterised by the number of unhealthy connections dropped on the
way: all above the first healthy one at the first look, at most one per pass in
the loop.  `WarmUp` adds nothing: it is callers that Get and Put.

Time is abstracted to the order of events.  The reaper drops a bottom part of
each stack, since Put appends with the current time.

### Gateway hub

`hosts` is `Hub.hosts`, `clients` each `Host.clients`, `hpc` and `cpc` where the
handlers are, `open` the sessions whose connection the hub has not closed, and
`todo` the clients a running `Broadcast` still has to write to, during which it
holds the read lock that keeps `AddClient` and `RemoveClient` out.  A peer may
vanish at any time (a read error) and may stop reading for good (`stalled`);
then a write to it blocks, because the hub sets no write deadline, and its read
deadline passes, because it sends no pong.  Message contents, hooks and
redaction are left out.

### Router

Of a `Health` record the model keeps what `isHealthy` reads: `Healthy`, the
failures up to the threshold (more makes no difference), and how long ago
`LastError` is: `"fresh"` just after a failure, `"recent"` within the recovery
window, `"old"` after it.  `Age` and `Recover` let time pass.  A caller keeps the
`Proxy` of the side it was given over any number of requests: neither an error of
`Send` nor one of `Recv`, a timeout for instance, closes it (`router.go:468`), so
`Fail` keeps the call, each failure renews `LastError` (`router.go:425`), and
outcomes arrive in any order and after any reload.  `Send` alone records a
success, so a server that takes every request and answers none has its count
reset each time and with a threshold above 1 is never refused; the model shows
that behaviour, and no property speaks against it, since nothing in the
repository promises more.  In the repository only
the proxy calls `Route`; the wrapper that records outcomes is a library type, so
the callers here are its users.  `"panic"` is the answer of a Route that
dereferences a nil `Health`.

### Process manager

`procs` is `Manager.procs`, `name` each `Process.Name`; `running` are the
processes that have not exited.  The mutex has no variable of its own: a caller
holds it while its `phase` is not `"none"`, that is in an SSH handshake
(`"dial"`) or in the escalation of `Stop` (`"eof"`, `"term"`, `"kill"`).  All
else a critical section does is one step.  `StopAll` and `ReapIdle` are
`Collect`, then for each name a `Stop` of its own, in any order, with the gaps
the code has.  `stuck` marks the processes Stop has trouble with: a local one
whose `Wait` never returns, a remote one whose output, unless it exits, does not
end and brings nothing more, on a link that stays up.  `seen` and `left` are
history variables: what a StopAll or ReapIdle collected, and whose Stop is over.

The end of a Stop over SSH (`SSHClosed`) leaves `running` alone: the code closes
pipes, session and client (`manager.go:188`), sends no signal and awaits no exit.
Whether the remote process exits is `Exit`, as at any time.  One that does not is
a *stray* (`Strays`: its Stop is over and it runs), and the properties promise
for the remote processes only that strays are all that is left over.

That a remote process can hold up `Stop` follows from the vendored
`StdioTransport.Close`, which closes the reader's file and waits for the reader:
a pipe's read is woken by that, the `io.NopCloser` around a session's stdout
does nothing.  `LastActivity` is left out; any set of processes may be idle.

### Exchange

The proxy's calls to local servers, on top of `PoolLease`: `GetParked`,
`GetNew`, `Initialized`, `DialFails` and `Put` each take a step of the pool's
abstract specification, so what holds here holds over `Pool`, which implements
it (`LeaseSpec` in `pool_safety`).  Composed like that, a step the pool has no
place for, such as a second Put, would not show as an error but be disabled;
that no caller is ever at such a step is a theorem (`CallsKeepTheLease`).
`stage` is where a caller is in `withBackend`: dialling, initializing the new
process, holding a connection, waiting in `recvResponse`, and `"over"` until the
deferred `Put`.  A message is its id and its number; the code compares ids only,
the number lets the properties tell requests apart.  A caller may give up at any
time and leaves its request behind.  The transport keeps what is not read (its
reader goroutine outlives a cancelled `Recv`).

### HubExchange

`viaHub` is the router's decision, fixed for a behaviour, since the two pools of
the proxy share nothing but the counter of ids.  All lines to a server's host end
at one host, and the hub broadcasts what the host replies (`Host.Broadcast`, the
composition with `GatewayHub`): `inbox` keeps what a line got and nobody read,
`pending` what the host has not answered.  Replies to other proxies arrive with
any id of `OthersID`; for the properties they have the number 0.  The initialize
request of a line has the id 1 always and is answered by the first message that
arrives (mcp-go), so those two mix, and `HubReplyIsMine` says that no more than
that does.

### Registry, ToolCall and Configs

A spec keeps the fields that are told apart: `command` for all that a target
replaces when it sets it, `env`, `allow` and `tools`.  GetServerSpec copies the
common spec without its `Env` map, so `CommonAfter` gives the registry after a
read: `common` is the one variable of `Registry`.

`ToolCall` is a handler per request: unlisted servers, the allowlist with its
merge as an interval (`MergeBegin` to `MergeEnd`, and `NotAllowed`, which merges
again) so that two of them overlap, the body, dial, `initialize`, `tools/call`,
and the loop of `readToolCallResponse`, which looks at the context (`CheckCtx`)
and then reads without a deadline.  `watcher` is the goroutine that closes the
connection when the context ends.  Two goroutines in one map are a fatal error
of the Go runtime if it notices: `ConcurrentMapWrites` is that outcome, the
merges ending normally the other.

`Configs` writes the list of targets in order; what `buildTargetMap` reads for
one target is what earlier targets have left.  A file is the set of its entries,
the formats differ in the allowlist they keep.

### Secrets

A process has a primary backend by platform and by whether 1Password answers at
its start, and one Set or Delete at a time (`Manager.mu`).  The file store is
`loading`, then `opening`, `filling`, `renaming`: `os.WriteFile` of
`secrets.enc.tmp` is two steps, and a `handle` follows the file it has open
through a rename by another process.  The keychain store deletes, then adds; the
1Password store looks for the item, then creates or edits it.  `Kill` ends a
process at any step.  `may` is a history variable: per key, the values a `Get`
should return, one after an operation that returned nil, more after one that
failed or was cut short (in the keychain, which deletes first, also none or the
value of the legacy service).

Two Deletes return nil and yet leave the value to be read, and `kept` records
what they leave, so that `LatestIsRead` excepts it by name and nothing else: the
keychain's, which ignores every failure of the legacy delete (`keychain.go:87`,
where the comment speaks of not-found errors only), and 1Password's of an absent
item, which returns before it clears the cache that `Get` asks first
(`onepassword.go:167` and `onepassword.go:58`).  The exception ends with the
next Set or Delete of the key that does its work, and for 1Password with the
process.  `clean` becomes false where the stores lose values by design:
processes at the same time (the file is cached whole at the first load), a
primary backend or a master key other than before, a second 1Password item of
the same title.

## Runs

Every passing run explores its whole state space.

| run | instance | shows |
|---|---|---|
| `pool_safety` | 1 server, 4 callers, 4 ids, MaxIdle 2, MaxOpen 3, with waiting; callers and ids symmetric | limits, exact slots and statistics, exclusive ownership, no leak, empty after Close, honest exhaustion, only broken connections dropped; the pool implements `PoolLease` |
| `pool_live` | 1 server, 3 callers, 2 ids, both limits 1, fair | no wakeup is lost; Get returns; a closed pool drains |
| `gateway` | 2 servers, one listed, 2 hosts, 1 client, fair | tables, client gauge and sockets are right on every way out; handlers and relays end unless a client does not read |
| `gateway_active` | 1 server, 2 hosts, 1 client | **violated**: a replaced host's handler removes its replacement |
| `router_breaker` | 2 servers, one local only, 2 callers, threshold 2, shrinking registry, fair | refused only within a recovery window; available again, unless its local side fails for ever |
| `router_reload` | 3 servers, one only in a later registry | **violated**: Route panics for a server new in the registry |
| `process_safety` | 2 servers, 2 callers, 2 processes, fair | no process forgotten and no local one outlives its Stop; StopAll and ReapIdle leave of what they collected nothing but remote strays; stops return; the manager implements `ProcessLife` |
| `process_stop` | 1 server, 1 caller, 1 process, fair | **violated**: Stop of a remote process that ignores EOF hangs |
| `exchange` | 1 server, 3 callers, 2 connections, 4 requests, local or via the hub with foreign replies of id 2; callers and connections symmetric | replies reach the caller that asked; over the hub no reply to another request of this proxy is returned |
| `tool_calls` | 2 requests of any server, target and tool over a registry of 3 servers, fair | only allowed tools are called; every request whose body is there is answered and leaves nothing behind |
| `secrets` | 2 processes, 2 starts, 2 keys, 1 value besides none; processes and keys symmetric | what was stored last is read, across crashes, but for what two Deletes leave; the file is never torn |
| `configs_env` | 3 servers, 3 lists of targets | **violated**: a target's variables reach the configurations of later ones |

Why the bounds are enough.  Pool: four callers are one more than three slots, so
there are holders, a dialer and a waiter at once; MaxIdle 2 below MaxOpen 3 lets
the idle stack hold a healthy connection under an unhealthy one and overflow.
With limits of 1, three callers give two waiters for a slot.  Servers meet at the
condition variable only, which wakes the waiters of all of them; two servers with
a waiter each need at least four callers and are out of reach with liveness, but
`NoWakeupLost` is proved for any number.  Gateway: two hosts replace each other,
or serve two names at once, and no property needs a third; one name is listed, so
a client without a host is relayed under one and rejected under the other.  One
client is enough for a `Broadcast` to be stuck and for its host to be replaced
meanwhile; that a client may leave while `Broadcast` is stuck on *another* one
would take two, which with fairness is out of reach, while the tables, the gauge
and the sockets are proved for any number of clients.  Router: servers are
independent except for the registry; a threshold of 2 separates the first
failure from the last, and two callers give outcomes in the wrong order.

Process: two processes are one for each server, or two of one server in turn;
two callers are what it takes to stop and start, or stop twice, at a time, and
calls follow each other without bound.  Exchange: `MaxID` bounds the requests
made; four are two that initialize and two calls, or one that initializes and
three calls on one connection, so a late reply is in it when it changes hands;
three callers on two connections wait for each other's.  A foreign id of 2 is one
of a call's, the 1 of initialize coming from the proxy's own lines; the other ids
would be handled alike.

Tool calls: two requests are what it takes to merge at the same time, and to
merge before the other is checked; the three servers have every kind of entry
(shared map or none, allowlist on server, common or target, static tools, local
only), and a fourth is not listed.  Secrets: two starts are a crash and the next
process, or two at a time; a second key shows what one operation does to another
one's field; the value and none are two values to tell apart.

`gateway`, `tool_calls` and `secrets` do not check deadlock: sessions, requests
and starts are finitely many, and all being over is where the model stops.

### Fairness

* `Pool`: goroutines that are signalled get the mutex, timers fire, callbacks
  run, dials end (they take a context).  There is no fairness for `Put`: a holder
  may keep a connection for ever, and `Drained` says what it assumes of holders.
* `GatewayHub`: handlers and relay goroutines run.  A read from a closed session
  fails, and one from a stalled session fails when the read deadline passes:
  only a pong moves the deadline, so messages in between do not help, hence
  strong fairness.  `AddClient` and `RemoveClient` get strong fairness because
  an `RWMutex` lets a waiting writer in before later readers.
* `Process`: goroutines run, timers of `stopProcess` fire, and a caller that waits
  for the mutex gets it in the end: strong fairness, because others take it in
  between and `sync.Mutex` hands it over to one that has waited for a millisecond.
  Nothing makes a handshake end or a process exit, so `StopsReturn` excepts the
  cases where SSH keeps the mutex for ever, and these only.
* `ToolCall`: goroutines run and the timeout fires once the body is read.  A send
  or a read is sure to end only on a connection that is closed, a dial only once
  the context is done, for a backend may take and bring nothing.  Nothing makes a
  caller send his body (the HTTP server has no read timeout), so `Answered`
  promises nothing before it.
* `Router`: time passes, so an error that is not renewed grows old: weak fairness
  of `Age` and `Recover`, which a failure interrupts.  Nothing stops a Proxy that
  is in use from failing again, and each failure renews `LastError` without the
  breaker being asked.  So `Reopens` promises a server back unless failures of its
  local side go on for ever (`FailsOn`); the hub's may, for the end of the local
  window is enough.

`Exchange`, `HubExchange` and `Secrets` have safety properties only: a caller of
the proxy may wait as long as its context lets it, and an operation on the
secrets waits for external commands.

### The findings

`gateway_active`: h1 registers, h2 replaces it, h1's handler notices that its
connection was closed and runs its deferred `UnregisterHost(serverName)`
(`hub.go:328`), which deletes h2's entry.  h2 is connected, serves its clients
and is found by nobody.  The gauge `mcp_gateway_hosts_connected` drifts for the
same reason: two registrations, one removal that counts.

`router_reload`: `SetRegistry` (`router.go:112`) leaves the health tables as they
are.  Route on a server they do not know finds a nil `Health`, takes it as
unhealthy and formats its `ErrorMessage`.

`process_stop`: a server is started over SSH, and its process does nothing at the
end of its input.  `Stop` takes it out of the table and closes its transport
(`manager.go:188`), which waits for a reader that waits for the process; the
session, whose end would wake it, is closed after that (`manager.go:197`).  The
mutex is never released, so no server can be started or stopped any more.  The
bounds of `stopProcess`, which are there to prevent just this, are for local
processes.  The SSH handshake is a second wait without bound under the mutex:
`ClientConfig.Timeout` is read by `ssh.Dial`, which the code does not use.  When
the wait does end, because the process writes, closes its output or loses its
link, Stop returns with no signal sent, and the process may go on: the sequence
that the comment on `Stop` names (`manager.go:174`, "wait for voluntary exit, then
SIGTERM, then SIGKILL as last resort") is for local processes only.  The next
Start makes a second process of the server.  No run of its own shows this;
`process_safety` has these behaviours, and `Strays` names the processes.

`configs_env`: a server has variables in `common` and in the target `codex`.
`GenerateConfigsWithPath` writes codex first; `mergeSpec` (`registry.go:301`)
writes codex's variables into the map that the copy of the common spec shares
with the registry, and the configuration of the next target gets them too.  In
the gateway the same write makes two REST calls for one server write one map at
the same time (`ConcurrentMapWrites` of `ToolCall`).

Without a run of their own, but in the model: the two Deletes of the secret stores
that return nil and leave the value (section *Secrets*).  `LatestIsRead` without
`kept` fails for either of them.

## Proofs

All theorems hold for every number of servers, callers, connections, hosts and
clients, processes, keys and requests and all limits that satisfy the
assumptions in the modules: the limits are positive (New replaces others by
defaults), what is counted is finite, hosts and clients are different sessions,
the registry file has the shape `Load` gives it, and the marker values (`NoConn`,
`Absent`, `Torn` and the like, and the places of `LeaseAssumption`) differ from
the real ones.

*Pool* (`PoolProofs`).  The invariant `IInv` is the types, `HoldsConn` (a caller
has a connection exactly while holding), `WithinLimits`, `NoLostWakeup` and
`ClosedIsEmpty`.  `WithinLimits` as stated, in use and idle together, is what
makes it inductive: Put moves a connection from one count to the other, and a
reservation follows only on an empty stack or on one connection dropped.
`NoLostWakeup` holds because a caller goes to wait only when it has just seen
every slot in use and every action that frees a slot or closes the pool ends with
a broadcast.  The three outcomes of a look at the stack are proved once
(`TakeStep`, `ReserveStep`, `SaturatedStep`) and used for both Get and the loop,
and the two ends of a slot once (`ReleaseStep`).

*Slots* (`PoolProofs`).  `SlotInv` adds that every stack and every holder has
connections of the right server (`Own`) and that `activeCount` and
`stats.ActiveConns` are cardinalities.  `Own` is needed because Put frees the
slot of the server it reads from the connection.  A step is one of three: a
caller enters a slot, leaves one, or none moves.  That the counters are natural
numbers, part of `TypeOK`, follows only from here.

*Connections* (`PoolConnProofs`).  `ConnInv` says that no stack lists a connection
twice, no two callers have the same one, none is with a caller and in a stack,
and one is open exactly while it is with a caller or in the stack of its server.
Whatever a critical section does, it makes one of five moves: `Evicted` (some of
the stacks' connections are closed), `Taken` (so many are closed and the next
goes to the caller), `Opened`, `Shelved` and `Discarded`.  `NextMoves` shows which
step makes which, from lemmas about the parts of a stack that Get, the reaper and
ClearServer leave; that a move keeps `ConnInv` is shown once per move.
`Exclusive` and `NoLeak` follow.  `OnlyBrokenDropped` follows from `Looks`: what a
look at the stack closes on its way is unhealthy.

*Statistics*.  `IdleConns` is one counter for all servers, the stacks are many.
`Bottom`, the set of all their positions, makes it a cardinality: a look that
drops n connections takes n positions off one stack (`LookCounted`), Put adds or
keeps (`PutCounted`), the reaper takes some off each (`EvictionCounted`).
`HonestlyExhausted` needs the other counter: a Get that gives up has seen
`activeCount` at the limit, which is how many callers hold slots (`SlotInv`), and
an empty stack or, in the loop, one whose top was dropped.

*Refinement*.  `Place` says for a connection of `PoolLease` whether it is absent,
parked or with which caller, `Reserved` for a caller the server it dials.  Under
`FullInv` it is right (`PlaceRight`: a connection is absent exactly if it is
closed, parked exactly if it is in a stack), and each move is the update of
`place` one expects.  The limit that `PoolLease` puts on a new lease counts
leases and reservations, which are as many as `activeCount` says
(`LeasedSize`, `RoomToReserve`).  `NextLease` puts the critical sections together:
a look is evictions and a lease, or a reservation, in one step; a dial is its
end; Put parks or drops; Close shuts.

*Gateway* (`GatewayHubProofs`).  `NoDeadHostRegistered` and `AttachmentsAgree`
are inductive with the types of the tables and `FoundHost`.  The interesting
step is the removal by name: it removes too much (see the finding), never too
little.  `ClientsCounted` and `NothingLeftOpen` are inductive with the finiteness
of what is counted and the invariant above: every action leaves the set of
counted handlers alone or moves one client in or out (`GaugeKept`, `GaugeMoves`),
and every way out of `Handler` closes what it opened (`OpenStep`).  In the types
the gauge of hosts is the difficulty: it is not the number of entries (see the
finding), but never less, since a removal counts only if there was an entry, so
it does not fall below zero.  By how much it is off is
`HostGaugeCountsReplacements`: each registration over an entry adds one to the
difference, and no other step changes it.

*Router* (`RouterProofs`).  `UnhealthyIsTripped` is inductive with the types, and
the action property `RefusedOnlyInWindow` follows from it at each Route, and so
does `TriedAfterWindow`: a server New has seen is routed to its local side
whenever that side's window is over, so a refusal needs no action to end but the
passing of time.  `AnswersUnlessNew` assumes that no reload brings a new server;
then the registry stays within the servers that have a `Health`.

*Process* (`ProcessProofs`).  `NoOrphan` is inductive with: the mutex has one
holder (`Mutex`), which phases have taken a process out, and that it has exited
after SIGKILL (`Holders`), processes are in the table under their name
(`Named`), and while a server is started or stopped the table does not have it
(`TakenOut`). `NoOrphan` speaks of the processes that are no strays; a local
process is never one by definition, so for those it needs `Holders`.
`OneInstance` follows: of two running processes of a name, strays aside, neither
can be in the table while the other is stopped, and two are not stopped at a
time.  `Pending`, what was collected and runs is a stray, still to be stopped by
name, or being stopped, gives `StopsWhatItSaw`; it needs `NoOrphan` where `Stop`
finds no entry and passes on.  For `ProcessLife`, what runs is told by name, and
a server is being stopped while its process is in the hands of `Stop`.  A start
is a `Begin` because of `NoOrphan`: a server not in the table runs nothing but
strays while nobody is stopping.  The end of a stop is an `EndStop` because of
`Holders` and `TakenOut`: a local process is gone, a remote one is a stray if it
runs, and no other took its place.  `StopEndsTheProcess` says of a single stop,
in the terms of the manager, that a local process whose Stop is over has exited,
and that until then the table has none in its place.

*Exchange* (`ExchangeProofs`).  `Numbered` says that ids are as good as numbers,
because the one counter of the proxy makes both; `Lines` that callers have
connections of their own, by the leases of the pool; `Own` that what a caller
waits for is on its own connection only.  `ReplyIsMine` needs the first,
`NoReplyStolen` all three, at each step that takes a reply off a connection.
Over the hub the lines share their replies, and a request is `Alive` while it is
waited for, unanswered or in an inbox; `Distinct` says that among the requests
alive an id other than 1 stands for one request, since the counter only grows
and gives that id once.  `HInv` is one invariant or the other, by the router's
decision, and carries all three properties to `HSpec`.

*Leases and processes* (`ExchangeProofs`).  `CallsKeepTheLease` is the other half
of the pool's refinement.  That the calls take no steps but those of `PoolLease`
is so by the shape of `Exchange` (the lemma `CallsAreLeases`); the theorem says
that this shape holds nobody up: whatever a caller does next meets what the pool
asks for it (`NothingRefused`).  One that has no call holds nothing and no room;
one that dials has room reserved, and its new line is absent and of that server;
one that is to Put holds that connection and no other.  A Put done twice, of a
connection of another caller, or forgotten would break it.  Each step of either
backend is one of `Seating`, by what it does to leases, stages and lines;
`Seated` (types, `Lines`, and a reservation exactly during the dial, for the
server of the line) and `Leased` (what a caller has leased is its line) are kept
by all of them and imply it.  `LeaseWithinLimits` is about `PoolLease` alone, and
shows by cardinalities that a guard on new reservations is enough.
`ProcessesWithinLimit` puts the two together: a process whose initialize exchange
is under way is in no table of the pool, but its caller has a reservation, and no
two have the same (`DialsReserved`); so the limit holds of what runs, not only of
what is counted.

*Tool calls* (`ToolCallProofs`).  `Frozen` says that reading specs has changed
nothing of them but `Env`, in particular no list of allowed tools; with `Checked`,
that handlers past the allowlist have been checked against the file, it is
inductive and gives `OnlyAllowedCalled`.  That a merge of specs is a spec
(`MergedIsSpec`) is a lemma, used for the registry and for the answer alike.
`ConnectionsGuarded`: every connection is of a handler in its call and has its
watcher.  `SafeUnlessShared` assumes that no server has an `Env` map both in
`common` and, with entries, in a target: then reading changes nothing
(`UnsharedRead`), and no two merges write.

*Secrets* (`SecretsProofs`).  Next to the types, `Saves` says that while no two
saves have collided one process saves at a time, has the only handle, and the
temporary file is what its step has made of it: torn while it is filled, whole
when it is renamed.  With no collision no rename moves a torn file, which is
`FileNeverTorn`.  `LatestRead` needs more.  `Kinds` says that processes take the
steps of their primary backend only and that a backend nobody had as primary
holds nothing.  `Reads` says that while `clean` processes take turns on one
backend and one master key (`Turns`, `Keyed`), that what the backend has stored
and what a process has cached may be read (`Stored`, `Cached`: it is in `may`,
or in `kept` for the keychain's two services and the cache of 1Password), and
that an operation under way leaves only what may be read, wherever it is cut
short (`UnderWay`).  The point of it is that a cache is not written when the
store is: the file's cache is changed before the file, the 1Password cache by a
Get after the item, and a crash may come between.  `AbsentReads` is the Delete
that finds no item: what the process has cached of the key becomes `kept`.
`Solo` turns the taking of turns into one running process, so that a step need
not be compared with others.

`RouterProofs`, `ProcessProofs` and `ExchangeProofs` also prove the type
invariants of their modules, and `RouterProofs` that a side is marked unhealthy
exactly while its breaker is tripped; no run checks these any more.

Three theorems have a hypothesis on the behaviour or the registry: `NothingNew`
(`AnswersUnlessNew`), `NoneReplaced` (`HostsRightUnlessReplaced`) and `Unshared`
(`SafeUnlessShared`).  Each is the negation of what a finding needs, and the
property is the one the finding violates, or in `SafeUnlessShared` the reason
for it: they say that the finding takes this and no more.

Model-checked only: liveness (`GetReturns`, `Drained`, `HandlersLeave`, `SendEnds`,
`RelayEnds`, `Reopens`, `StopsReturn`, `Answered`), since fairness and ENABLED are
beyond the prover, and the findings.  Every invariant and every action property
that a passing run checks is also proved.

## Not modelled, and the plan

Left out for good, as functions of one input or wiring: validators, profiles
(a filter of one list), command line tools, OIDC, redaction, telemetry and result
normalisation, the text of manifests, the search for the registry file and its
parsing, the read-only queries on hosts and tools, `HubClient` and the
registration of tools before the proxy's first call.  The pool's counters Hits,
Misses and TotalConns, which nothing reads, and the ciphers of the secret file,
which are taken as perfect.

Two things the code does are excluded from properties rather than stated: a nil
entry under `targets` makes `mergeSpec` dereference nil, and the registry that
`SetRegistry` installs rebuilds the tool index without the tools of `common`; no
command calls `SetRegistry`.

Open:

1. One specification of the proxy over `Pool` itself.  `Exchange` takes steps of
   `PoolLease` only and `Pool` is an implementation of it, both proved; what is
   not written down is the two composed under one mapping.
2. `ReapIdle` with `LastActivity`: which used processes are reaped between its
   look at the table and the stops.
3. A proof for `Configs`: that the files agree with the registry when no map is
   shared, as `SafeUnlessShared` says of tool calls.
