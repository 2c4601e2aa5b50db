----------------------------- MODULE GatewayHub -----------------------------
(***************************************************************************)
(* The websocket hub of pkg/gateway/hub.go: hosts that register under a    *)
(* server name, clients attached to a host, and clients relayed to a       *)
(* backend when no host is registered.                                     *)
(*                                                                         *)
(* A host or client is one websocket session, that is one run of Handler   *)
(* after the upgrade.  Its peer may disconnect at any time, and may stop   *)
(* reading for good (`stalled`), so that a write to it blocks: no write of *)
(* the hub has a deadline.  A stalled peer sends no pong either, so the    *)
(* read deadline ends its session's read loop.                             *)
(*                                                                         *)
(* Message contents, hooks that drop a message, redaction and spans are    *)
(* left out: they change no state of the hub.                              *)
(***************************************************************************)
EXTENDS Naturals, FiniteSets

CONSTANTS Server, Host, Client,
          Listed,       \* the servers of the hub's Registry
          NoHost

ASSUME HubAssumption ==
    /\ Listed \subseteq Server
    /\ NoHost \notin Host
    /\ Host \cap Client = {}
    /\ IsFiniteSet(Server) /\ IsFiniteSet(Host) /\ IsFiniteSet(Client)

VARIABLES
    hosts,              \* [Server -> Host \cup {NoHost}]: Hub.hosts
    hpc,                \* [Host -> HostPC]: where the host's handler is
    cpc,                \* [Client -> ClientPC]: where the client's handler is
    serverName,         \* [Host \cup Client -> Server]: the query parameter
    host,               \* [Client -> Host \cup {NoHost}]: what GetHost returned
    clients,            \* [Host -> SUBSET Client]: Host.clients
    todo,               \* [Host -> SUBSET Client]: not yet written by Broadcast
    open,               \* sessions whose connection the hub has not closed
    stalled,            \* sessions whose peer does not read any more
    relays,             \* [Client -> SUBSET Direction]: running relay goroutines
    stop,               \* clients whose stop channel is closed
    backends,           \* clients with an open backend connection
    HostsConnected, ClientsConnected    \* the gauges

hostVars == <<hosts, hpc, clients, todo, HostsConnected>>
proxyVars == <<relays, stop, backends>>
vars == <<hostVars, proxyVars, cpc, serverName, host, open, stalled, ClientsConnected>>

Direction == {"client_to_backend", "backend_to_client"}
HostPC == {"new", "reading", "broadcasting", "leaving", "closing", "gone"}
ClientPC == {"new", "found", "reading", "sending", "leaving", "closing",
             "unmatched", "dialing", "relaying", "gone"}

Init ==
    /\ hosts = [s \in Server |-> NoHost]
    /\ hpc = [h \in Host |-> "new"]
    /\ cpc = [c \in Client |-> "new"]
    /\ serverName \in [Host \cup Client -> Server]
    /\ host = [c \in Client |-> NoHost]
    /\ clients = [h \in Host |-> {}] /\ todo = [h \in Host |-> {}]
    /\ open = {} /\ stalled = {}
    /\ relays = [c \in Client |-> {}] /\ stop = {} /\ backends = {}
    /\ HostsConnected = 0 /\ ClientsConnected = 0
-----------------------------------------------------------------------------
(* Hosts.                                                                  *)

\* A host that is already registered is closed and replaced; its own handler
\* finds out when its read fails.
RegisterHost(h) ==
    LET s == serverName[h] IN
    /\ hpc[h] = "new"
    /\ open' = (open \ {hosts[s]}) \cup {h}
    /\ hosts' = [hosts EXCEPT ![s] = h]
    /\ HostsConnected' = HostsConnected + 1
    /\ hpc' = [hpc EXCEPT ![h] = "reading"]
    /\ UNCHANGED <<clients, todo, proxyVars, cpc, serverName, host, stalled, ClientsConnected>>

\* ReadMessage fails: the peer is gone, silent for 60s, or the session closed.
HostReadError(h) ==
    /\ hpc[h] = "reading"
    /\ hpc' = [hpc EXCEPT ![h] = "leaving"]
    /\ UNCHANGED <<hosts, clients, todo, HostsConnected, proxyVars, cpc, serverName, host,
                   open, stalled, ClientsConnected>>

\* A message of the host goes to all its clients, under a read lock on clients.
HostMessage(h) ==
    /\ hpc[h] = "reading" /\ h \in open
    /\ hpc' = [hpc EXCEPT ![h] = "broadcasting"]
    /\ todo' = [todo EXCEPT ![h] = clients[h]]
    /\ UNCHANGED <<hosts, clients, HostsConnected, proxyVars, cpc, serverName, host,
                   open, stalled, ClientsConnected>>

\* A write that fails is only logged; one to a stalled peer blocks.
BroadcastTo(h, c) ==
    /\ hpc[h] = "broadcasting" /\ c \in todo[h] \ stalled
    /\ todo' = [todo EXCEPT ![h] = @ \ {c}]
    /\ UNCHANGED <<hosts, hpc, clients, HostsConnected, proxyVars, cpc, serverName, host,
                   open, stalled, ClientsConnected>>

BroadcastEnd(h) ==
    /\ hpc[h] = "broadcasting" /\ todo[h] = {}
    /\ hpc' = [hpc EXCEPT ![h] = "reading"]
    /\ UNCHANGED <<hosts, clients, todo, HostsConnected, proxyVars, cpc, serverName, host,
                   open, stalled, ClientsConnected>>

\* Mutant of UnregisterHost: the entry stays.
UnregisterKeeps(h) ==
    /\ hpc[h] = "leaving"
    /\ HostsConnected' = HostsConnected
    /\ hpc' = [hpc EXCEPT ![h] = "closing"]
    /\ UNCHANGED <<hosts, clients, todo, proxyVars, cpc, serverName, host, open, stalled, ClientsConnected>>

\* Whatever host is registered under the name is removed.
UnregisterHost(h) ==
    LET s == serverName[h] IN
    /\ hpc[h] = "leaving"
    /\ HostsConnected' = IF hosts[s] = NoHost THEN HostsConnected ELSE HostsConnected - 1
    /\ hosts' = [hosts EXCEPT ![s] = NoHost]
    /\ hpc' = [hpc EXCEPT ![h] = "closing"]
    /\ UNCHANGED <<clients, todo, proxyVars, cpc, serverName, host, open, stalled, ClientsConnected>>

HostClose(h) ==
    /\ hpc[h] = "closing"
    /\ open' = open \ {h}
    /\ hpc' = [hpc EXCEPT ![h] = "gone"]
    /\ UNCHANGED <<hosts, clients, todo, HostsConnected, proxyVars, cpc, serverName, host,
                   stalled, ClientsConnected>>
-----------------------------------------------------------------------------
(* Clients of a host.                                                      *)

Move(c, from, to) ==
    /\ cpc[c] = from
    /\ cpc' = [cpc EXCEPT ![c] = to]
    /\ UNCHANGED <<serverName, stalled>>

GetHost(c) ==
    LET h == hosts[serverName[c]] IN
    /\ Move(c, "new", IF h = NoHost THEN "unmatched" ELSE "found")
    /\ host' = [host EXCEPT ![c] = h]
    /\ open' = open \cup {c}
    /\ UNCHANGED <<hostVars, proxyVars, ClientsConnected>>

\* Broadcast's read lock keeps AddClient and RemoveClient out.
Unlocked(h) == hpc[h] # "broadcasting"

AddClient(c) ==
    /\ Move(c, "found", "reading")
    /\ Unlocked(host[c])
    /\ clients' = [clients EXCEPT ![host[c]] = @ \cup {c}]
    /\ ClientsConnected' = ClientsConnected + 1
    /\ UNCHANGED <<hosts, hpc, todo, HostsConnected, proxyVars, host, open>>

ClientReadError(c) ==
    /\ Move(c, "reading", "leaving")
    /\ UNCHANGED <<hostVars, proxyVars, host, open, ClientsConnected>>

ClientMessage(c) ==
    /\ Move(c, "reading", "sending")
    /\ UNCHANGED <<hostVars, proxyVars, host, open, ClientsConnected>>

\* Mutant of HostSend: it has no way out of a closed host.
HostSendOpen(c) ==
    /\ host[c] \in open /\ host[c] \notin stalled
    /\ Move(c, "sending", "reading")
    /\ UNCHANGED <<hostVars, proxyVars, host, open, ClientsConnected>>

\* Host.Send: it blocks while the host is stalled, and the callers that wait for
\* Host.mu behind it with it, and fails once the host's connection is closed.
HostSend(c) ==
    /\ host[c] \in open => host[c] \notin stalled
    /\ Move(c, "sending", IF host[c] \in open THEN "reading" ELSE "leaving")
    /\ UNCHANGED <<hostVars, proxyVars, host, open, ClientsConnected>>

\* Mutant of HostSendError: the client is not removed from the host.
HostSendErrorKeeps(c) ==
    /\ Move(c, "sending", "closing")
    /\ UNCHANGED <<hostVars, proxyVars, host, open, ClientsConnected>>

\* The peer has disconnected without a word: the write fails.
HostSendError(c) ==
    /\ Move(c, "sending", "leaving")
    /\ UNCHANGED <<hostVars, proxyVars, host, open, ClientsConnected>>

\* Mutant of RemoveClient: it waits for the host's own goroutine.
RemoveByReader(c) ==
    /\ Move(c, "leaving", "closing")
    /\ hpc[host[c]] = "reading"
    /\ clients' = [clients EXCEPT ![host[c]] = @ \ {c}]
    /\ UNCHANGED <<hosts, hpc, todo, HostsConnected, proxyVars, host, open, ClientsConnected>>

RemoveClient(c) ==
    /\ Move(c, "leaving", "closing")
    /\ Unlocked(host[c])
    /\ clients' = [clients EXCEPT ![host[c]] = @ \ {c}]
    /\ UNCHANGED <<hosts, hpc, todo, HostsConnected, proxyVars, host, open, ClientsConnected>>

ClientClose(c) ==
    /\ Move(c, "closing", "gone")
    /\ ClientsConnected' = ClientsConnected - 1
    /\ open' = open \ {c}
    /\ UNCHANGED <<hostVars, proxyVars, host>>
-----------------------------------------------------------------------------
(* Clients relayed to a backend.                                           *)

\* isAllowedServer looks at the hosts again: one may have registered since.
Allowed(s) == hosts[s] # NoHost \/ s \in Listed

\* Mutant of ProxyReject: the connection is not closed.
ProxyRejectOpen(c) ==
    /\ ~Allowed(serverName[c])
    /\ Move(c, "unmatched", "gone")
    /\ UNCHANGED <<hostVars, proxyVars, host, open, ClientsConnected>>

ProxyReject(c) ==
    /\ ~Allowed(serverName[c])
    /\ Move(c, "unmatched", "gone")
    /\ open' = open \ {c}
    /\ UNCHANGED <<hostVars, proxyVars, host, ClientsConnected>>

ProxyAllow(c) ==
    /\ Allowed(serverName[c])
    /\ Move(c, "unmatched", "dialing")
    /\ UNCHANGED <<hostVars, proxyVars, host, open, ClientsConnected>>

\* Mutant of ProxyDialError: the gauge goes down though it never went up.
ProxyDialErrorCounts(c) ==
    /\ Move(c, "dialing", "gone")
    /\ ClientsConnected' = ClientsConnected - 1
    /\ open' = open \ {c}
    /\ UNCHANGED <<hostVars, proxyVars, host>>

\* No usable backend URL, or the dial fails.
ProxyDialError(c) ==
    /\ Move(c, "dialing", "gone")
    /\ open' = open \ {c}
    /\ UNCHANGED <<hostVars, proxyVars, host, ClientsConnected>>

ProxyStart(c) ==
    /\ Move(c, "dialing", "relaying")
    /\ ClientsConnected' = ClientsConnected + 1
    /\ backends' = backends \cup {c}
    /\ relays' = [relays EXCEPT ![c] = Direction]
    /\ UNCHANGED <<hostVars, stop, host, open>>

\* A relay goroutine ends: its read or its write fails, as both do once the
\* handler has closed the two connections.
RelayError(c, d) ==
    /\ d \in relays[c]
    /\ relays' = [relays EXCEPT ![c] = @ \ {d}]
    /\ stop' = stop \cup {c}
    /\ UNCHANGED <<hostVars, backends, cpc, serverName, host, open, stalled, ClientsConnected>>

\* A pinger's write fails.
PingError(c) ==
    /\ cpc[c] = "relaying" /\ c \notin stop
    /\ stop' = stop \cup {c}
    /\ UNCHANGED <<hostVars, relays, backends, cpc, serverName, host, open, stalled, ClientsConnected>>

\* Mutants of ProxyEnd: the gauge stays up; the backend stays open.
ProxyEndUncounted(c) ==
    /\ c \in stop
    /\ Move(c, "relaying", "gone")
    /\ open' = open \ {c}
    /\ backends' = backends \ {c}
    /\ UNCHANGED <<hostVars, relays, stop, host, ClientsConnected>>
ProxyEndKeepsBackend(c) ==
    /\ c \in stop
    /\ Move(c, "relaying", "gone")
    /\ ClientsConnected' = ClientsConnected - 1
    /\ open' = open \ {c}
    /\ UNCHANGED <<hostVars, relays, stop, backends, host>>

ProxyEnd(c) ==
    /\ c \in stop
    /\ Move(c, "relaying", "gone")
    /\ ClientsConnected' = ClientsConnected - 1
    /\ open' = open \ {c}
    /\ backends' = backends \ {c}
    /\ UNCHANGED <<hostVars, relays, stop, host>>

\* The peer stops reading, for good.
Stall(x) ==
    /\ x \in open \ stalled
    /\ stalled' = stalled \cup {x}
    /\ UNCHANGED <<hostVars, proxyVars, cpc, serverName, host, open, ClientsConnected>>
-----------------------------------------------------------------------------
Next ==
    \/ \E h \in Host :
          \/ RegisterHost(h) \/ HostReadError(h) \/ HostMessage(h)
          \/ BroadcastEnd(h) \/ UnregisterHost(h) \/ HostClose(h)
          \/ \E c \in Client : BroadcastTo(h, c)
    \/ \E c \in Client :
          \/ GetHost(c) \/ AddClient(c) \/ ClientReadError(c) \/ ClientMessage(c)
          \/ HostSend(c) \/ HostSendError(c) \/ RemoveClient(c) \/ ClientClose(c)
          \/ ProxyReject(c) \/ ProxyAllow(c) \/ ProxyDialError(c) \/ ProxyStart(c)
          \/ PingError(c) \/ ProxyEnd(c)
          \/ \E d \in Direction : RelayError(c, d)
    \/ \E x \in Host \cup Client : Stall(x)

Spec == Init /\ [][Next]_vars

\* Goroutines run.  Every read of a closed session fails, and of a stalled one
\* once its deadline has passed: only a pong moves it, never a message.  A
\* RWMutex lets a waiting writer in between two readers.
Fairness ==
    /\ \A h \in Host :
          /\ SF_vars(HostReadError(h) /\ (h \notin open \/ h \in stalled))
          /\ WF_vars(BroadcastEnd(h)) /\ WF_vars(UnregisterHost(h)) /\ WF_vars(HostClose(h))
          /\ \A c \in Client : WF_vars(BroadcastTo(h, c))
    /\ \A c \in Client :
          /\ SF_vars(AddClient(c)) /\ SF_vars(RemoveClient(c))
          /\ SF_vars(ClientReadError(c) /\ c \in stalled)
          /\ WF_vars(HostSend(c)) /\ WF_vars(ClientClose(c))
          /\ WF_vars(ProxyReject(c) \/ ProxyAllow(c))
          /\ WF_vars(ProxyDialError(c) \/ ProxyStart(c))
          /\ WF_vars(ProxyEnd(c))
          /\ \A d \in Direction : WF_vars(RelayError(c, d) /\ c \notin backends)

FairSpec == Spec /\ Fairness
=============================================================================
