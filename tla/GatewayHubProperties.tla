------------------------ MODULE GatewayHubProperties ------------------------
(***************************************************************************)
(* What the hub of module GatewayHub keeps, on every path out of Handler.  *)
(***************************************************************************)
EXTENDS GatewayHub

Registered == {s \in Server : hosts[s] # NoHost}
Attached == {"reading", "sending", "leaving"}
Counted == Attached \cup {"closing", "relaying"}

\* Every variable of the hub keeps its type.
TypeOK ==
    /\ hosts \in [Server -> Host \cup {NoHost}]
    /\ hpc \in [Host -> HostPC]
    /\ cpc \in [Client -> ClientPC]
    /\ serverName \in [Host \cup Client -> Server]
    /\ host \in [Client -> Host \cup {NoHost}]
    /\ clients \in [Host -> SUBSET Client] /\ todo \in [Host -> SUBSET Client]
    /\ open \subseteq Host \cup Client /\ stalled \subseteq Host \cup Client
    /\ relays \in [Client -> SUBSET Direction]
    /\ stop \subseteq Client /\ backends \subseteq Client
    /\ HostsConnected \in Nat /\ ClientsConnected \in Nat

\* GetHost never returns a host whose handler has run its deferred calls: the
\* removal by name never misses the host's own entry, however many replaced each
\* other meanwhile.
NoDeadHostRegistered ==
    \A s \in Registered :
        /\ serverName[hosts[s]] = s
        /\ hpc[hosts[s]] \in {"reading", "broadcasting", "leaving"}
        /\ hosts[s] \in open

\* A host knows exactly the clients whose handlers are between AddClient and
\* RemoveClient, also after it was replaced or has gone, so nothing is written
\* to a client session that is over.
AttachmentsAgree ==
    \A c \in Client, h \in Host :
        c \in clients[h] <=> cpc[c] \in Attached /\ host[c] = h

\* The gauge mcp_gateway_clients_connected counts the client sessions that are
\* attached or relayed, on every way out of Handler.
ClientsCounted ==
    ClientsConnected =
        Cardinality({c \in Client : cpc[c] \in Counted})

\* A session that is over has left no open socket behind, to the peer or to the
\* backend, on any path.
NothingLeftOpen ==
    /\ \A x \in Host : hpc[x] = "gone" => x \notin open
    /\ \A c \in Client : cpc[c] = "gone" => c \notin open \cup backends

\* A client of h has stopped reading: Broadcast may keep Host.cMu for good.
Stuck(h) == h \in Host /\ clients[h] \cap stalled # {}

\* A client whose read loop has ended gets out, and so does the handler of a host
\* that was replaced, unless a client of the same host has stopped reading:
\* Broadcast then keeps the lock that RemoveClient needs.
HandlersLeave ==
    /\ \A c \in Client : cpc[c] = "leaving" ~> cpc[c] = "gone" \/ Stuck(host[c])
    /\ \A h \in Host : hpc[h] # "new" /\ h \notin open ~> hpc[h] = "gone" \/ Stuck(h)

\* A message to a host never blocks its client for good: the host takes it, or
\* its read deadline closes the session and the write fails.
SendEnds ==
    \A c \in Client : cpc[c] = "sending" ~> cpc[c] # "sending" \/ Stuck(host[c])

\* One end of a relayed session failing ends both relay goroutines and the
\* handler, and closes both connections, even when a peer does not read.
RelayEnds ==
    \A c \in Client : c \in stop ~> cpc[c] = "gone" /\ relays[c] = {}

\* "Hub maintains the set of active host connections" (hub.go:143): a host whose
\* handler serves an open connection is the one registered under its name.
ActiveHostsRegistered ==
    \A h \in Host :
        hpc[h] \in {"reading", "broadcasting"} /\ h \in open
            => hosts[serverName[h]] = h
=============================================================================
