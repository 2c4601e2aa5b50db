-------------------------- MODULE GatewayHubProofs --------------------------
(***************************************************************************)
(* Proofs about the hub for any number of servers, hosts and clients:      *)
(* its two tables, of hosts by name and of clients by host, agree with     *)
(* where the handlers are, its gauge counts the clients, and what ends is  *)
(* closed.                                                                 *)
(***************************************************************************)
EXTENDS GatewayHubProperties, FiniteSetTheorems, TLAPS

\* The part of TypeOK that the tables need; the gauges are not among them.
Tables ==
    /\ hosts \in [Server -> Host \cup {NoHost}]
    /\ hpc \in [Host -> HostPC]
    /\ cpc \in [Client -> ClientPC]
    /\ serverName \in [Host \cup Client -> Server]
    /\ host \in [Client -> Host \cup {NoHost}]
    /\ clients \in [Host -> SUBSET Client]
    /\ open \subseteq Host \cup Client

\* A client handler that has found a host has one.
FoundHost == \A c \in Client : cpc[c] \in Attached \cup {"found"} => host[c] \in Host

\* Only the handlers' own deferred calls end a host: RegisterHost may replace and
\* close it, but then the name maps to another one.
IInv == Tables /\ FoundHost /\ NoDeadHostRegistered /\ AttachmentsAgree

\* Initially both tables are empty.
LEMMA InitIInv == Init => IInv
<1> SUFFICES ASSUME Init PROVE IInv
  OBVIOUS
<1> USE HubAssumption DEF Init
<1>1. Tables
  BY DEF Tables, HostPC, ClientPC
<1>2. FoundHost /\ NoDeadHostRegistered /\ AttachmentsAgree
  BY DEF FoundHost, Attached, NoDeadHostRegistered, Registered, AttachmentsAgree
<1> QED
  BY <1>1, <1>2 DEF IInv

-----------------------------------------------------------------------------
(* Steps of a host's handler.                                              *)

\* The host that takes a name is open, and the one it replaces is in no entry.
LEMMA RegisterStep ==
  ASSUME IInv, NEW h \in Host, RegisterHost(h)
  PROVE  IInv'
<1> USE HubAssumption
<1> DEFINE s == serverName[h]
<1>1. Tables /\ s \in Server
  BY DEF IInv, Tables
<1>2. /\ hpc[h] = "new" /\ hpc' = [hpc EXCEPT ![h] = "reading"]
      /\ open' = (open \ {hosts[s]}) \cup {h}
      /\ hosts' = [hosts EXCEPT ![s] = h]
      /\ UNCHANGED <<clients, cpc, serverName, host>>
  BY DEF RegisterHost
<1>3. Tables'
  BY <1>1, <1>2 DEF Tables, HostPC
<1>4. NoDeadHostRegistered'
  <2> SUFFICES ASSUME NEW r \in Server, hosts'[r] # NoHost
               PROVE  /\ serverName[hosts'[r]] = r
                      /\ hpc'[hosts'[r]] \in {"reading", "broadcasting", "leaving"}
                      /\ hosts'[r] \in open'
    BY <1>2 DEF NoDeadHostRegistered, Registered
  <2>1. CASE r = s
    BY <1>1, <1>2, <2>1 DEF Tables
  <2>2. CASE r # s
    <3>1. hosts'[r] = hosts[r] /\ hosts[r] \in Host
      BY <1>1, <1>2, <2>2 DEF Tables
    <3>2. /\ serverName[hosts[r]] = r /\ hosts[r] \in open
          /\ hpc[hosts[r]] \in {"reading", "broadcasting", "leaving"}
      BY <3>1 DEF IInv, NoDeadHostRegistered, Registered
    <3>3. hosts[r] # h /\ hosts[r] # hosts[s]
      <4>1. hosts[s] # NoHost => serverName[hosts[s]] = s
        BY <1>1 DEF IInv, NoDeadHostRegistered, Registered
      <4> QED
        BY <1>2, <2>2, <3>1, <3>2, <4>1
    <3> QED
      BY <1>1, <1>2, <3>1, <3>2, <3>3 DEF Tables
  <2> QED
    BY <2>1, <2>2
<1>5. FoundHost' /\ AttachmentsAgree'
  BY <1>2 DEF IInv, FoundHost, AttachmentsAgree
<1> QED
  BY <1>3, <1>4, <1>5 DEF IInv

\* The removal by name leaves no entry of the host that ends.
LEMMA UnregisterStep ==
  ASSUME IInv, NEW h \in Host, UnregisterHost(h) \/ HostClose(h)
  PROVE  IInv'
<1> USE HubAssumption
<1>1. Tables /\ serverName[h] \in Server
  BY DEF IInv, Tables
<1>2. UNCHANGED <<clients, cpc, serverName, host>>
  BY DEF UnregisterHost, HostClose, proxyVars
<1>3. Tables'
  BY <1>1, <1>2 DEF Tables, HostPC, UnregisterHost, HostClose
<1>4. NoDeadHostRegistered'
  <2> SUFFICES ASSUME NEW r \in Server, hosts'[r] # NoHost
               PROVE  /\ serverName[hosts'[r]] = r
                      /\ hpc'[hosts'[r]] \in {"reading", "broadcasting", "leaving"}
                      /\ hosts'[r] \in open'
    BY <1>2 DEF NoDeadHostRegistered, Registered
  <2>1. hosts'[r] = hosts[r]
    BY <1>1 DEF Tables, UnregisterHost, HostClose
  <2>2. /\ serverName[hosts[r]] = r /\ hosts[r] \in open
        /\ hpc[hosts[r]] \in {"reading", "broadcasting", "leaving"}
    BY <2>1 DEF IInv, NoDeadHostRegistered, Registered
  <2>3. hosts[r] # h
    <3>1. CASE UnregisterHost(h)
      BY <1>1, <2>1, <2>2, <3>1 DEF UnregisterHost, Tables
    <3>2. CASE HostClose(h)
      BY <2>2, <3>2 DEF HostClose
    <3> QED
      BY <3>1, <3>2
  <2> QED
    BY <1>1, <2>1, <2>2, <2>3 DEF Tables, UnregisterHost, HostClose
<1>5. FoundHost' /\ AttachmentsAgree'
  BY <1>2 DEF IInv, FoundHost, AttachmentsAgree
<1> QED
  BY <1>3, <1>4, <1>5 DEF IInv

\* A host that reads, broadcasts or stops reading keeps its entry.
LEMMA ReadingStep ==
  ASSUME IInv, NEW h \in Host,
         \/ HostReadError(h) \/ HostMessage(h) \/ BroadcastEnd(h)
         \/ \E c \in Client : BroadcastTo(h, c)
  PROVE  IInv'
<1>1. Tables
  BY DEF IInv
<1>2. UNCHANGED <<hosts, clients, cpc, serverName, host, open>>
  BY DEF HostReadError, HostMessage, BroadcastEnd, BroadcastTo
<1>3. /\ hpc' \in [Host -> HostPC]
      /\ \A k \in Host : hpc[k] \in {"reading", "broadcasting", "leaving"}
                            => hpc'[k] \in {"reading", "broadcasting", "leaving"}
  BY <1>1 DEF Tables, HostPC, HostReadError, HostMessage, BroadcastEnd, BroadcastTo
<1>4. Tables'
  BY <1>1, <1>2, <1>3 DEF Tables
<1>5. NoDeadHostRegistered'
  BY <1>1, <1>2, <1>3 DEF IInv, Tables, NoDeadHostRegistered, Registered
<1>6. FoundHost' /\ AttachmentsAgree'
  BY <1>2 DEF IInv, FoundHost, AttachmentsAgree
<1> QED
  BY <1>4, <1>5, <1>6 DEF IInv

-----------------------------------------------------------------------------
(* Steps of a client's handler.                                            *)

\* No client session is a host session: opening and closing one moves no host.
LEMMA ClientKeepsHosts ==
  ASSUME IInv, NEW c \in Client, UNCHANGED <<hosts, hpc, serverName>>,
         open' \in {open, open \cup {c}, open \ {c}}
  PROVE  NoDeadHostRegistered' /\ open' \subseteq Host \cup Client
<1>1. \A s \in Registered : hosts[s] \in Host /\ hosts[s] # c
  BY HubAssumption DEF IInv, Tables, Registered
<1> QED
  BY <1>1 DEF IInv, Tables, NoDeadHostRegistered, Registered

\* The steps into and out of a host's table of clients.
LEMMA AttachStep ==
  ASSUME IInv, NEW c \in Client, AddClient(c) \/ RemoveClient(c)
  PROVE  IInv'
<1>1. Tables /\ host[c] \in Host
  BY DEF IInv, FoundHost, AddClient, RemoveClient, Move, Attached
<1>2. /\ UNCHANGED <<hosts, hpc, serverName, host, open>>
      /\ \/ /\ cpc[c] = "found" /\ cpc' = [cpc EXCEPT ![c] = "reading"]
            /\ clients' = [clients EXCEPT ![host[c]] = @ \cup {c}]
         \/ /\ cpc[c] = "leaving" /\ cpc' = [cpc EXCEPT ![c] = "closing"]
            /\ clients' = [clients EXCEPT ![host[c]] = @ \ {c}]
  BY DEF AddClient, RemoveClient, Move
<1>3. Tables'
  BY <1>1, <1>2 DEF Tables, ClientPC
<1>4. NoDeadHostRegistered'
  BY <1>2, ClientKeepsHosts
<1>5. FoundHost'
  BY <1>1, <1>2 DEF IInv, FoundHost, Tables, Attached
<1>6. AttachmentsAgree'
  <2> SUFFICES ASSUME NEW d \in Client, NEW h \in Host
               PROVE  d \in clients'[h] <=> cpc'[d] \in Attached /\ host[d] = h
    BY <1>2 DEF AttachmentsAgree
  <2>1. d \in clients[h] <=> cpc[d] \in Attached /\ host[d] = h
    BY DEF IInv, AttachmentsAgree
  <2>2. CASE d = c
    BY <1>1, <1>2, <2>1, <2>2 DEF Tables, Attached
  <2>3. CASE d # c
    BY <1>1, <1>2, <2>1, <2>3 DEF Tables
  <2> QED
    BY <2>2, <2>3
<1> QED
  BY <1>3, <1>4, <1>5, <1>6 DEF IInv

\* All other steps of a client: it stays attached or stays detached.
LEMMA ClientStep ==
  ASSUME IInv, NEW c \in Client,
         \/ GetHost(c) \/ ClientReadError(c) \/ ClientMessage(c)
         \/ HostSend(c) \/ HostSendError(c) \/ ClientClose(c)
         \/ ProxyReject(c) \/ ProxyAllow(c) \/ ProxyDialError(c) \/ ProxyStart(c)
         \/ PingError(c) \/ ProxyEnd(c) \/ \E d \in Direction : RelayError(c, d)
  PROVE  IInv'
<1>1. Tables
  BY DEF IInv
<1>2. UNCHANGED <<hosts, hpc, clients, serverName>>
  BY DEF GetHost, ClientReadError, ClientMessage, HostSend, HostSendError, ClientClose,
         ProxyReject, ProxyAllow, ProxyDialError, ProxyStart, PingError, ProxyEnd,
         RelayError, Move, hostVars
<1>3. open' \in {open, open \cup {c}, open \ {c}}
  BY DEF GetHost, ClientReadError, ClientMessage, HostSend, HostSendError, ClientClose,
         ProxyReject, ProxyAllow, ProxyDialError, ProxyStart, PingError, ProxyEnd,
         RelayError
<1>4. NoDeadHostRegistered' /\ open' \subseteq Host \cup Client
  BY <1>2, <1>3, ClientKeepsHosts
<1>5. CASE GetHost(c)
  <2>1. /\ cpc[c] = "new" /\ host' = [host EXCEPT ![c] = hosts[serverName[c]]]
        /\ cpc' = [cpc EXCEPT ![c] = IF hosts[serverName[c]] = NoHost THEN "unmatched"
                                                                      ELSE "found"]
    BY <1>5 DEF GetHost, Move
  <2>2. hosts[serverName[c]] \in Host \cup {NoHost}
    BY <1>1 DEF Tables
  <2>3. Tables'
    BY <1>1, <1>2, <1>4, <2>1, <2>2 DEF Tables, ClientPC
  <2>4. FoundHost'
    BY <1>1, <2>1, <2>2 DEF IInv, FoundHost, Tables, Attached
  <2>5. AttachmentsAgree'
    BY <1>1, <1>2, <2>1 DEF IInv, AttachmentsAgree, Tables, Attached
  <2> QED
    BY <1>4, <2>3, <2>4, <2>5 DEF IInv
<1>6. CASE ~GetHost(c)
  <2>1. /\ host' = host /\ cpc' \in [Client -> ClientPC]
        /\ \A d \in Client : /\ cpc'[d] \in Attached <=> cpc[d] \in Attached
                             /\ cpc'[d] = "found" => cpc[d] = "found"
    BY <1>1, <1>6 DEF Tables, ClientPC, Attached, ClientReadError, ClientMessage,
         HostSend, HostSendError, ClientClose, ProxyReject, ProxyAllow, ProxyDialError,
         ProxyStart, PingError, ProxyEnd, RelayError, Move
  <2>2. Tables' /\ FoundHost' /\ AttachmentsAgree'
    BY <1>1, <1>2, <1>4, <2>1 DEF IInv, Tables, FoundHost, AttachmentsAgree
  <2> QED
    BY <1>4, <2>2 DEF IInv
<1> QED
  BY <1>5, <1>6

-----------------------------------------------------------------------------
(* The theorems.                                                           *)

\* Every step of the hub keeps its tables right.
LEMMA NextIInv == IInv /\ [Next]_vars => IInv'
<1> SUFFICES ASSUME IInv, [Next]_vars PROVE IInv'
  OBVIOUS
<1>1. ASSUME NEW h \in Host,
             \/ RegisterHost(h) \/ HostReadError(h) \/ HostMessage(h)
             \/ BroadcastEnd(h) \/ UnregisterHost(h) \/ HostClose(h)
             \/ \E c \in Client : BroadcastTo(h, c)
      PROVE  IInv'
  BY <1>1, RegisterStep, UnregisterStep, ReadingStep
<1>2. ASSUME NEW c \in Client,
             \/ GetHost(c) \/ AddClient(c) \/ ClientReadError(c) \/ ClientMessage(c)
             \/ HostSend(c) \/ HostSendError(c) \/ RemoveClient(c) \/ ClientClose(c)
             \/ ProxyReject(c) \/ ProxyAllow(c) \/ ProxyDialError(c) \/ ProxyStart(c)
             \/ PingError(c) \/ ProxyEnd(c) \/ \E d \in Direction : RelayError(c, d)
      PROVE  IInv'
  BY <1>2, AttachStep, ClientStep
<1>3. ASSUME NEW x \in Host \cup Client, Stall(x) PROVE IInv'
  BY <1>3 DEF Stall, hostVars, proxyVars, IInv, Tables, FoundHost,
              NoDeadHostRegistered, Registered, AttachmentsAgree
<1>4. CASE UNCHANGED vars
  BY <1>4 DEF vars, hostVars, proxyVars, IInv, Tables, FoundHost,
              NoDeadHostRegistered, Registered, AttachmentsAgree
<1> QED
  BY <1>1, <1>2, <1>3, <1>4 DEF Next

\* The invariant holds throughout.
LEMMA Invariance == Spec => []IInv
<1> QED
  BY InitIInv, NextIInv, PTL DEF Spec

\* A client is never given a host whose handler is over, however many hosts of
\* the same name replaced each other.
THEOREM NoDeadHostFound == Spec => []NoDeadHostRegistered
<1>1. IInv => NoDeadHostRegistered
  BY DEF IInv
<1> QED
  BY <1>1, Invariance, PTL

\* Every host knows exactly the clients whose handlers are attached to it, on
\* every path out of Handler and for any number of sessions.
THEOREM ClientsKnown == Spec => []AttachmentsAgree
<1>1. IInv => AttachmentsAgree
  BY DEF IInv
<1> QED
  BY <1>1, Invariance, PTL
-----------------------------------------------------------------------------
(* Sockets and the gauge.                                                  *)

\* A client has a backend only while it is relayed.
BackendsRelay == backends \subseteq Client /\ \A c \in backends : cpc[c] = "relaying"

SInv == NothingLeftOpen /\ BackendsRelay /\ ClientsCounted

\* A client that moves without becoming counted or uncounted.
LEMMA GaugeKept ==
  ASSUME ClientsCounted, \A c \in Client : cpc'[c] \in Counted <=> cpc[c] \in Counted,
         UNCHANGED ClientsConnected
  PROVE  ClientsCounted'
<1>1. {c \in Client : cpc'[c] \in Counted} = {c \in Client : cpc[c] \in Counted}
  OBVIOUS
<1> QED
  BY <1>1 DEF ClientsCounted

\* A client that becomes counted, and one that no longer is.
LEMMA GaugeMoves ==
  ASSUME ClientsCounted, Tables, NEW c \in Client, NEW to \in ClientPC,
         cpc' = [cpc EXCEPT ![c] = to]
  PROVE  /\ cpc[c] \notin Counted /\ to \in Counted
            /\ ClientsConnected' = ClientsConnected + 1 => ClientsCounted'
         /\ cpc[c] \in Counted /\ to \notin Counted
            /\ ClientsConnected' = ClientsConnected - 1 => ClientsCounted'
<1> DEFINE S == {d \in Client : cpc[d] \in Counted}
           T == {d \in Client : cpc'[d] \in Counted}
<1>1. IsFiniteSet(S)
  BY FS_Subset, HubAssumption
<1>2. ASSUME cpc[c] \notin Counted, to \in Counted
      PROVE  Cardinality(T) = Cardinality(S) + 1
  <2>1. T = S \cup {c} /\ c \notin S
    BY <1>2 DEF Tables
  <2> QED
    BY <1>1, <2>1, FS_AddElement
<1>3. ASSUME cpc[c] \in Counted, to \notin Counted
      PROVE  Cardinality(T) = Cardinality(S) - 1
  <2>1. T = S \ {c} /\ c \in S
    BY <1>3 DEF Tables
  <2>2. c \in S => Cardinality(S \ {c}) = Cardinality(S) - 1
    <3> HIDE DEF S
    <3> QED
      BY <1>1, FS_RemoveElement
  <2> QED
    BY <2>1, <2>2
<1> QED
  BY <1>2, <1>3 DEF ClientsCounted

\* The gauge moves where the handlers move it, and nowhere else.
LEMMA GaugeStep ==
  ASSUME IInv, ClientsCounted, [Next]_vars
  PROVE  ClientsCounted'
<1> USE DEF Counted, Attached, Move, ClientPC
<1>1. Tables
  BY DEF IInv
<1>2. ASSUME NEW h \in Host,
             \/ RegisterHost(h) \/ HostReadError(h) \/ HostMessage(h)
             \/ BroadcastEnd(h) \/ UnregisterHost(h) \/ HostClose(h)
             \/ \E c \in Client : BroadcastTo(h, c)
      PROVE  ClientsCounted'
  <2>1. UNCHANGED <<cpc, ClientsConnected>>
    BY <1>2 DEF RegisterHost, HostReadError, HostMessage, BroadcastEnd, UnregisterHost,
                HostClose, BroadcastTo
  <2> QED
    BY <2>1 DEF ClientsCounted
<1>3. ASSUME NEW c \in Client, AddClient(c) \/ ProxyStart(c)
      PROVE  ClientsCounted'
  <2>1. /\ cpc[c] \in {"found", "dialing"}
        /\ cpc' = [cpc EXCEPT ![c] = "reading"] \/ cpc' = [cpc EXCEPT ![c] = "relaying"]
        /\ ClientsConnected' = ClientsConnected + 1
    BY <1>3 DEF AddClient, ProxyStart
  <2> QED
    BY <1>1, <2>1, GaugeMoves
<1>4. ASSUME NEW c \in Client, ClientClose(c) \/ ProxyEnd(c)
      PROVE  ClientsCounted'
  <2>1. /\ cpc[c] \in {"closing", "relaying"}
        /\ cpc' = [cpc EXCEPT ![c] = "gone"]
        /\ ClientsConnected' = ClientsConnected - 1
    BY <1>4 DEF ClientClose, ProxyEnd
  <2> QED
    BY <1>1, <2>1, GaugeMoves
<1>5. ASSUME NEW c \in Client,
             \/ GetHost(c) \/ ClientReadError(c) \/ ClientMessage(c)
             \/ HostSend(c) \/ HostSendError(c) \/ RemoveClient(c)
             \/ ProxyReject(c) \/ ProxyAllow(c) \/ ProxyDialError(c)
             \/ PingError(c) \/ \E d \in Direction : RelayError(c, d)
      PROVE  ClientsCounted'
  <2>1. /\ UNCHANGED ClientsConnected
        /\ \A d \in Client : cpc'[d] \in Counted <=> cpc[d] \in Counted
    BY <1>1, <1>5 DEF Tables, GetHost, ClientReadError, ClientMessage, HostSend,
         HostSendError, RemoveClient, ProxyReject, ProxyAllow, ProxyDialError,
         PingError, RelayError
  <2> QED
    BY <2>1, GaugeKept
<1>6. ASSUME UNCHANGED vars \/ \E x \in Host \cup Client : Stall(x)
      PROVE  ClientsCounted'
  BY <1>6 DEF ClientsCounted, vars, Stall
<1> QED
  BY <1>2, <1>3, <1>4, <1>5, <1>6 DEF Next

\* What is closed stays closed: only handlers that begin open anything.
LEMMA OpenStep ==
  ASSUME IInv, NothingLeftOpen, BackendsRelay, [Next]_vars
  PROVE  NothingLeftOpen' /\ BackendsRelay'
<1> USE HubAssumption DEF NothingLeftOpen, BackendsRelay, Move
<1>1. Tables
  BY DEF IInv
<1>2. ASSUME NEW h \in Host,
             \/ RegisterHost(h) \/ HostReadError(h) \/ HostMessage(h)
             \/ BroadcastEnd(h) \/ UnregisterHost(h) \/ HostClose(h)
             \/ \E c \in Client : BroadcastTo(h, c)
      PROVE  NothingLeftOpen' /\ BackendsRelay'
  <2>1. UNCHANGED <<cpc, backends>>
    BY <1>2 DEF RegisterHost, HostReadError, HostMessage, BroadcastEnd, UnregisterHost,
                HostClose, BroadcastTo, proxyVars
  <2>2. \A c \in Client : c \in open' => c \in open
    BY <1>2 DEF RegisterHost, HostReadError, HostMessage, BroadcastEnd, UnregisterHost,
                HostClose, BroadcastTo
  <2>3. \A x \in Host : hpc'[x] = "gone" => x \notin open'
    BY <1>1, <1>2 DEF Tables, RegisterHost, HostReadError, HostMessage, BroadcastEnd,
         UnregisterHost, HostClose, BroadcastTo
  <2> QED
    BY <2>1, <2>2, <2>3
<1>3. ASSUME NEW c \in Client,
             \/ GetHost(c) \/ AddClient(c) \/ ClientReadError(c) \/ ClientMessage(c)
             \/ HostSend(c) \/ HostSendError(c) \/ RemoveClient(c) \/ ClientClose(c)
             \/ ProxyReject(c) \/ ProxyAllow(c) \/ ProxyDialError(c) \/ ProxyStart(c)
             \/ PingError(c) \/ ProxyEnd(c) \/ \E d \in Direction : RelayError(c, d)
      PROVE  NothingLeftOpen' /\ BackendsRelay'
  <2>1. hpc' = hpc /\ \A x \in Host : x \in open' => x \in open
    BY <1>3 DEF GetHost, AddClient, ClientReadError, ClientMessage, HostSend,
         HostSendError, RemoveClient, ClientClose, ProxyReject, ProxyAllow,
         ProxyDialError, ProxyStart, PingError, ProxyEnd, RelayError, hostVars
  <2>2. /\ \A d \in Client \ {c} : cpc'[d] = cpc[d] /\ (d \in open' => d \in open)
        /\ backends' \subseteq Client /\ backends' \ {c} \subseteq backends
    BY <1>1, <1>3 DEF Tables, GetHost, AddClient, ClientReadError, ClientMessage,
         HostSend, HostSendError, RemoveClient, ClientClose, ProxyReject, ProxyAllow,
         ProxyDialError, ProxyStart, PingError, ProxyEnd, RelayError, proxyVars
  <2>3. c \in backends' => cpc'[c] = "relaying"
    BY <1>1, <1>3 DEF Tables, GetHost, AddClient, ClientReadError, ClientMessage,
         HostSend, HostSendError, RemoveClient, ClientClose, ProxyReject, ProxyAllow,
         ProxyDialError, ProxyStart, PingError, ProxyEnd, RelayError, proxyVars
  <2>4. cpc'[c] = "gone" => c \notin open'
    BY <1>1, <1>3 DEF Tables, GetHost, AddClient, ClientReadError, ClientMessage,
         HostSend, HostSendError, RemoveClient, ClientClose, ProxyReject, ProxyAllow,
         ProxyDialError, ProxyStart, PingError, ProxyEnd, RelayError
  <2>5. BackendsRelay'
    BY <2>2, <2>3
  <2>6. \A d \in Client : cpc'[d] = "gone" => d \notin open'
    BY <2>2, <2>4
  <2>7. \A d \in Client : cpc'[d] = "gone" => d \notin backends'
    BY <2>5
  <2> QED
    BY <2>1, <2>5, <2>6, <2>7
<1>4. ASSUME UNCHANGED vars \/ \E x \in Host \cup Client : Stall(x)
      PROVE  NothingLeftOpen' /\ BackendsRelay'
  BY <1>4 DEF vars, Stall, hostVars, proxyVars
<1> QED
  BY <1>2, <1>3, <1>4 DEF Next

\* Both hold throughout.
LEMMA SessionInvariance == Spec => []SInv
<1>1. Init => SInv
  <2> SUFFICES ASSUME Init PROVE SInv
    OBVIOUS
  <2>1. {c \in Client : cpc[c] \in Counted} = {}
    BY DEF Init, Counted, Attached
  <2> QED
    BY <2>1, FS_EmptySet DEF Init, SInv, NothingLeftOpen, BackendsRelay, ClientsCounted
<1>2. IInv /\ SInv /\ [Next]_vars => SInv'
  BY GaugeStep, OpenStep DEF SInv
<1> QED
  BY <1>1, <1>2, Invariance, PTL DEF Spec

\* The gauge of clients is exact on every path out of Handler, for any number of
\* sessions: those attached to a host and those relayed to a backend.
THEOREM GaugeExact == Spec => []ClientsCounted
<1>1. SInv => ClientsCounted
  BY DEF SInv
<1> QED
  BY <1>1, SessionInvariance, PTL

\* A session that is over leaves no socket behind, whatever replaced, rejected or
\* broke it.
THEOREM SocketsClosed == Spec => []NothingLeftOpen
<1>1. SInv => NothingLeftOpen
  BY DEF SInv
<1> QED
  BY <1>1, SessionInvariance, PTL
-----------------------------------------------------------------------------
(* Types.                                                                  *)

\* The rest of TypeOK.  RegisterHost counts every host up and UnregisterHost
\* only down with an entry, so the gauge of hosts may be too high, never too
\* low: it does not get below zero because it covers the entries there are.
TInv ==
    /\ todo \in [Host -> SUBSET Client]
    /\ stalled \subseteq Host \cup Client
    /\ relays \in [Client -> SUBSET Direction]
    /\ stop \subseteq Client
    /\ HostsConnected \in Nat /\ Cardinality(Registered) <= HostsConnected

\* The number of entries after one is set, or removed.
LEMMA EntryCount ==
  ASSUME Tables, NEW s \in Server, NEW h \in Host \cup {NoHost}, hosts' = [hosts EXCEPT ![s] = h]
  PROVE  /\ Cardinality(Registered) \in Nat /\ Cardinality(Registered') \in Nat
         /\ h # NoHost => Cardinality(Registered') =
                IF hosts[s] = NoHost THEN Cardinality(Registered) + 1 ELSE Cardinality(Registered)
         /\ h = NoHost => Cardinality(Registered') =
                IF hosts[s] = NoHost THEN Cardinality(Registered) ELSE Cardinality(Registered) - 1
<1> DEFINE R == Registered
<1>1. IsFiniteSet(R)
  BY FS_Subset, HubAssumption DEF Registered
<1>2. s \in R <=> hosts[s] # NoHost
  BY DEF Registered
<1>3. /\ Cardinality(R) \in Nat
      /\ Cardinality(R \ {s}) \in Nat /\ Cardinality(R \cup {s}) \in Nat
      /\ Cardinality(R \ {s}) = IF s \in R THEN Cardinality(R) - 1 ELSE Cardinality(R)
      /\ Cardinality(R \cup {s}) = IF s \in R THEN Cardinality(R) ELSE Cardinality(R) + 1
  <2> HIDE DEF R
  <2>1. IsFiniteSet(R \ {s}) /\ IsFiniteSet(R \cup {s})
    BY <1>1, FS_RemoveElement, FS_AddElement
  <2> QED
    BY <1>1, <2>1, FS_RemoveElement, FS_AddElement, FS_CardinalityType
<1>4. CASE h = NoHost
  <2>1. Registered' = R \ {s}
    BY <1>4 DEF Tables, Registered
  <2> QED
    BY <1>2, <1>3, <1>4, <2>1
<1>5. CASE h # NoHost
  <2>1. Registered' = R \cup {s}
    BY <1>5 DEF Tables, Registered
  <2> QED
    BY <1>2, <1>3, <1>5, <2>1
<1> QED
  BY <1>4, <1>5

\* Nothing but a registration and its end touches the entries and their gauge.
LEMMA EntriesStay ==
  ASSUME [Next]_vars, ~\E h \in Host : RegisterHost(h) \/ UnregisterHost(h)
  PROVE  UNCHANGED <<hosts, HostsConnected>>
<1>1. ASSUME NEW h \in Host,
             \/ HostReadError(h) \/ HostMessage(h) \/ BroadcastEnd(h) \/ HostClose(h)
             \/ \E c \in Client : BroadcastTo(h, c)
      PROVE  UNCHANGED <<hosts, HostsConnected>>
  BY <1>1 DEF HostReadError, HostMessage, BroadcastEnd, HostClose, BroadcastTo
<1>2. ASSUME NEW c \in Client,
             \/ GetHost(c) \/ AddClient(c) \/ ClientReadError(c) \/ ClientMessage(c)
             \/ HostSend(c) \/ HostSendError(c) \/ RemoveClient(c) \/ ClientClose(c)
             \/ ProxyReject(c) \/ ProxyAllow(c) \/ ProxyDialError(c) \/ ProxyStart(c)
             \/ PingError(c) \/ ProxyEnd(c) \/ \E d \in Direction : RelayError(c, d)
      PROVE  UNCHANGED <<hosts, HostsConnected>>
  BY <1>2 DEF GetHost, AddClient, ClientReadError, ClientMessage, HostSend,
       HostSendError, RemoveClient, ClientClose, ProxyReject, ProxyAllow,
       ProxyDialError, ProxyStart, PingError, ProxyEnd, RelayError, hostVars
<1>3. ASSUME UNCHANGED vars \/ \E x \in Host \cup Client : Stall(x)
      PROVE  UNCHANGED <<hosts, HostsConnected>>
  BY <1>3 DEF vars, Stall, hostVars
<1> QED
  BY <1>1, <1>2, <1>3 DEF Next

\* The gauge of hosts covers the entries.
LEMMA HostGaugeStep ==
  ASSUME IInv, TInv, [Next]_vars
  PROVE  HostsConnected' \in Nat /\ (Cardinality(Registered) <= HostsConnected)'
<1>1. Tables
  BY DEF IInv
<1>2. ASSUME NEW h \in Host, RegisterHost(h)
      PROVE  HostsConnected' \in Nat /\ (Cardinality(Registered) <= HostsConnected)'
  <2>1. serverName[h] \in Server /\ hosts' = [hosts EXCEPT ![serverName[h]] = h]
        /\ HostsConnected' = HostsConnected + 1
    BY <1>1, <1>2 DEF RegisterHost, Tables
  <2>2. /\ Cardinality(Registered) \in Nat /\ Cardinality(Registered') \in Nat
        /\ Cardinality(Registered') <= Cardinality(Registered) + 1
    <3>1. h # NoHost /\ h \in Host \cup {NoHost}
      BY HubAssumption
    <3>2. /\ Cardinality(Registered) \in Nat /\ Cardinality(Registered') \in Nat
          /\ Cardinality(Registered') =
               IF hosts[serverName[h]] = NoHost THEN Cardinality(Registered) + 1
                                                ELSE Cardinality(Registered)
      BY <1>1, <2>1, <3>1, EntryCount
    <3> QED
      BY <3>2
  <2> QED
    BY <2>1, <2>2 DEF TInv
<1>3. ASSUME NEW h \in Host, UnregisterHost(h)
      PROVE  HostsConnected' \in Nat /\ (Cardinality(Registered) <= HostsConnected)'
  <2> DEFINE s == serverName[h]
  <2>1. s \in Server /\ hosts' = [hosts EXCEPT ![s] = NoHost]
        /\ HostsConnected' = IF hosts[s] = NoHost THEN HostsConnected ELSE HostsConnected - 1
    BY <1>1, <1>3 DEF UnregisterHost, Tables
  <2>2. /\ Cardinality(Registered) \in Nat /\ Cardinality(Registered') \in Nat
        /\ Cardinality(Registered') =
                IF hosts[s] = NoHost THEN Cardinality(Registered) ELSE Cardinality(Registered) - 1
    BY <1>1, <2>1, EntryCount
  <2> QED
    BY <2>1, <2>2 DEF TInv
<1>4. ASSUME UNCHANGED <<hosts, HostsConnected>>
      PROVE  HostsConnected' \in Nat /\ (Cardinality(Registered) <= HostsConnected)'
  BY <1>4 DEF TInv, Registered
<1> QED
  BY <1>2, <1>3, <1>4, EntriesStay

\* What Broadcast, the relays and the peers do to their own sets.
LEMMA SetsStep ==
  ASSUME IInv, TInv, [Next]_vars
  PROVE  /\ todo' \in [Host -> SUBSET Client] /\ stalled' \subseteq Host \cup Client
         /\ relays' \in [Client -> SUBSET Direction] /\ stop' \subseteq Client
<1> USE DEF TInv
<1>1. ASSUME NEW h \in Host,
             \/ RegisterHost(h) \/ HostReadError(h) \/ HostMessage(h)
             \/ BroadcastEnd(h) \/ UnregisterHost(h) \/ HostClose(h)
             \/ \E c \in Client : BroadcastTo(h, c)
      PROVE  /\ todo' \in [Host -> SUBSET Client]
             /\ UNCHANGED <<stalled, relays, stop>>
  BY <1>1 DEF IInv, Tables, RegisterHost, HostReadError, HostMessage, BroadcastEnd,
       UnregisterHost, HostClose, BroadcastTo, proxyVars
<1>2. ASSUME NEW c \in Client,
             \/ GetHost(c) \/ AddClient(c) \/ ClientReadError(c) \/ ClientMessage(c)
             \/ HostSend(c) \/ HostSendError(c) \/ RemoveClient(c) \/ ClientClose(c)
             \/ ProxyReject(c) \/ ProxyAllow(c) \/ ProxyDialError(c) \/ ProxyStart(c)
             \/ PingError(c) \/ ProxyEnd(c) \/ \E d \in Direction : RelayError(c, d)
      PROVE  /\ UNCHANGED <<todo, stalled>>
             /\ relays' \in [Client -> SUBSET Direction] /\ stop' \subseteq Client
  BY <1>2 DEF GetHost, AddClient, ClientReadError, ClientMessage, HostSend,
       HostSendError, RemoveClient, ClientClose, ProxyReject, ProxyAllow,
       ProxyDialError, ProxyStart, PingError, ProxyEnd, RelayError, Move,
       hostVars, proxyVars
<1>3. ASSUME NEW x \in Host \cup Client, Stall(x)
      PROVE  /\ UNCHANGED <<todo, relays, stop>> /\ stalled' \subseteq Host \cup Client
  BY <1>3 DEF Stall, hostVars, proxyVars
<1>4. CASE UNCHANGED vars
  BY <1>4 DEF vars, hostVars, proxyVars
<1> QED
  BY <1>1, <1>2, <1>3, <1>4 DEF Next

\* They hold first, and after each step.
LEMMA InitTInv == Init => TInv
<1> SUFFICES ASSUME Init PROVE TInv
  OBVIOUS
<1>1. Registered = {}
  BY DEF Init, Registered
<1> QED
  BY <1>1, FS_EmptySet DEF Init, TInv

LEMMA NextTInv == IInv /\ TInv /\ [Next]_vars => TInv'
<1> QED
  BY HostGaugeStep, SetsStep DEF TInv

\* The sets and the gauge of hosts keep their types.
LEMMA TypesInvariance == Spec => []TInv
<1> QED
  BY InitTInv, NextTInv, Invariance, PTL DEF Spec

\* Every variable of the hub keeps its type; no gauge gets below zero, although
\* hosts that replaced each other are counted down only once.
THEOREM HubTypes == Spec => []TypeOK
<1>1. IInv /\ SInv /\ TInv => TypeOK
  <2>1. ClientsCounted => ClientsConnected \in Nat
    <3>1. IsFiniteSet({c \in Client : cpc[c] \in Counted})
      BY FS_Subset, HubAssumption
    <3> QED
      BY <3>1, FS_CardinalityType DEF ClientsCounted
  <2> QED
    BY <2>1 DEF IInv, SInv, TInv, Tables, BackendsRelay, TypeOK
<1> QED
  BY <1>1, Invariance, SessionInvariance, TypesInvariance, PTL

-----------------------------------------------------------------------------
(* What replacing a host does, and nothing else.                           *)

\* A host registers under a name that another one holds.
Replaces(h) == RegisterHost(h) /\ hosts[serverName[h]] # NoHost
Drift == HostsConnected - Cardinality(Registered)

\* The gauge of hosts is too high by the number of replacements there have been:
\* each adds one, and no end of a session, whichever entry it removes, makes up
\* for it.
GaugeDrifts ==
    [][Drift' = Drift + IF \E h \in Host : Replaces(h) THEN 1 ELSE 0]_vars

\* One step of it.
LEMMA DriftStep ==
  ASSUME IInv, TInv, [Next]_vars
  PROVE  Drift' = Drift + IF \E h \in Host : Replaces(h) THEN 1 ELSE 0
<1> USE HubAssumption
<1>1. Tables /\ HostsConnected \in Nat
  BY DEF IInv, TInv
<1>2. ASSUME NEW h \in Host, RegisterHost(h)
      PROVE  Drift' = Drift + IF \E x \in Host : Replaces(x) THEN 1 ELSE 0
  <2> DEFINE s == serverName[h]
  <2>1. /\ s \in Server /\ hosts' = [hosts EXCEPT ![s] = h] /\ h # NoHost
        /\ HostsConnected' = HostsConnected + 1
    BY <1>1, <1>2 DEF RegisterHost, Tables
  <2>2. /\ Cardinality(Registered) \in Nat /\ Cardinality(Registered') \in Nat
        /\ Cardinality(Registered') =
             IF hosts[s] = NoHost THEN Cardinality(Registered) + 1 ELSE Cardinality(Registered)
    BY <1>1, <2>1, EntryCount
  <2>3. (\E x \in Host : Replaces(x)) <=> hosts[s] # NoHost
    <3>1. ASSUME NEW x \in Host, Replaces(x) PROVE x = h
      <4>1. hpc[x] = "new" /\ hpc' = [hpc EXCEPT ![x] = "reading"] /\ hpc' = [hpc EXCEPT ![h] = "reading"]
        BY <1>2, <3>1 DEF Replaces, RegisterHost
      <4>2. hpc'[x] = "reading" /\ (h # x => hpc'[x] = hpc[x])
        BY <1>1, <4>1 DEF Tables
      <4> QED
        BY <4>1, <4>2
    <3> QED
      BY <1>2, <3>1 DEF Replaces
  <2> QED
    BY <1>1, <2>1, <2>2, <2>3 DEF Drift
<1>3. ASSUME NEW h \in Host, UnregisterHost(h)
      PROVE  Drift' = Drift + IF \E x \in Host : Replaces(x) THEN 1 ELSE 0
  <2> DEFINE s == serverName[h]
  <2>1. s \in Server /\ hosts' = [hosts EXCEPT ![s] = NoHost]
        /\ HostsConnected' = IF hosts[s] = NoHost THEN HostsConnected ELSE HostsConnected - 1
    BY <1>1, <1>3 DEF UnregisterHost, Tables
  <2>2. /\ Cardinality(Registered) \in Nat /\ Cardinality(Registered') \in Nat
        /\ Cardinality(Registered') =
             IF hosts[s] = NoHost THEN Cardinality(Registered) ELSE Cardinality(Registered) - 1
    BY <1>1, <2>1, EntryCount
  <2>3. ~\E x \in Host : Replaces(x)
    <3> SUFFICES ASSUME NEW x \in Host, Replaces(x) PROVE FALSE
      OBVIOUS
    <3>1. /\ hpc[x] = "new" /\ hpc' = [hpc EXCEPT ![x] = "reading"]
          /\ hpc[h] = "leaving" /\ hpc' = [hpc EXCEPT ![h] = "closing"]
      BY <1>3 DEF Replaces, RegisterHost, UnregisterHost
    <3>2. hpc'[h] = "closing" /\ h # x /\ (h # x => hpc'[h] = hpc[h])
      BY <1>1, <3>1 DEF Tables
    <3> QED
      BY <3>1, <3>2
  <2> QED
    BY <1>1, <2>1, <2>2, <2>3 DEF Drift
<1>4. CASE ~\E h \in Host : RegisterHost(h) \/ UnregisterHost(h)
  <2>1. UNCHANGED <<hosts, HostsConnected>>
    BY <1>4, EntriesStay
  <2>2. Drift' = Drift /\ Cardinality(Registered) \in Nat
    <3>1. Registered' = Registered
      BY <2>1 DEF Registered
    <3>2. IsFiniteSet(Registered)
      BY FS_Subset DEF Registered
    <3> QED
      BY <2>1, <3>1, <3>2, FS_CardinalityType DEF Drift
  <2> QED
    BY <1>1, <1>4, <2>2 DEF Replaces, Drift
<1> QED
  BY <1>2, <1>3, <1>4

\* The gauge of connected hosts counts replacements: for any number of hosts it
\* moves with the entries but for the one that each replacement adds.
THEOREM HostGaugeCountsReplacements == Spec => GaugeDrifts
<1>1. IInv /\ TInv /\ [Next]_vars =>
         [Drift' = Drift + IF \E h \in Host : Replaces(h) THEN 1 ELSE 0]_vars
  BY DriftStep
<1> QED
  BY <1>1, Invariance, TypesInvariance, PTL DEF Spec, GaugeDrifts

\* Every host is registered under a name nobody holds.
NoneReplaced == [][~\E h \in Host : Replaces(h)]_vars

\* A host whose handler has not begun to leave, or is about to, has its entry.
Entered ==
    \A h \in Host : hpc[h] \in {"reading", "broadcasting", "leaving"} => hosts[serverName[h]] = h

\* A step that replaces no host keeps this.
LEMMA EnteredStep ==
  ASSUME IInv, Entered, [Next]_vars, ~\E h \in Host : Replaces(h)
  PROVE  Entered'
<1> USE HubAssumption
<1> DEFINE On == {"reading", "broadcasting", "leaving"}
<1>1. Tables
  BY DEF IInv
<1>2. ASSUME NEW h \in Host, RegisterHost(h) PROVE Entered'
  <2>1. /\ serverName[h] \in Server /\ hosts[serverName[h]] = NoHost
        /\ hosts' = [hosts EXCEPT ![serverName[h]] = h]
        /\ hpc' = [hpc EXCEPT ![h] = "reading"] /\ serverName' = serverName
    BY <1>1, <1>2 DEF Replaces, RegisterHost, Tables
  <2>2. ASSUME NEW x \in Host, hpc'[x] \in On PROVE hosts'[serverName[x]] = x
    <3>1. CASE x = h
      BY <1>1, <2>1, <3>1 DEF Tables
    <3>2. CASE x # h
      <4>1. hosts[serverName[x]] = x
        BY <1>1, <2>1, <2>2, <3>2 DEF Tables, Entered
      <4> QED
        BY <1>1, <2>1, <4>1 DEF Tables
    <3> QED
      BY <3>1, <3>2
  <2> QED
    BY <2>1, <2>2 DEF Entered
<1>3. ASSUME NEW h \in Host, UnregisterHost(h) PROVE Entered'
  <2>1. /\ serverName[h] \in Server /\ hosts[serverName[h]] = h
        /\ hosts' = [hosts EXCEPT ![serverName[h]] = NoHost]
        /\ hpc' = [hpc EXCEPT ![h] = "closing"] /\ serverName' = serverName
    BY <1>1, <1>3 DEF UnregisterHost, Tables, Entered
  <2>2. ASSUME NEW x \in Host, hpc'[x] \in On PROVE hosts'[serverName[x]] = x
    <3>1. x # h
      BY <1>1, <2>1, <2>2 DEF Tables
    <3>2. hosts[serverName[x]] = x
      BY <1>1, <2>1, <2>2, <3>1 DEF Tables, Entered
    <3> QED
      BY <1>1, <2>1, <3>1, <3>2 DEF Tables
  <2> QED
    BY <2>1, <2>2 DEF Entered
<1>4. CASE ~\E h \in Host : RegisterHost(h) \/ UnregisterHost(h)
  <2>1. hosts' = hosts
    BY <1>4, EntriesStay
  <2>2. serverName' = serverName /\ \A h \in Host : hpc'[h] \in On => hpc[h] \in On
    <3>1. ASSUME NEW h \in Host,
                 \/ HostReadError(h) \/ HostMessage(h) \/ BroadcastEnd(h) \/ HostClose(h)
                 \/ \E c \in Client : BroadcastTo(h, c)
          PROVE  /\ serverName' = serverName
                 /\ hpc[h] \in On \/ hpc' = [hpc EXCEPT ![h] = "gone"]
                 /\ \A x \in Host \ {h} : hpc'[x] = hpc[x]
      BY <1>1, <3>1 DEF Tables, HostReadError, HostMessage, BroadcastEnd, HostClose, BroadcastTo
    <3>2. ASSUME NEW c \in Client,
                 \/ GetHost(c) \/ AddClient(c) \/ ClientReadError(c) \/ ClientMessage(c)
                 \/ HostSend(c) \/ HostSendError(c) \/ RemoveClient(c) \/ ClientClose(c)
                 \/ ProxyReject(c) \/ ProxyAllow(c) \/ ProxyDialError(c) \/ ProxyStart(c)
                 \/ PingError(c) \/ ProxyEnd(c) \/ \E d \in Direction : RelayError(c, d)
          PROVE  UNCHANGED <<serverName, hpc>>
      BY <3>2 DEF GetHost, AddClient, ClientReadError, ClientMessage, HostSend,
           HostSendError, RemoveClient, ClientClose, ProxyReject, ProxyAllow,
           ProxyDialError, ProxyStart, PingError, ProxyEnd, RelayError, Move, hostVars
    <3>3. ASSUME UNCHANGED vars \/ \E x \in Host \cup Client : Stall(x)
          PROVE  UNCHANGED <<serverName, hpc>>
      BY <3>3 DEF vars, Stall, hostVars
    <3>4. ASSUME NEW h \in Host, hpc[h] \in On \/ hpc' = [hpc EXCEPT ![h] = "gone"],
                 \A x \in Host \ {h} : hpc'[x] = hpc[x]
          PROVE  \A x \in Host : hpc'[x] \in On => hpc[x] \in On
      BY <1>1, <3>4 DEF Tables
    <3> QED
      BY <1>4, <3>1, <3>2, <3>3, <3>4 DEF Next
  <2> QED
    BY <2>1, <2>2 DEF Entered
<1> QED
  BY <1>2, <1>3, <1>4

\* The active host is the registered one, and the gauge of hosts is exact, as
\* long as no host takes a name that another one holds: the removal by name goes
\* wrong after a replacement only.
THEOREM HostsRightUnlessReplaced ==
  Spec /\ NoneReplaced => [](ActiveHostsRegistered /\ HostsConnected = Cardinality(Registered))
<1>1. Init => Entered /\ Drift = 0
  <2> SUFFICES ASSUME Init PROVE Entered /\ Drift = 0
    OBVIOUS
  <2>1. Registered = {}
    BY DEF Init, Registered
  <2> QED
    BY <2>1, FS_EmptySet DEF Init, Entered, Drift
<1>2. /\ IInv /\ TInv /\ Entered /\ Drift = 0 /\ [Next]_vars
      /\ [~\E h \in Host : Replaces(h)]_vars
      => (Entered /\ Drift = 0)'
  <2> SUFFICES ASSUME IInv, TInv, Entered, Drift = 0, [Next]_vars,
                      [~\E h \in Host : Replaces(h)]_vars
               PROVE  (Entered /\ Drift = 0)'
    OBVIOUS
  <2>1. CASE ~\E h \in Host : Replaces(h)
    BY <2>1, EnteredStep, DriftStep
  <2>2. CASE UNCHANGED vars
    BY <2>2 DEF vars, hostVars, Entered, Drift, Registered
  <2> QED
    BY <2>1, <2>2
<1>3. TInv /\ Entered /\ Drift = 0 =>
         ActiveHostsRegistered /\ HostsConnected = Cardinality(Registered)
  <2> SUFFICES ASSUME TInv, Entered, Drift = 0
               PROVE  ActiveHostsRegistered /\ HostsConnected = Cardinality(Registered)
    OBVIOUS
  <2>1. HostsConnected \in Nat /\ Cardinality(Registered) \in Nat
    <3>1. IsFiniteSet(Registered)
      BY FS_Subset, HubAssumption DEF Registered
    <3> QED
      BY <3>1, FS_CardinalityType DEF TInv
  <2> QED
    BY <2>1 DEF Entered, ActiveHostsRegistered, Drift
<1> QED
  BY <1>1, <1>2, <1>3, Invariance, TypesInvariance, PTL DEF Spec, NoneReplaced

=============================================================================
