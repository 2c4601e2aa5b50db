----------------------------- MODULE ProcessLife -----------------------------
(***************************************************************************)
(* What the process manager promises of the processes it starts, without   *)
(* its table, its mutex, signals or waits.  A server is not started while  *)
(* a process of its runs or is being stopped, and a stop that is over has  *)
(* left none: so much for local processes.  A remote process may run on    *)
(* after its stop; it is a stray then, and a new one may run beside it.    *)
(***************************************************************************)
CONSTANTS Server, Proc

VARIABLES
    runs,       \* [Server -> SUBSET Proc]: its processes that have not exited
    used,       \* the processes that were started
    remote,     \* those of them that run elsewhere
    strays,     \* the remote ones that run on after their stop
    stopping    \* the servers that are being stopped

lifeVars == <<runs, used, remote, strays, stopping>>

LifeInit ==
    /\ runs = [s \in Server |-> {}]
    /\ used = {} /\ remote = {} /\ strays = {} /\ stopping = {}

Begin(s, p) ==
    /\ s \notin stopping /\ runs[s] \subseteq strays /\ p \notin used
    /\ runs' = [runs EXCEPT ![s] = @ \cup {p}]
    /\ used' = used \cup {p}
    /\ remote' \in {remote, remote \cup {p}}
    /\ UNCHANGED <<strays, stopping>>

\* A process exits, by itself or because it must.
End(s, p) ==
    /\ p \in runs[s]
    /\ runs' = [runs EXCEPT ![s] = @ \ {p}]
    /\ strays' = strays \ {p}
    /\ UNCHANGED <<used, remote, stopping>>

BeginStop(s) ==
    /\ stopping' = stopping \cup {s}
    /\ UNCHANGED <<runs, used, remote, strays>>

EndStop(s) ==
    /\ s \in stopping
    /\ stopping' = stopping \ {s}
    /\ runs' = [runs EXCEPT ![s] = @ \cap remote]
    /\ strays' = strays \cup (runs[s] \cap remote)
    /\ UNCHANGED <<used, remote>>

LifeNext ==
    \E s \in Server :
        \/ BeginStop(s) \/ EndStop(s)
        \/ \E p \in Proc : Begin(s, p) \/ End(s, p)

LifeSpec == LifeInit /\ [][LifeNext]_lifeVars
=============================================================================
