------------------------------- MODULE Process -------------------------------
(***************************************************************************)
(* The process manager of pkg/process: the table of running servers, and   *)
(* Start, Stop, StopAll and ReapIdle on it.  Manager.mu is held from the   *)
(* start to the end of Start and of Stop, with the waits inside them, so a *)
(* caller has it exactly while its phase is not "none".                    *)
(*                                                                         *)
(* Processes may exit at any time (a crash, or the context of the Start    *)
(* that made them ends) and stay in the table.  LastActivity is not kept:  *)
(* any of the processes may be idle.  So what only reads the table, marks  *)
(* activity or finds a server in the table changes nothing here, and a     *)
(* Start that fails neither.                                               *)
(***************************************************************************)
CONSTANTS
    Server, Caller,
    Proc,               \* the processes that may ever be started
    NoServer, NoProc

ASSUME ProcessAssumption == NoServer \notin Server /\ NoProc \notin Proc

VARIABLES
    procs,      \* [Server -> Proc \cup {NoProc}]: Manager.procs
    name,       \* [Proc -> Server \cup {NoServer}]: Process.Name
    ssh,        \* the processes at the end of an SSH session
    running,    \* the processes that have not exited
    stuck,      \* local: cmd.Wait will not return, whatever is done to the
                \* process; remote: unless it exits, its output does not end,
                \* brings nothing more and the link stays up
    op,         \* [Caller -> the call it is in]
    todo,       \* [Caller -> SUBSET Server]: the servers it is still to start or stop
    seen,       \* [Caller -> SUBSET Proc]: the processes StopAll or ReapIdle collected
    left,       \* the processes whose Stop is over (a history variable)
    victim,     \* [Caller -> Proc \cup {NoProc}]: the one Stop has taken out
    phase       \* [Caller -> how far it is, holding the mutex]

vars == <<procs, name, ssh, running, stuck, left, op, todo, seen, victim, phase>>
table == <<procs, name, ssh, running, stuck, left>>
calls == <<op, todo, seen, victim, phase>>

Init ==
    /\ procs = [s \in Server |-> NoProc]
    /\ name = [p \in Proc |-> NoServer]
    /\ ssh = {} /\ running = {} /\ stuck = {} /\ left = {}
    /\ op = [c \in Caller |-> "idle"]
    /\ todo = [c \in Caller |-> {}]
    /\ seen = [c \in Caller |-> {}]
    /\ victim = [c \in Caller |-> NoProc]
    /\ phase = [c \in Caller |-> "none"]
-----------------------------------------------------------------------------
(* Start.                                                                  *)

Free == \A c \in Caller : phase[c] = "none"

\* Mutant of Absent: the look at the table is left out.
AbsentAlways(s) == s \in Server

Absent(s) == procs[s] = NoProc

\* A new process for s; bad says whether it will be stuck.
Run(s, p, remote, bad) ==
    /\ name[p] = NoServer
    /\ procs' = [procs EXCEPT ![s] = p]
    /\ name' = [name EXCEPT ![p] = s]
    /\ ssh' = IF remote THEN ssh \cup {p} ELSE ssh
    /\ running' = running \cup {p}
    /\ stuck' = IF bad THEN stuck \cup {p} ELSE stuck
    /\ UNCHANGED left

StartLocal(c, s, p, bad) ==
    /\ op[c] = "idle" /\ Free /\ Absent(s)
    /\ Run(s, p, FALSE, bad)
    /\ UNCHANGED calls

\* ConnectTimeout goes to a ClientConfig that NewClientConn does not read it
\* from: the handshake takes as long as the peer does, with the mutex held.
StartSSH(c, s) ==
    /\ op[c] = "idle" /\ Free /\ Absent(s)
    /\ op' = [op EXCEPT ![c] = "start"]
    /\ todo' = [todo EXCEPT ![c] = {s}]
    /\ phase' = [phase EXCEPT ![c] = "dial"]
    /\ UNCHANGED <<table, seen, victim>>

EndStart(c) ==
    /\ phase[c] = "dial"
    /\ op' = [op EXCEPT ![c] = "idle"]
    /\ todo' = [todo EXCEPT ![c] = {}]
    /\ phase' = [phase EXCEPT ![c] = "none"]
    /\ UNCHANGED <<seen, victim>>

SSHUp(c, p, bad) == EndStart(c) /\ \E s \in todo[c] : Run(s, p, TRUE, bad)
SSHFails(c) == EndStart(c) /\ UNCHANGED table
-----------------------------------------------------------------------------
(* Stop, and the two that collect names under the mutex and stop them      *)
(* after it.                                                               *)

Stop(c, s) ==
    /\ op[c] = "idle"
    /\ op' = [op EXCEPT ![c] = "stop"]
    /\ todo' = [todo EXCEPT ![c] = {s}]
    /\ UNCHANGED <<table, seen, victim, phase>>

Collect(c, call, names) ==
    /\ op[c] = "idle" /\ Free
    /\ op' = [op EXCEPT ![c] = call]
    /\ todo' = [todo EXCEPT ![c] = names]
    /\ seen' = [seen EXCEPT ![c] = {procs[s] : s \in names}]
    /\ UNCHANGED <<table, victim, phase>>

Listed == {s \in Server : ~Absent(s)}
StopAll(c) == Collect(c, "stopall", Listed)
ReapIdle(c, idle) == idle \subseteq Listed /\ Collect(c, "reap", idle)

Stopping(c) == op[c] \in {"stop", "stopall", "reap"}

\* Mutant of Unlocked: the mutex is not held while a process is stopped.
UnlockedEarly(c) == phase[c] = "none"

Unlocked(c) == Free

StopAbsent(c, s) ==
    /\ Stopping(c) /\ s \in todo[c] /\ Unlocked(c) /\ procs[s] = NoProc
    /\ todo' = [todo EXCEPT ![c] = @ \ {s}]
    /\ UNCHANGED <<table, op, seen, victim, phase>>

\* Out of the table, and the transport and its pipes are closed.
StopListed(c, s) ==
    /\ Stopping(c) /\ s \in todo[c] /\ Unlocked(c) /\ procs[s] # NoProc
    /\ procs' = [procs EXCEPT ![s] = NoProc]
    /\ todo' = [todo EXCEPT ![c] = @ \ {s}]
    /\ victim' = [victim EXCEPT ![c] = procs[s]]
    /\ phase' = [phase EXCEPT ![c] = "eof"]
    /\ UNCHANGED <<name, ssh, running, stuck, left, op, seen>>

Unlock(c) ==
    /\ left' = left \cup {victim[c]}
    /\ victim' = [victim EXCEPT ![c] = NoProc]
    /\ phase' = [phase EXCEPT ![c] = "none"]
    /\ UNCHANGED <<procs, name, ssh, running, stuck, op, todo, seen>>

\* Transport.Close waits for the reader.  The reader of a session is not woken
\* by closing stdout (a NopCloser): it ends when the remote process exits, writes
\* or closes its output, or the link is lost.  Session and client are closed
\* after that; no signal is sent and no exit awaited, so the process may run on.
SSHClosed(c) ==
    /\ phase[c] = "eof" /\ victim[c] \in ssh
    /\ victim[c] \in stuck => victim[c] \notin running
    /\ Unlock(c)

\* stopProcess.
Local(c) == phase[c] # "none" /\ victim[c] \in Proc \ ssh

Waited(c) ==
    /\ Local(c) /\ victim[c] \notin running \cup stuck
    /\ Unlock(c)

SigTerm(c) ==
    /\ Local(c) /\ phase[c] = "eof"
    /\ phase' = [phase EXCEPT ![c] = "term"]
    /\ UNCHANGED <<table, op, todo, seen, victim>>

\* Mutant of SigKill: the last signal may be caught or ignored.
SigKillSoft(c) ==
    /\ Local(c) /\ phase[c] = "term"
    /\ phase' = [phase EXCEPT ![c] = "kill"]
    /\ UNCHANGED <<table, op, todo, seen, victim>>

SigKill(c) ==
    /\ Local(c) /\ phase[c] = "term"
    /\ phase' = [phase EXCEPT ![c] = "kill"]
    /\ running' = running \ {victim[c]}
    /\ UNCHANGED <<procs, name, ssh, stuck, left, op, todo, seen, victim>>

\* Mutant of GiveUp: SIGKILL and the wait are repeated until the process is gone.
GiveUpNever(c) == Local(c) /\ phase[c] = "kill" /\ UNCHANGED vars

GiveUp(c) ==
    /\ Local(c) /\ phase[c] = "kill"
    /\ Unlock(c)

Return(c) ==
    /\ Stopping(c) /\ phase[c] = "none" /\ todo[c] = {}
    /\ op' = [op EXCEPT ![c] = "idle"]
    /\ seen' = [seen EXCEPT ![c] = {}]
    /\ UNCHANGED <<table, todo, victim, phase>>

Exit(p) ==
    /\ p \in running
    /\ running' = running \ {p}
    /\ UNCHANGED <<procs, name, ssh, stuck, left, calls>>
-----------------------------------------------------------------------------
EndOfStop(c) == SSHClosed(c) \/ Waited(c) \/ SigTerm(c) \/ SigKill(c) \/ GiveUp(c)
NextStop(c) == \E s \in Server : StopAbsent(c, s) \/ StopListed(c, s)

Next ==
    \/ \E c \in Caller, s \in Server : StartSSH(c, s) \/ Stop(c, s)
    \/ \E c \in Caller, s \in Server, p \in Proc, bad \in BOOLEAN : StartLocal(c, s, p, bad)
    \/ \E c \in Caller, p \in Proc, bad \in BOOLEAN : SSHUp(c, p, bad)
    \/ \E c \in Caller : SSHFails(c) \/ StopAll(c) \/ NextStop(c) \/ EndOfStop(c) \/ Return(c)
    \/ \E c \in Caller, idle \in SUBSET Server : ReapIdle(c, idle)
    \/ \E p \in Proc : Exit(p)

Spec == Init /\ [][Next]_vars

\* Goroutines run and timers fire; a goroutine that waits for the mutex gets it
\* in the end, however often others take it (sync.Mutex hands it over after a
\* millisecond).  Nothing makes an SSH handshake end, or a process exit.
FairSpec ==
    /\ Spec
    /\ \A c \in Caller :
         WF_vars(EndOfStop(c)) /\ WF_vars(Return(c)) /\ SF_vars(NextStop(c))
-----------------------------------------------------------------------------
(* Properties.                                                             *)

\* Every variable keeps its type.
TypeOK ==
    /\ procs \in [Server -> Proc \cup {NoProc}]
    /\ name \in [Proc -> Server \cup {NoServer}]
    /\ ssh \subseteq Proc /\ running \subseteq Proc /\ stuck \subseteq Proc
    /\ left \subseteq Proc
    /\ op \in [Caller -> {"idle", "start", "stop", "stopall", "reap"}]
    /\ todo \in [Caller -> SUBSET Server]
    /\ seen \in [Caller -> SUBSET Proc]
    /\ victim \in [Caller -> Proc \cup {NoProc}]
    /\ phase \in [Caller -> {"none", "dial", "eof", "term", "kill"}]

\* The remote processes that a Stop has let go of and that run on.
Strays == left \cap ssh \cap running

\* A process that runs is in the table, where Stop and StopAll find it, or is
\* being stopped: none is forgotten by a Start that overwrites it, and none
\* outlives the Stop that took it out, however little it reacts.  Of the remote
\* ones the second half does not hold: Stop ends their session and no more.
NoOrphan ==
    \A p \in running \ Strays :
        procs[name[p]] = p \/ \E c \in Caller : victim[c] = p

\* The mapping to ProcessLife: what runs is told by name, and a server is being
\* stopped while its process is in the hands of Stop.
Runs == [s \in Server |-> {p \in running : name[p] = s}]
Used == {p \in Proc : name[p] # NoServer}
TakenBy == {c \in Caller : victim[c] # NoProc}

Life == INSTANCE ProcessLife WITH
    runs <- Runs, used <- Used, remote <- ssh, strays <- Strays,
    stopping <- {name[victim[c]] : c \in TakenBy}

\* The manager implements ProcessLife: of a server's processes all that run but one
\* are strays, none is started while its old one is on the way out, and no Stop lets
\* go of a local process that runs.
LifeSpec == Life!LifeSpec

\* When StopAll or ReapIdle has gone through its names, of the processes it
\* collected none runs but strays, also of those that another call took out of the
\* table in between: for each a Stop is over, and no local one has survived it.
StopsWhatItSaw ==
    \A c \in Caller :
        op[c] \in {"stopall", "reap"} /\ phase[c] = "none" /\ todo[c] = {} =>
            seen[c] \cap running \subseteq Strays

\* Every Stop, StopAll and ReapIdle returns, also of a process that ignores all
\* signals and whose pipe a grandchild keeps open (the bound stopProcess is for,
\* manager.go:221), unless SSH keeps the mutex for ever.
Jammed == \E c \in Caller : phase[c] = "dial" \/ victim[c] \in ssh \cap stuck
StopsReturn ==
    <>[]Jammed \/ \A c \in Caller : Stopping(c) ~> op[c] = "idle"

\* "Total worst-case Stop() runtime is the sum of all three, ~5 seconds"
\* (manager.go:212): every Stop returns.
StopIsBounded == \A c \in Caller : op[c] = "stop" ~> op[c] = "idle"
=============================================================================
