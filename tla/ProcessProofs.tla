---------------------------- MODULE ProcessProofs ----------------------------
(***************************************************************************)
(* Proofs about the process manager, for all servers, callers and          *)
(* processes.                                                              *)
(***************************************************************************)
EXTENDS Process, TLAPS

\* Manager.mu has one holder.
Mutex ==
    \A c, d \in Caller : phase[c] # "none" /\ phase[d] # "none" => c = d

\* What a caller is in says whether it may have the mutex, and its phase whether
\* it has taken a process out; after SIGKILL that process has exited.
Holders ==
    \A c \in Caller :
        /\ op[c] = "idle" => phase[c] = "none"
        /\ op[c] = "start" <=> phase[c] = "dial"
        /\ victim[c] # NoProc <=> phase[c] \in {"eof", "term", "kill"}
        /\ phase[c] = "kill" => victim[c] \notin running

\* The table has a process under its name, and what is not named
\* does not run and was neither collected nor stopped.
Named ==
    /\ \A s \in Server : procs[s] # NoProc => name[procs[s]] = s
    /\ \A p \in running \cup left : name[p] # NoServer
    /\ \A c \in Caller : \A p \in seen[c] : name[p] # NoServer

\* While the mutex is held, the server that is started or stopped is not in the
\* table.
TakenOut ==
    \A c \in Caller :
        /\ victim[c] # NoProc =>
             name[victim[c]] \in Server /\ procs[name[victim[c]]] = NoProc
        /\ phase[c] = "dial" => \A s \in todo[c] : procs[s] = NoProc

\* A process that was collected and still runs is one whose name is still to be
\* stopped, or the one that is stopped now, or a remote one whose Stop is over.
Pending ==
    \A c \in Caller : \A p \in (seen[c] \cap running) \ Strays :
        op[c] \in {"stopall", "reap"} => name[p] \in todo[c] \/ victim[c] = p

IInv == TypeOK /\ Mutex /\ Holders /\ Named /\ TakenOut /\ NoOrphan /\ Pending

LEMMA InitIInv == Init => IInv
BY ProcessAssumption
   DEF Init, IInv, TypeOK, Mutex, Holders, Named, TakenOut, NoOrphan, Pending, Strays

\* A new process for a server that is not in the table, by whoever may have the
\* mutex.  The calls of the others do not change; c's own ends or is none.
LEMMA RunStep ==
  ASSUME IInv, NEW c \in Caller, NEW s \in Server, NEW p \in Proc,
         NEW remote \in BOOLEAN, NEW bad \in BOOLEAN,
         Run(s, p, remote, bad), procs[s] = NoProc,
         \A d \in Caller : d # c => phase[d] = "none",
         phase[c] \in {"none", "dial"},
         op' = [op EXCEPT ![c] = "idle"], phase' = [phase EXCEPT ![c] = "none"],
         todo' = todo \/ todo' = [todo EXCEPT ![c] = {}],
         op[c] \in {"idle", "start"},
         UNCHANGED <<seen, victim>>
  PROVE  IInv'
<1> USE DEF IInv
<1>0. /\ procs' = [procs EXCEPT ![s] = p] /\ name' = [name EXCEPT ![p] = s]
      /\ name[p] = NoServer /\ running' = running \cup {p} /\ left' = left
      /\ ssh \subseteq ssh'
  BY DEF Run
<1>1. TypeOK'
  BY DEF TypeOK, Run
<1>2. p \notin running \cup left /\ s # NoServer /\ p # NoProc
  BY <1>0, ProcessAssumption DEF Named
<1>3. \A d \in Caller : phase'[d] = "none" /\ victim'[d] = NoProc
  BY DEF TypeOK, Holders
<1>4. \A t \in Server : procs[t] # p
  BY <1>0, ProcessAssumption, <1>2 DEF Named
<1>5. Mutex' /\ TakenOut'
  BY <1>3 DEF Mutex, TakenOut
<1>6. Holders'
  <2> SUFFICES ASSUME NEW d \in Caller
               PROVE  op'[d] # "start" /\ phase'[d] = "none" /\ victim'[d] = NoProc
    BY DEF Holders
  <2> QED
    BY <1>3 DEF TypeOK, Holders
<1>7. Named'
  <2>1. \A t \in Server : procs'[t] # NoProc => name'[procs'[t]] = t
    BY <1>0, <1>2, <1>4 DEF Named, TypeOK
  <2>2. \A q \in running' \cup left' : name'[q] # NoServer
    BY <1>0, <1>2 DEF Named, TypeOK
  <2>3. \A d \in Caller : \A q \in seen'[d] : name'[q] # NoServer
    BY <1>0, <1>2 DEF Named, TypeOK
  <2> QED
    BY <2>1, <2>2, <2>3 DEF Named
<1>8. NoOrphan'
  <2> SUFFICES ASSUME NEW q \in running' \ Strays' PROVE procs'[name'[q]] = q
    BY DEF NoOrphan
  <2>1. CASE q = p
    BY <2>1, <1>0 DEF TypeOK
  <2>2. CASE q # p
    <3>1. q \in running \ Strays /\ name'[q] = name[q] /\ q # NoProc
      BY <2>2, <1>0, ProcessAssumption DEF TypeOK, Strays
    <3>2. procs[name[q]] = q
      BY <3>1, <1>3 DEF NoOrphan
    <3>3. name[q] \in Server
      BY <3>1 DEF Named, TypeOK
    <3> QED
      BY <3>1, <3>2, <3>3, <1>0 DEF TypeOK
  <2> QED
    BY <2>1, <2>2
<1>9. Pending'
  <2> SUFFICES ASSUME NEW d \in Caller, NEW q \in (seen'[d] \cap running') \ Strays',
                      op'[d] \in {"stopall", "reap"}
               PROVE  name'[q] \in todo'[d] \/ victim'[d] = q
    BY DEF Pending
  <2>1. d # c /\ op[d] = op'[d] /\ todo'[d] = todo[d]
    BY DEF TypeOK
  <2>2. CASE q # p
    BY <2>1, <2>2, <1>0 DEF Pending, TypeOK, Strays
  <2>3. CASE q = p
    BY <2>3, <1>0 DEF Named
  <2> QED
    BY <2>2, <2>3
<1> QED
  BY <1>1, <1>5, <1>6, <1>7, <1>8, <1>9

\* The end of a Stop: the mutex is released, and the process has exited or is a
\* stray.
LEMMA UnlockStep ==
  ASSUME IInv, NEW c \in Caller, Unlock(c),
         phase[c] \in {"eof", "term", "kill"},
         victim[c] \in running => victim[c] \in ssh
  PROVE  IInv'
<1> USE DEF IInv
<1>0. /\ victim' = [victim EXCEPT ![c] = NoProc] /\ phase' = [phase EXCEPT ![c] = "none"]
      /\ left' = left \cup {victim[c]}
      /\ UNCHANGED <<procs, name, ssh, running, stuck, op, todo, seen>>
  BY DEF Unlock
<1>10. victim[c] \in Proc /\ name[victim[c]] # NoServer
  BY ProcessAssumption DEF TypeOK, Holders, TakenOut
<1>1. TypeOK'
  BY <1>0, <1>10 DEF TypeOK
<1>2. \A d \in Caller : d # c => phase[d] = "none"
  BY DEF Mutex
<1>3. \A d \in Caller : phase'[d] = "none" /\ victim'[d] = NoProc
  BY <1>0, <1>2 DEF TypeOK, Holders
<1>4. Mutex' /\ TakenOut'
  BY <1>3 DEF Mutex, TakenOut
<1>5. Holders'
  BY <1>0, <1>3 DEF TypeOK, Holders
<1>6. Named'
  BY <1>0, <1>10 DEF Named
<1>7. \A p \in running' \ Strays' : p \in running \ Strays /\ p # victim[c] /\ p # NoProc
  BY <1>0, ProcessAssumption DEF TypeOK, Strays
<1>8. NoOrphan'
  <2> SUFFICES ASSUME NEW p \in running' \ Strays' PROVE procs[name[p]] = p
    BY <1>0 DEF NoOrphan
  <2>1. \A d \in Caller : victim[d] # p
    BY <1>2, <1>7 DEF Holders
  <2> QED
    BY <1>7, <2>1 DEF NoOrphan
<1>9. Pending'
  BY <1>0, <1>7 DEF Pending, TypeOK
<1> QED
  BY <1>1, <1>4, <1>5, <1>6, <1>8, <1>9

\* Stop of a server that is in the table: its process is taken out.
LEMMA StopListedStep ==
  ASSUME IInv, NEW c \in Caller, NEW s \in Server, StopListed(c, s)
  PROVE  IInv'
<1> USE DEF IInv
<1>0. /\ Stopping(c) /\ s \in todo[c] /\ procs[s] # NoProc
      /\ \A d \in Caller : phase[d] = "none" /\ victim[d] = NoProc
      /\ procs' = [procs EXCEPT ![s] = NoProc]
      /\ todo' = [todo EXCEPT ![c] = @ \ {s}]
      /\ victim' = [victim EXCEPT ![c] = procs[s]]
      /\ phase' = [phase EXCEPT ![c] = "eof"]
      /\ UNCHANGED <<name, ssh, running, stuck, left, op, seen>> /\ Strays' = Strays
  BY DEF StopListed, Unlocked, Free, Holders, Strays
<1>1. TypeOK'
  BY <1>0 DEF TypeOK
<1>2. procs[s] \in Proc /\ name[procs[s]] = s
  BY <1>0 DEF TypeOK, Named
<1>3. Mutex'
  BY <1>0 DEF Mutex, TypeOK
<1>4. Holders'
  BY <1>0 DEF Holders, TypeOK, Stopping
<1>5. Named'
  BY <1>0 DEF Named, TypeOK
<1>6. TakenOut'
  BY <1>0, <1>2 DEF TakenOut, TypeOK
<1>7. NoOrphan'
  <2> SUFFICES ASSUME NEW p \in running \ Strays
               PROVE  procs'[name[p]] = p \/ \E d \in Caller : victim'[d] = p
    BY <1>0 DEF NoOrphan
  <2>1. procs[name[p]] = p /\ name[p] \in Server
    BY <1>0, ProcessAssumption DEF NoOrphan, Named, TypeOK
  <2>2. CASE name[p] = s
    BY <2>1, <2>2, <1>0 DEF TypeOK
  <2>3. CASE name[p] # s
    BY <2>1, <2>3, <1>0 DEF TypeOK
  <2> QED
    BY <2>2, <2>3
<1>8. Pending'
  <2> SUFFICES ASSUME NEW d \in Caller, NEW p \in (seen[d] \cap running) \ Strays,
                      op[d] \in {"stopall", "reap"}
               PROVE  name[p] \in todo'[d] \/ victim'[d] = p
    BY <1>0 DEF Pending
  <2>1. name[p] \in todo[d]
    BY <1>0, ProcessAssumption DEF Pending, TypeOK
  <2>2. CASE d # c \/ name[p] # s
    BY <2>1, <2>2, <1>0 DEF TypeOK
  <2>3. CASE d = c /\ name[p] = s
    <3>1. procs[s] = p
      BY <2>3, <1>0, ProcessAssumption DEF NoOrphan, TypeOK
    <3> QED
      BY <3>1, <2>3, <1>0 DEF TypeOK
  <2> QED
    BY <2>2, <2>3
<1> QED
  BY <1>1, <1>3, <1>4, <1>5, <1>6, <1>7, <1>8

\* The calls that only begin, end, or pass over a server that is not there: the
\* processes stay as they are.
LEMMA CallStep ==
  ASSUME IInv, NEW c \in Caller, UNCHANGED <<table, victim>>,
         \/ \E s \in Server : StartSSH(c, s) \/ Stop(c, s) \/ StopAbsent(c, s)
         \/ SSHFails(c) \/ Return(c)
         \/ \E names \in SUBSET Listed, call \in {"stopall", "reap"} : Collect(c, call, names)
  PROVE  IInv'
<1> USE DEF IInv
<1>0. UNCHANGED <<procs, name, ssh, running, stuck, left>> /\ Strays' = Strays
  BY DEF table, Strays
<1>1. CASE \E s \in Server : StartSSH(c, s)
  <2> PICK s \in Server : StartSSH(c, s)
    BY <1>1
  <2> USE DEF StartSSH
  <2>1. TypeOK' /\ Named' /\ NoOrphan'
    BY <1>0 DEF TypeOK, Named, NoOrphan
  <2>2. Mutex' /\ Holders'
    BY <1>0 DEF Mutex, Holders, TypeOK, Free
  <2>3. TakenOut'
    BY <1>0 DEF TakenOut, TypeOK, Free, Holders, Absent
  <2>4. Pending'
    BY <1>0 DEF Pending, TypeOK
  <2> QED
    BY <2>1, <2>2, <2>3, <2>4
<1>2. CASE \E s \in Server : Stop(c, s)
  <2> PICK s \in Server : Stop(c, s)
    BY <1>2
  <2> USE DEF Stop
  <2>1. TypeOK' /\ Named' /\ NoOrphan' /\ Mutex'
    BY <1>0 DEF TypeOK, Named, NoOrphan, Mutex
  <2>2. Holders' /\ TakenOut' /\ Pending'
    BY <1>0 DEF Holders, TakenOut, Pending, TypeOK
  <2> QED
    BY <2>1, <2>2
<1>3. CASE \E s \in Server : StopAbsent(c, s)
  <2> PICK s \in Server : StopAbsent(c, s)
    BY <1>3
  <2> USE DEF StopAbsent
  <2>1. TypeOK' /\ Named' /\ NoOrphan' /\ Mutex' /\ Holders'
    BY <1>0 DEF TypeOK, Named, NoOrphan, Mutex, Holders
  <2>2. TakenOut'
    BY <1>0 DEF TakenOut, TypeOK
  <2>3. Pending'
    <3> SUFFICES ASSUME NEW d \in Caller, NEW p \in (seen[d] \cap running) \ Strays,
                        op[d] \in {"stopall", "reap"}
                 PROVE  name[p] \in todo'[d] \/ victim[d] = p
      BY <1>0 DEF Pending
    <3>1. victim[d] = NoProc /\ p # NoProc /\ name[p] \in todo[d]
      BY ProcessAssumption DEF Unlocked, Free, Holders, Pending, TypeOK
    <3>2. procs[name[p]] = p
      BY ProcessAssumption DEF Unlocked, Free, Holders, NoOrphan, TypeOK
    <3> QED
      BY <3>1, <3>2 DEF TypeOK
  <2> QED
    BY <2>1, <2>2, <2>3
<1>4. CASE SSHFails(c)
  <2> USE DEF SSHFails, EndStart
  <2>1. TypeOK' /\ Named' /\ NoOrphan' /\ Mutex'
    BY <1>0, <1>4 DEF TypeOK, Named, NoOrphan, Mutex
  <2>2. Holders' /\ TakenOut' /\ Pending'
    BY <1>0, <1>4 DEF Holders, TakenOut, Pending, TypeOK
  <2> QED
    BY <2>1, <2>2
<1>5. CASE Return(c)
  <2> USE DEF Return, Stopping
  <2>1. TypeOK' /\ Named' /\ NoOrphan' /\ Mutex'
    BY <1>0, <1>5 DEF TypeOK, Named, NoOrphan, Mutex
  <2>2. Holders' /\ TakenOut' /\ Pending'
    BY <1>0, <1>5 DEF Holders, TakenOut, Pending, TypeOK
  <2> QED
    BY <2>1, <2>2
<1>6. CASE \E names \in SUBSET Listed, call \in {"stopall", "reap"} : Collect(c, call, names)
  <2> PICK names \in SUBSET Listed, call \in {"stopall", "reap"} : Collect(c, call, names)
    BY <1>6
  <2> USE DEF Collect
  <2>0. \A s \in names : s \in Server /\ procs[s] \in Proc /\ name[procs[s]] = s
    BY DEF Listed, Absent, TypeOK, Named
  <2>1. TypeOK' /\ NoOrphan' /\ Mutex'
    BY <1>0, <2>0 DEF TypeOK, NoOrphan, Mutex
  <2>2. Named'
    BY <1>0, <2>0, ProcessAssumption DEF Named, TypeOK
  <2>3. Holders' /\ TakenOut'
    BY <1>0 DEF Holders, TakenOut, TypeOK
  <2>4. Pending'
    BY <1>0, <2>0 DEF Pending, TypeOK
  <2> QED
    BY <2>1, <2>2, <2>3, <2>4
<1> QED
  BY <1>1, <1>2, <1>3, <1>4, <1>5, <1>6

\* A process exits by itself.
LEMMA ExitStep ==
  ASSUME IInv, NEW p \in Proc, Exit(p)
  PROVE  IInv'
<1> USE DEF IInv, Exit, calls
<1>1. TypeOK' /\ Mutex' /\ Holders'
  BY DEF TypeOK, Mutex, Holders
<1>2. Named' /\ TakenOut' /\ NoOrphan' /\ Pending'
  BY DEF Named, TakenOut, NoOrphan, Pending, Strays
<1> QED
  BY <1>1, <1>2

\* The step SIGTERM or SIGKILL takes keeps the mutex and the process taken out.
LEMMA SignalStep ==
  ASSUME IInv, NEW c \in Caller, SigTerm(c) \/ SigKill(c)
  PROVE  IInv'
<1> USE DEF IInv
<1> DEFINE last == IF SigTerm(c) THEN "term" ELSE "kill"
<1>0. /\ phase[c] \in {"eof", "term"} /\ phase' = [phase EXCEPT ![c] = last]
      /\ running' = running \/ running' = running \ {victim[c]}
      /\ last = "kill" => victim[c] \notin running'
      /\ UNCHANGED <<procs, name, ssh, stuck, left, op, todo, seen, victim>>
  BY DEF SigTerm, SigKill, table
<1>1. last \in {"term", "kill"}
  OBVIOUS
<1> HIDE DEF last
<1>2. TypeOK' /\ Mutex'
  BY <1>0, <1>1 DEF TypeOK, Mutex
<1>3. Holders'
  BY <1>0, <1>1 DEF Holders, TypeOK
<1>4. Named' /\ TakenOut' /\ NoOrphan' /\ Pending'
  BY <1>0, <1>1 DEF Named, TakenOut, NoOrphan, Pending, Strays, TypeOK
<1> QED
  BY <1>2, <1>3, <1>4

LEMMA NextIInv == IInv /\ [Next]_vars => IInv'
<1> SUFFICES ASSUME IInv, [Next]_vars PROVE IInv'
  OBVIOUS
<1>1. CASE \E c \in Caller, s \in Server : StartSSH(c, s) \/ Stop(c, s)
  BY <1>1, CallStep DEF StartSSH, Stop
<1>2. CASE \E c \in Caller, s \in Server, p \in Proc, bad \in BOOLEAN : StartLocal(c, s, p, bad)
  <2> PICK c \in Caller, s \in Server, p \in Proc, bad \in BOOLEAN : StartLocal(c, s, p, bad)
    BY <1>2
  <2>1. Run(s, p, FALSE, bad) /\ procs[s] = NoProc
    BY DEF StartLocal, Absent
  <2>2. op[c] = "idle" /\ \A d \in Caller : phase[d] = "none"
    BY DEF StartLocal, Free
  <2>3. /\ op' = [op EXCEPT ![c] = "idle"] /\ phase' = [phase EXCEPT ![c] = "none"]
        /\ UNCHANGED <<todo, seen, victim>>
    BY <2>2 DEF StartLocal, calls, IInv, TypeOK
  <2> QED
    BY <2>1, <2>2, <2>3, RunStep
<1>3. CASE \E c \in Caller, p \in Proc, bad \in BOOLEAN : SSHUp(c, p, bad)
  <2> PICK c \in Caller, p \in Proc, bad \in BOOLEAN : SSHUp(c, p, bad)
    BY <1>3
  <2> PICK s \in todo[c] : Run(s, p, TRUE, bad)
    BY DEF SSHUp
  <2>1. /\ phase[c] = "dial" /\ op' = [op EXCEPT ![c] = "idle"]
        /\ todo' = [todo EXCEPT ![c] = {}] /\ phase' = [phase EXCEPT ![c] = "none"]
        /\ UNCHANGED <<seen, victim>>
    BY DEF SSHUp, EndStart
  <2>2. s \in Server /\ procs[s] = NoProc /\ op[c] = "start"
    BY <2>1 DEF IInv, TypeOK, TakenOut, Holders
  <2>3. \A d \in Caller : d # c => phase[d] = "none"
    BY <2>1 DEF IInv, Mutex
  <2> QED
    BY <2>1, <2>2, <2>3, RunStep
<1>4. ASSUME NEW c \in Caller, SSHFails(c) \/ Return(c) PROVE IInv'
  BY <1>4, CallStep DEF SSHFails, EndStart, Return, table
<1>5. ASSUME NEW c \in Caller, StopAll(c) PROVE IInv'
  BY <1>5, CallStep DEF StopAll, Collect
<1>6. ASSUME NEW c \in Caller, NextStop(c) PROVE IInv'
  <2> PICK s \in Server : StopAbsent(c, s) \/ StopListed(c, s)
    BY <1>6 DEF NextStop
  <2>1. CASE StopAbsent(c, s)
    BY <2>1, CallStep DEF StopAbsent
  <2>2. CASE StopListed(c, s)
    BY <2>2, StopListedStep
  <2> QED
    BY <2>1, <2>2
<1>7. ASSUME NEW c \in Caller, EndOfStop(c) PROVE IInv'
  <2>1. CASE SSHClosed(c)
    BY <2>1, UnlockStep DEF SSHClosed
  <2>2. CASE Waited(c)
    <3>1. victim[c] # NoProc
      BY <2>2, ProcessAssumption DEF Waited, Local
    <3>2. phase[c] \in {"eof", "term", "kill"}
      BY <3>1 DEF IInv, Holders
    <3> QED
      BY <2>2, <3>2, UnlockStep DEF Waited
  <2>3. CASE GiveUp(c)
    <3>1. victim[c] \notin running
      BY <2>3 DEF GiveUp, IInv, Holders
    <3> QED
      BY <2>3, <3>1, UnlockStep DEF GiveUp, Local, IInv, Holders
  <2>4. CASE SigTerm(c) \/ SigKill(c)
    BY <2>4, SignalStep
  <2> QED
    BY <1>7, <2>1, <2>2, <2>3, <2>4 DEF EndOfStop
<1>8. CASE \E c \in Caller, idle \in SUBSET Server : ReapIdle(c, idle)
  BY <1>8, CallStep DEF ReapIdle, Collect
<1>9. CASE \E p \in Proc : Exit(p)
  BY <1>9, ExitStep
<1>10. CASE UNCHANGED vars
  BY <1>10 DEF vars, IInv, TypeOK, Mutex, Holders, Named, TakenOut, NoOrphan, Pending, Strays
<1> QED
  BY <1>1, <1>2, <1>3, <1>4, <1>5, <1>6, <1>7, <1>8, <1>9, <1>10 DEF Next

LEMMA Invariance == Spec => []IInv
<1>1. Init => IInv
  BY InitIInv
<1>2. IInv /\ [Next]_vars => IInv'
  BY NextIInv
<1> QED
  BY <1>1, <1>2, PTL DEF Spec

\* A server has one process at a time, strays aside.
OneInstance ==
    \A p, q \in running \ Strays : name[p] = name[q] => p = q

\* It has because both are in the table, or one is being
\* stopped and then the table has none for its name, or both are being stopped
\* by the one holder of the mutex.
LEMMA OneOfAName == IInv => OneInstance
<1> SUFFICES ASSUME IInv, NEW p \in running \ Strays, NEW q \in running \ Strays,
                    name[p] = name[q]
             PROVE  p = q
  BY DEF OneInstance
<1> USE DEF IInv
<1>0. p # NoProc /\ q # NoProc
  BY ProcessAssumption DEF TypeOK
<1>1. CASE procs[name[p]] = p
  <2>1. \A d \in Caller : victim[d] # q
    BY <1>0, <1>1 DEF TakenOut
  <2> QED
    BY <1>1, <2>1 DEF NoOrphan
<1>2. CASE procs[name[p]] # p
  <2> PICK c \in Caller : victim[c] = p
    BY <1>2 DEF NoOrphan
  <2>1. procs[name[q]] = NoProc
    BY <1>0 DEF TakenOut
  <2> PICK d \in Caller : victim[d] = q
    BY <2>1, <1>0 DEF NoOrphan
  <2>2. phase[c] # "none" /\ phase[d] # "none"
    BY <1>0 DEF Holders
  <2> QED
    BY <2>2 DEF Mutex
<1> QED
  BY <1>1, <1>2

\* The types of the manager's state are kept (TypeOK).
THEOREM TypeCorrect == Spec => []TypeOK
BY Invariance, PTL DEF IInv

\* No process that runs is forgotten by the manager, whatever the order of
\* Start, Stop, StopAll, ReapIdle and of the processes' own exits; it lets go of
\* remote ones only, and of these only by a Stop.
THEOREM NoProcessForgotten == Spec => []NoOrphan
BY Invariance, PTL DEF IInv

\* No server ever has two processes that run, but for remote ones that were stopped.
THEOREM OneProcessPerServer == Spec => []OneInstance
BY Invariance, OneOfAName, PTL

\* What StopAll and ReapIdle collected no longer runs when they are through, or is
\* a remote process whose session a Stop has ended.
THEOREM CollectedAreStopped == Spec => []StopsWhatItSaw
<1>1. IInv => StopsWhatItSaw
  <2> SUFFICES ASSUME IInv, NEW c \in Caller, op[c] \in {"stopall", "reap"},
                      phase[c] = "none", todo[c] = {},
                      NEW p \in (seen[c] \cap running) \ Strays
               PROVE  FALSE
    BY DEF StopsWhatItSaw
  <2>1. victim[c] = NoProc /\ p # NoProc
    BY ProcessAssumption DEF IInv, Holders, TypeOK
  <2> QED
    BY <2>1 DEF IInv, Pending
<1> QED
  BY <1>1, Invariance, PTL

\* A local process leaves the hands of Stop only when it has exited, and until a
\* Stop is over the table has no process in the place of the one it took out.
StopIsFinal ==
    \A c \in Caller :
        victim[c] # NoProc =>
            /\ procs[name[victim[c]]] = NoProc
            /\ victim'[c] = victim[c] => procs'[name[victim[c]]] = NoProc
            /\ victim'[c] # victim[c] =>
                 victim'[c] = NoProc /\ victim[c] \notin running' \ ssh

\* Stop in all its variants, stopProcess with its three waits included, lets go of
\* no local process that still runs: a Start after it cannot meet the old one on
\* the same files or port.
THEOREM StopEndsTheProcess == Spec => [][StopIsFinal]_vars
<1>1. IInv /\ IInv' /\ [Next]_vars => StopIsFinal
  <2> SUFFICES ASSUME IInv, IInv', [Next]_vars, NEW c \in Caller, victim[c] # NoProc
               PROVE  /\ procs[name[victim[c]]] = NoProc
                      /\ victim'[c] = victim[c] => procs'[name[victim[c]]] = NoProc
                      /\ victim'[c] # victim[c] =>
                            victim'[c] = NoProc /\ victim[c] \notin running' \ ssh
    BY DEF StopIsFinal
  <2>0. victim[c] \in Proc /\ phase[c] \in {"eof", "term", "kill"}
    BY DEF IInv, TypeOK, Holders
  <2>1. procs[name[victim[c]]] = NoProc /\ name[victim[c]] \in Server
    BY DEF IInv, TakenOut
  <2>2. ~Free
    BY <2>0 DEF Free
  <2>3. ASSUME NEW d \in Caller, phase[d] # "none" PROVE d = c
    BY <2>0, <2>3 DEF IInv, Mutex
  <2>4. CASE UNCHANGED <<procs, name, victim>>
    BY <2>1, <2>4
  <2>5. ASSUME NEW d \in Caller, EndOfStop(d)
        PROVE  \/ UNCHANGED <<procs, name, victim>>
               \/ Unlock(c) /\ victim[c] \notin running' \ ssh
    <3>1. phase[d] # "none"
      BY <2>5 DEF EndOfStop, SSHClosed, Waited, SigTerm, SigKill, GiveUp, Local
    <3>2. d = c
      BY <2>3, <3>1
    <3>3. CASE SSHClosed(c)
      BY <3>3 DEF SSHClosed
    <3>4. CASE Waited(c)
      BY <3>4 DEF Waited, Unlock
    <3>5. CASE GiveUp(c)
      BY <3>5 DEF GiveUp, Unlock, IInv, Holders
    <3>6. CASE SigTerm(c) \/ SigKill(c)
      BY <3>6 DEF SigTerm, SigKill, table
    <3> QED
      BY <2>5, <3>2, <3>3, <3>4, <3>5, <3>6 DEF EndOfStop
  <2>6. CASE \E d \in Caller : EndOfStop(d)
    <3>1. CASE Unlock(c) /\ victim[c] \notin running' \ ssh
      BY <2>0, <2>1, <3>1, ProcessAssumption DEF Unlock, IInv, TypeOK
    <3> QED
      BY <2>4, <2>5, <2>6, <3>1
  <2>7. ASSUME NEW d \in Caller, phase[d] = "dial" PROVE FALSE
    BY <2>0, <2>3, <2>7
  <2>8. CASE \E d \in Caller, s \in Server : StartSSH(d, s) \/ Stop(d, s)
    BY <2>2, <2>4, <2>8 DEF StartSSH, Stop, table
  <2>9. CASE \E d \in Caller, s \in Server, p \in Proc, bad \in BOOLEAN : StartLocal(d, s, p, bad)
    BY <2>2, <2>9 DEF StartLocal
  <2>10. CASE \E d \in Caller : SSHFails(d) \/ \E p \in Proc, bad \in BOOLEAN : SSHUp(d, p, bad)
    BY <2>7, <2>10 DEF SSHFails, SSHUp, EndStart
  <2>11. CASE \E d \in Caller : \/ StopAll(d) \/ NextStop(d)
                               \/ \E idle \in SUBSET Server : ReapIdle(d, idle)
    BY <2>2, <2>11 DEF StopAll, ReapIdle, Collect, NextStop, StopAbsent, StopListed, Unlocked
  <2>12. CASE UNCHANGED vars \/ (\E d \in Caller : Return(d)) \/ \E p \in Proc : Exit(p)
    BY <2>4, <2>12 DEF vars, Return, Exit, table, calls
  <2> QED
    BY <2>6, <2>8, <2>9, <2>10, <2>11, <2>12 DEF Next
<1> QED
  BY <1>1, Invariance, PTL DEF Spec
-----------------------------------------------------------------------------
(* The manager as an implementation of ProcessLife.                          *)

Stopped == {name[victim[c]] : c \in TakenBy}

\* A start under the mutex: nobody is stopping, and of a server that is not in the
\* table none but strays run.
LEMMA BeginLife ==
  ASSUME IInv, NEW s \in Server, NEW p \in Proc, NEW remote \in BOOLEAN, NEW bad \in BOOLEAN,
         Run(s, p, remote, bad), procs[s] = NoProc, victim' = victim,
         \A c \in Caller : victim[c] = NoProc
  PROVE  Life!Begin(s, p)
<1> USE DEF IInv
<1>1. /\ name' = [name EXCEPT ![p] = s] /\ running' = running \cup {p}
      /\ name[p] = NoServer /\ s # NoServer /\ left' = left /\ ssh' \in {ssh, ssh \cup {p}}
  BY ProcessAssumption DEF Run
<1>2. TakenBy = {} /\ TakenBy' = {}
  BY DEF TakenBy
<1>3. Stopped = {} /\ Stopped' = {}
  BY <1>2 DEF Stopped
<1>4. p \notin running \cup left
  BY <1>1 DEF Named
<1>5. Runs[s] \subseteq Strays
  BY ProcessAssumption DEF NoOrphan, TypeOK, Runs
<1>6. Runs' = [Runs EXCEPT ![s] = @ \cup {p}]
  <2>1. ASSUME NEW r \in Server
        PROVE  {q \in running' : name'[q] = r} =
                 IF r = s THEN {q \in running : name[q] = r} \cup {p}
                          ELSE {q \in running : name[q] = r}
    <3>1. \A q \in running : q \in Proc /\ q # p /\ name'[q] = name[q]
      BY <1>1, <1>4 DEF TypeOK
    <3>2. name'[p] = s
      BY <1>1 DEF TypeOK
    <3> QED
      BY <1>1, <3>1, <3>2
  <2> QED
    BY <2>1 DEF Runs
<1>8. Strays' = Strays
  BY <1>1, <1>4 DEF Strays
<1>7. p \notin Used /\ Used' = Used \cup {p}
  BY <1>1 DEF Used, TypeOK
<1> QED
  BY <1>1, <1>3, <1>5, <1>6, <1>7, <1>8 DEF Life!Begin, Stopped

\* One process less, and nobody's Stop has gone on: an exit.
LEMMA ExitLife ==
  ASSUME IInv, NEW p \in running, running' = running \ {p},
         UNCHANGED <<name, victim, ssh, left>>
  PROVE  \E s \in Server : Life!End(s, p)
<1>1. p \in Proc /\ name[p] \in Server
  BY DEF IInv, TypeOK, Named
<1>2. Used' = Used /\ Stopped' = Stopped /\ Strays' = Strays \ {p}
  BY DEF Used, Stopped, TakenBy, Strays
<1>3. p \in Runs[name[p]]
  BY <1>1 DEF Runs
<1>4. Runs' = [Runs EXCEPT ![name[p]] = @ \ {p}]
  <2>1. ASSUME NEW r \in Server
        PROVE  {q \in running' : name'[q] = r} =
                 IF r = name[p] THEN {q \in running : name[q] = r} \ {p}
                                ELSE {q \in running : name[q] = r}
    OBVIOUS
  <2> QED
    BY <1>1, <2>1 DEF Runs
<1> QED
  BY <1>1, <1>2, <1>3, <1>4 DEF Life!End, Stopped

\* The end of a Stop: the server has no local process left, for the one that was
\* taken out has exited, and the table has had no other since.
LEMMA UnlockLife ==
  ASSUME IInv, NEW c \in Caller, Unlock(c), victim[c] # NoProc,
         victim[c] \in running => victim[c] \in ssh
  PROVE  \E s \in Server : Life!EndStop(s)
<1> DEFINE v == victim[c]
<1> USE DEF IInv
<1>1. v \in Proc /\ name[v] \in Server /\ procs[name[v]] = NoProc /\ phase[c] # "none"
  BY DEF TypeOK, TakenOut, Holders
<1> PICK s \in Server : s = name[v]
  BY <1>1
<1>2. \A d \in Caller : d # c => victim[d] = NoProc
  BY <1>1 DEF Mutex, Holders
<1>3. /\ victim' = [victim EXCEPT ![c] = NoProc] /\ left' = left \cup {v}
      /\ UNCHANGED <<name, ssh, running>>
  BY DEF Unlock
<1>4. TakenBy = {c} /\ TakenBy' = {}
  BY <1>2, <1>3 DEF TakenBy, TypeOK
<1>5. Stopped = {s} /\ Stopped' = {}
  BY <1>4 DEF Stopped
<1>6. \A q \in Runs[s] : q \in ssh /\ (q = v \/ q \in Strays)
  <2> SUFFICES ASSUME NEW q \in running, name[q] = s, q # v PROVE q \in Strays
    BY DEF Runs, Strays
  <2>1. procs[name[q]] # q /\ q # NoProc
    BY <1>1, ProcessAssumption DEF TypeOK
  <2> QED
    BY <1>2, <2>1 DEF NoOrphan
<1>7. Runs' = [Runs EXCEPT ![s] = @ \cap ssh]
  <2>1. Runs[s] \cap ssh = Runs[s] /\ Runs' = Runs
    BY <1>3, <1>6 DEF Runs
  <2> QED
    BY <2>1 DEF Runs
<1>9. Strays' = Strays \cup (Runs[s] \cap ssh)
  <2>1. Strays' = Strays \cup ({v} \cap ssh \cap running)
    BY <1>3 DEF Strays
  <2>2. v \in running => v \in Runs[s]
    BY <1>1 DEF Runs
  <2>3. Runs[s] \subseteq running
    BY DEF Runs
  <2> QED
    BY <1>6, <2>1, <2>2, <2>3
<1>8. Used' = Used
  BY <1>3 DEF Used
<1> QED
  BY <1>3, <1>5, <1>7, <1>8, <1>9 DEF Life!EndStop, Stopped

\* A process is taken out of the table.
LEMMA TakenLife ==
  ASSUME IInv, NEW c \in Caller, NEW s \in Server, StopListed(c, s)
  PROVE  Life!BeginStop(s)
<1>1. /\ procs[s] # NoProc /\ victim' = [victim EXCEPT ![c] = procs[s]]
      /\ UNCHANGED <<name, running, ssh, left>> /\ \A d \in Caller : victim[d] = NoProc
  BY DEF StopListed, Unlocked, Free, IInv, Holders
<1>2. name[procs[s]] = s
  BY <1>1 DEF IInv, Named
<1>3. TakenBy = {} /\ TakenBy' = {c} /\ victim'[c] = procs[s]
  BY <1>1 DEF TakenBy, IInv, TypeOK
<1>4. Stopped = {} /\ Stopped' = {s}
  BY <1>1, <1>2, <1>3 DEF Stopped
<1>5. Runs' = Runs /\ Used' = Used /\ Strays' = Strays
  BY <1>1 DEF Runs, Used, Strays
<1> QED
  BY <1>1, <1>4, <1>5 DEF Life!BeginStop, Stopped

LEMMA NextLife == IInv /\ [Next]_vars => [Life!LifeNext]_Life!lifeVars
<1> SUFFICES ASSUME IInv, [Next]_vars PROVE Life!LifeNext \/ UNCHANGED Life!lifeVars
  OBVIOUS
<1>0. ASSUME UNCHANGED <<name, running, ssh, left, victim>> PROVE UNCHANGED Life!lifeVars
  BY <1>0 DEF Life!lifeVars, Runs, Used, TakenBy, Strays
<1>1. ASSUME NEW c \in Caller, phase[c] \in {"none", "dial"} PROVE victim[c] = NoProc
  BY <1>1 DEF IInv, Holders
<1>2. ASSUME NEW c \in Caller, NEW s \in Server, NEW p \in Proc, NEW bad \in BOOLEAN,
             StartLocal(c, s, p, bad)
      PROVE  Life!LifeNext
  <2>1. Run(s, p, FALSE, bad) /\ procs[s] = NoProc /\ victim' = victim
    BY <1>2 DEF StartLocal, Absent, calls
  <2>2. \A d \in Caller : victim[d] = NoProc
    BY <1>1, <1>2 DEF StartLocal, Free
  <2> QED
    BY <2>1, <2>2, BeginLife DEF Life!LifeNext
<1>3. ASSUME NEW c \in Caller, NEW p \in Proc, NEW bad \in BOOLEAN, SSHUp(c, p, bad)
      PROVE  Life!LifeNext
  <2> PICK s \in todo[c] : Run(s, p, TRUE, bad)
    BY <1>3 DEF SSHUp
  <2>1. phase[c] = "dial" /\ victim' = victim
    BY <1>3 DEF SSHUp, EndStart
  <2>2. s \in Server /\ procs[s] = NoProc
    BY <2>1 DEF IInv, TypeOK, TakenOut
  <2>3. \A d \in Caller : victim[d] = NoProc
    BY <1>1, <2>1 DEF IInv, Mutex
  <2> QED
    BY <2>1, <2>2, <2>3, BeginLife DEF Life!LifeNext
<1>4. ASSUME NEW c \in Caller, EndOfStop(c) PROVE Life!LifeNext \/ UNCHANGED Life!lifeVars
  <2>1. victim[c] # NoProc
    <3>1. phase[c] = "eof" \/ Local(c)
      BY <1>4 DEF EndOfStop, SSHClosed, Waited, SigTerm, SigKill, GiveUp
    <3> QED
      BY <3>1, ProcessAssumption DEF Local, IInv, Holders
  <2>2. CASE SSHClosed(c)
    BY <2>1, <2>2, UnlockLife DEF SSHClosed, Life!LifeNext
  <2>3. CASE Waited(c)
    BY <2>1, <2>3, UnlockLife DEF Waited, Life!LifeNext
  <2>4. CASE GiveUp(c)
    <3>1. victim[c] \notin running
      BY <2>4 DEF GiveUp, IInv, Holders
    <3> QED
      BY <2>1, <2>4, <3>1, UnlockLife DEF GiveUp, Life!LifeNext
  <2>5. CASE SigTerm(c)
    BY <1>0, <2>5 DEF SigTerm, table
  <2>6. CASE SigKill(c)
    <3>1. UNCHANGED <<name, victim, ssh, left>> /\ running' = running \ {victim[c]}
      BY <2>6 DEF SigKill
    <3>2. CASE victim[c] \in running
      BY <3>1, <3>2, ExitLife DEF Life!LifeNext, IInv, TypeOK
    <3>3. CASE victim[c] \notin running
      BY <1>0, <3>1, <3>3
    <3> QED
      BY <3>2, <3>3
  <2> QED
    BY <1>4, <2>2, <2>3, <2>4, <2>5, <2>6 DEF EndOfStop
<1>5. ASSUME NEW c \in Caller, NEW s \in Server, StopListed(c, s) PROVE Life!LifeNext
  BY <1>5, TakenLife DEF Life!LifeNext
<1>6. ASSUME NEW p \in Proc, Exit(p) PROVE Life!LifeNext
  BY <1>6, ExitLife DEF Exit, calls, Life!LifeNext
<1>7. CASE \/ UNCHANGED vars
           \/ \E c \in Caller : \/ SSHFails(c) \/ StopAll(c) \/ Return(c)
                                \/ \E s \in Server : \/ StartSSH(c, s) \/ Stop(c, s)
                                                     \/ StopAbsent(c, s)
                                \/ \E idle \in SUBSET Server : ReapIdle(c, idle)
  BY <1>0, <1>7 DEF vars, SSHFails, EndStart, StopAll, Return, StartSSH, Stop, StopAbsent,
     ReapIdle, Collect, table
<1> QED
  BY <1>2, <1>3, <1>4, <1>5, <1>6, <1>7 DEF Next, NextStop

\* The process manager is a ProcessLife, for any number of servers, callers and
\* processes: one process a server but for strays, none started over one on the way
\* out, and no local one that outlives the Stop of it.
THEOREM ManagerIsProcessLife == Spec => LifeSpec
<1>1. Init => Life!LifeInit
  BY DEF Init, Life!LifeInit, Runs, Used, TakenBy, Strays
<1> QED
  BY <1>1, NextLife, Invariance, PTL DEF Spec, LifeSpec, Life!LifeSpec

=============================================================================
