---------------------------- MODULE SecretsProofs ----------------------------
(***************************************************************************)
(* Proofs about the secret stores, for any number of processes, keys,      *)
(* values and starts: types, the file that no crash tears, and that a Get  *)
(* reads what the last operation has left.                                 *)
(***************************************************************************)
EXTENDS Secrets, TLAPS

\* An idle process has no operation, and another one has the key and value of it.
Jobs ==
    /\ job \in [Proc -> {Absent} \cup [key : Key, val : Field]]
    /\ \A p \in Proc : IF pc[p] = "idle" THEN job[p] = Absent
                       ELSE p \in up /\ job[p] \in [key : Key, val : Field]

\* What an operation under way is about.
LEMMA JobType ==
  ASSUME TypeOK, NEW p \in Proc, pc[p] # "idle"
  PROVE  p \in up /\ K(p) \in Key /\ V(p) \in Field
BY DEF TypeOK, K, V

\* A step that goes on with an operation, and one that ends it.
LEMMA StepJobs ==
  ASSUME TypeOK, NEW p \in Proc, NEW from \in PC \ {"idle"}, NEW to \in PC \ {"idle"},
         Step(p, from, to)
  PROVE  /\ pc' \in [Proc -> PC] /\ Jobs' /\ pc[p] = from
         /\ UNCHANGED <<darwin, envKey, starts, up, primary, master, used, job, clean>>
BY DEF TypeOK, Step, Jobs, env, procVars

LEMMA EndJobs ==
  ASSUME TypeOK, NEW p \in Proc, NEW from \in PC \ {"idle"}, End(p, from)
  PROVE  /\ pc' \in [Proc -> PC] /\ Jobs' /\ pc[p] = from
         /\ UNCHANGED <<darwin, envKey, starts, up, primary, master, used>>
<1>1. "idle" \in PC
  BY DEF PC
<1>2. /\ pc[p] = from /\ pc' = [pc EXCEPT ![p] = "idle"] /\ job' = [job EXCEPT ![p] = Absent]
      /\ UNCHANGED <<darwin, envKey, starts, up, primary, master, used>>
  BY DEF End, env, procVars
<1>3. ASSUME NEW q \in Proc
      PROVE  IF pc'[q] = "idle" THEN job'[q] = Absent
             ELSE q \in up' /\ job'[q] \in [key : Key, val : Field]
  <2>1. CASE q = p
    BY <1>2, <2>1, JobType DEF TypeOK
  <2>2. CASE q # p
    BY <1>2, <2>2 DEF TypeOK
  <2> QED
    BY <2>1, <2>2
<1>4. job' \in [Proc -> {Absent} \cup [key : Key, val : Field]]
  BY <1>2 DEF TypeOK
<1> QED
  BY <1>1, <1>2, <1>3, <1>4 DEF TypeOK, Jobs

\* What an operation that returns nil leaves to be read.
LEMMA ReturnJobs ==
  ASSUME TypeOK, NEW p \in Proc, NEW from \in PC \ {"idle"}, NEW rest \in SUBSET Field,
         Returns(p, from, rest)
  PROVE  /\ pc' \in [Proc -> PC] /\ Jobs' /\ pc[p] = from
         /\ may' \in [Key -> SUBSET Field] /\ kept' \in [Key -> SUBSET Value]
         /\ UNCHANGED <<darwin, envKey, starts, up, primary, master, used>>
<1>1. End(p, from) /\ pc[p] # "idle"
  BY DEF Returns, End
<1>2. K(p) \in Key /\ V(p) \in Field
  BY <1>1, JobType
<1>3. may' \in [Key -> SUBSET Field]
  BY <1>2 DEF Returns, TypeOK
<1>4. rest \ {Unset} \subseteq Value
  BY DEF Field
<1>5. kept' \in [Key -> SUBSET Value]
  BY <1>2, <1>4 DEF Returns, TypeOK
<1> QED
  BY <1>1, <1>3, <1>5, EndJobs

\* A step that ends with an error.
LEMMA FailTypes ==
  ASSUME TypeOK, NEW p \in Proc, NEW from \in PC \ {"idle"}, Fails(p, from),
         UNCHANGED <<kcVars, opVars, cache, loaded, file, collided>>,
         handle' \in [Proc -> {Absent, "tmp", "file"}], tmp' \in {Absent, Torn} \cup Whole
  PROVE  TypeOK'
<1>1. End(p, from) /\ UNCHANGED <<may, kept, clean>>
  BY DEF Fails, reads
<1> QED
  BY <1>1, EndJobs DEF TypeOK, Jobs, kcVars, opVars

-----------------------------------------------------------------------------
(* Types.                                                                  *)

LEMMA InitTypes == Init => TypeOK
<1> SUFFICES ASSUME Init PROVE TypeOK
  OBVIOUS
<1>1. Unset \in Field /\ Empty \in [Key -> Field]
  BY DEF Empty, Field
<1>2. legacy \in [Key -> Field]
  BY <1>1 DEF Init
<1>3. may \in [Key -> SUBSET Field] /\ kept \in [Key -> SUBSET Value]
  <2>1. may = [k \in Key |-> {legacy[k]}] /\ kept = [k \in Key |-> {}]
    BY DEF Init
  <2> QED
    BY <1>2, <2>1
<1>4. /\ darwin \in BOOLEAN /\ envKey \in BOOLEAN /\ clean \in BOOLEAN /\ collided \in BOOLEAN
      /\ starts \in 0..MaxStarts /\ master \in [Proc -> 0..MaxStarts]
      /\ primary \in [Proc -> Backend] /\ used \subseteq Backend /\ pc \in [Proc -> PC]
      /\ up \subseteq Proc /\ loaded \subseteq up
  <2>1. 0 \in 0..MaxStarts /\ "file" \in Backend /\ "idle" \in PC
    BY SecretsAssumption DEF Backend, PC
  <2> QED
    BY <2>1 DEF Init
<1>5. /\ cache \in [Proc -> [Key -> Field]] /\ opcache \in [Proc -> [Key -> Field]]
      /\ keychain \in [Key -> Field] /\ twins \in BOOLEAN
  BY <1>1 DEF Init
<1>6. /\ job \in [Proc -> {Absent} \cup [key : Key, val : Field]]
      /\ \A p \in Proc : pc[p] = "idle" /\ job[p] = Absent
      /\ handle \in [Proc -> {Absent, "tmp", "file"}]
      /\ item = Absent /\ file = Absent /\ tmp = Absent
  BY DEF Init
<1> QED
  BY <1>2, <1>3, <1>4, <1>5, <1>6 DEF TypeOK

LEMMA ProcessTypes ==
  ASSUME TypeOK, NEW p \in Proc,
         Start(p) \/ Kill(p) \/ \E k \in Key, v \in Field : Begin(p, k, v)
  PROVE  TypeOK'
<1> USE SecretsAssumption
<1>1. CASE Start(p)
  <2>1. /\ starts' \in 0..MaxStarts /\ master' \in [Proc -> 0..MaxStarts]
        /\ primary' \in [Proc -> Backend] /\ used' \subseteq Backend /\ clean' \in BOOLEAN
    BY <1>1 DEF TypeOK, Start, Backend
  <2>2. /\ up' = up \cup {p}
        /\ UNCHANGED <<env, kcVars, opVars, fileVars, pc, job, may, kept>>
    BY <1>1 DEF Start, reads
  <2> QED
    BY <2>1, <2>2 DEF TypeOK, env, kcVars, opVars, fileVars
<1>2. CASE Kill(p)
  <2>1. /\ up' \subseteq Proc /\ loaded' \subseteq up'
        /\ cache' \in [Proc -> [Key -> Field]] /\ opcache' \in [Proc -> [Key -> Field]]
        /\ pc' \in [Proc -> PC] /\ handle' \in [Proc -> {Absent, "tmp", "file"}]
        /\ kept' \in [Key -> SUBSET Value]
    BY <1>2 DEF TypeOK, Kill, Empty, Field, PC
  <2>2. ASSUME NEW q \in Proc
        PROVE  IF pc'[q] = "idle" THEN job'[q] = Absent
               ELSE q \in up' /\ job'[q] \in [key : Key, val : Field]
    <3>1. CASE q = p
      BY <1>2, <3>1 DEF TypeOK, Kill
    <3>2. CASE q # p
      BY <1>2, <3>2 DEF TypeOK, Kill
    <3> QED
      BY <3>1, <3>2
  <2>3. job' \in [Proc -> {Absent} \cup [key : Key, val : Field]]
    BY <1>2 DEF TypeOK, Kill
  <2> QED
    BY <1>2, <2>1, <2>2, <2>3 DEF TypeOK, Kill, env, kcVars
<1>3. ASSUME NEW k \in Key, NEW v \in Field, Begin(p, k, v) PROVE TypeOK'
  <2>1. pc' \in [Proc -> PC] /\ pc'[p] # "idle"
    BY <1>3 DEF TypeOK, Begin, PC
  <2>2. Jobs'
    <3>1. job' \in [Proc -> {Absent} \cup [key : Key, val : Field]]
          /\ job'[p] \in [key : Key, val : Field]
      BY <1>3 DEF TypeOK, Begin
    <3>2. \A q \in Proc : q # p => pc'[q] = pc[q] /\ job'[q] = job[q]
      BY <1>3 DEF TypeOK, Begin
    <3> QED
      BY <1>3, <2>1, <3>1, <3>2 DEF TypeOK, Begin, Jobs, procVars
  <2>3. may' \in [Key -> SUBSET Field]
    BY <1>3 DEF TypeOK, Begin, Field
  <2> QED
    BY <1>3, <2>1, <2>2, <2>3 DEF TypeOK, Begin, Jobs, env, procVars, kcVars, opVars, fileVars
<1> QED
  BY <1>1, <1>2, <1>3

\* What load gives is a map, and what it is changed to is one.
LEMMA LoadedType ==
  ASSUME TypeOK, NEW p \in Proc, p \in loaded \/ Readable(p)
  PROVE  Loaded(p) \in [Key -> Field]
BY DEF TypeOK, Loaded, Readable, Empty, Field, Whole

LEMMA MineType == ASSUME TypeOK, NEW p \in Proc PROVE Mine(p) \in Whole
BY DEF TypeOK, Mine, Whole

LEMMA FileTypes ==
  ASSUME TypeOK, NEW p \in Proc,
         \/ LoadAndChange(p) \/ LoadError(p) \/ Open(p) \/ Fill(p) \/ WriteError(p)
         \/ Rename(p) \/ RenameError(p) \/ GetFile(p)
  PROVE  TypeOK'
<1> USE SecretsAssumption DEF PC
<1>1. CASE LoadAndChange(p)
  <2>1. Step(p, "loading", "opening") /\ p \in up
    BY <1>1 DEF LoadAndChange, Step
  <2>2. cache' \in [Proc -> [Key -> Field]] /\ loaded' \subseteq up
    <3>1. Loaded(p) \in [Key -> Field] /\ K(p) \in Key /\ V(p) \in Field
      BY <1>1, <2>1, LoadedType, JobType DEF LoadAndChange, Step
    <3> QED
      BY <1>1, <2>1, <3>1 DEF LoadAndChange, TypeOK
  <2>3. UNCHANGED <<kcVars, opVars, handle, file, tmp, may, kept, collided>>
    BY <1>1 DEF LoadAndChange, reads
  <2> QED
    BY <2>1, <2>2, <2>3, StepJobs DEF TypeOK, Jobs, kcVars, opVars
<1>2. CASE LoadError(p)
  BY <1>2, FailTypes DEF LoadError, TypeOK, fileVars
<1>3. CASE Open(p)
  <2>1. Step(p, "opening", "filling")
        /\ handle' \in [Proc -> {Absent, "tmp", "file"}] /\ collided' \in BOOLEAN
    BY <1>3 DEF Open, TypeOK
  <2> QED
    BY <1>3, <2>1, StepJobs DEF Open, TypeOK, Jobs, kcVars, opVars, reads
<1>4. CASE Fill(p)
  <2>1. /\ Step(p, "filling", "renaming")
        /\ UNCHANGED <<kcVars, opVars, cache, loaded, may, kept, collided>>
    BY <1>4 DEF Fill, reads
  <2>2. file' \in {Absent, Torn} \cup Whole /\ tmp' \in {Absent, Torn} \cup Whole
    BY <1>4, MineType DEF Fill, Mixed, TypeOK
  <2>3. handle' \in [Proc -> {Absent, "tmp", "file"}]
    BY <1>4 DEF Fill, TypeOK
  <2> QED
    BY <2>1, <2>2, <2>3, StepJobs DEF TypeOK, Jobs, kcVars, opVars
<1>5. CASE WriteError(p)
  <2>1. handle' \in [Proc -> {Absent, "tmp", "file"}]
    BY <1>5 DEF WriteError, TypeOK
  <2> QED
    BY <1>5, <2>1, FailTypes DEF WriteError, TypeOK
<1>6. CASE Rename(p)
  <2>1. handle' \in [Proc -> {Absent, "tmp", "file"}]
    BY <1>6 DEF Rename, Moved, TypeOK
  <2>2. /\ pc' \in [Proc -> PC] /\ Jobs'
        /\ may' \in [Key -> SUBSET Field] /\ kept' \in [Key -> SUBSET Value]
        /\ UNCHANGED <<darwin, envKey, starts, up, primary, master, used>>
    BY <1>6, ReturnJobs DEF Rename
  <2> QED
    BY <1>6, <2>1, <2>2 DEF Rename, TypeOK, Jobs, kcVars, opVars
<1>7. CASE RenameError(p)
  <2>1. handle' \in [Proc -> {Absent, "tmp", "file"}]
    BY <1>7 DEF RenameError, TypeOK
  <2> QED
    BY <1>7, <2>1, FailTypes DEF RenameError, TypeOK
<1>8. CASE GetFile(p)
  <2>1. cache' \in [Proc -> [Key -> Field]] /\ loaded' \subseteq up
    BY <1>8, LoadedType DEF GetFile, TypeOK
  <2> QED
    BY <1>8, <2>1 DEF GetFile, TypeOK, env, procVars, kcVars, opVars, reads
<1> QED
  BY <1>1, <1>2, <1>3, <1>4, <1>5, <1>6, <1>7, <1>8

LEMMA KeychainTypes ==
  ASSUME TypeOK, NEW p \in Proc, DeleteForSet(p) \/ Delete(p) \/ Add(p) \/ AddError(p)
  PROVE  TypeOK'
<1> USE DEF PC
<1>1. pc[p] # "idle" /\ K(p) \in Key /\ V(p) \in Field
  BY JobType DEF DeleteForSet, Delete, Add, AddError, Returns, Fails, Step, End
<1>2. Unset \in Field
  BY DEF Field
<1>3. ASSUME KeychainDelete(p)
      PROVE  keychain' \in [Key -> Field] /\ legacy' \in [Key -> Field]
  <2>1. /\ keychain' \in {keychain, [keychain EXCEPT ![K(p)] = Unset]}
        /\ legacy' \in {legacy, [legacy EXCEPT ![K(p)] = Unset]}
    BY <1>3 DEF KeychainDelete, Cleared
  <2>2. \A f \in [Key -> Field], k \in Key : [f EXCEPT ![k] = Unset] \in [Key -> Field]
    BY <1>2
  <2>3. keychain \in [Key -> Field] /\ legacy \in [Key -> Field]
    BY DEF TypeOK
  <2> QED
    BY <1>1, <2>1, <2>2, <2>3
<1>4. CASE DeleteForSet(p)
  BY <1>3, <1>4, StepJobs DEF DeleteForSet, KeychainDelete, TypeOK, Jobs, opVars, fileVars,
                                reads
<1>5. CASE Delete(p)
  <2>1. keychain' \in [Key -> Field] /\ legacy' \in [Key -> Field]
    BY <1>3, <1>5 DEF Delete
  <2>2. ASSUME Returns(p, "deleting", {legacy'[K(p)]}), UNCHANGED clean PROVE TypeOK'
    <3>1. {legacy'[K(p)]} \in SUBSET Field
      BY <1>1, <2>1
    <3> QED
      BY <1>5, <2>1, <2>2, <3>1, ReturnJobs DEF Delete, KeychainDelete, TypeOK, Jobs, opVars,
                                               fileVars
  <2>3. ASSUME Fails(p, "deleting") PROVE TypeOK'
    BY <1>5, <2>1, <2>3, EndJobs DEF Delete, KeychainDelete, Fails, TypeOK, Jobs, opVars,
                                     fileVars, reads
  <2> QED
    BY <1>5, <2>2, <2>3 DEF Delete
<1>6. CASE Add(p)
  <2>1. keychain' \in [Key -> Field]
    BY <1>1, <1>6 DEF Add, TypeOK
  <2> QED
    BY <1>6, <2>1, ReturnJobs DEF Add, TypeOK, Jobs, opVars, fileVars
<1>7. CASE AddError(p)
  BY <1>7, FailTypes DEF AddError, TypeOK, fileVars
<1> QED
  BY <1>4, <1>5, <1>6, <1>7

LEMMA OpTypes ==
  ASSUME TypeOK, NEW p \in Proc,
         \/ Look(p) \/ Create(p) \/ Edit(p) \/ OpError(p) \/ Remove(p) \/ RemoveAbsent(p)
         \/ \E k \in Key : GetOp(p, k)
  PROVE  TypeOK'
<1> USE DEF PC
<1>1. ASSUME pc[p] # "idle" PROVE K(p) \in Key /\ V(p) \in Field
  BY <1>1, JobType
<1>2. Unset \in Field /\ Empty \in [Key -> Field]
  BY DEF Field, Empty
<1>3. ASSUME NEW fields \in [Key -> Field], pc[p] # "idle", Written(p, fields)
      PROVE  item' \in [Key -> Field] /\ opcache' \in [Proc -> [Key -> Field]]
  BY <1>1, <1>3 DEF Written, TypeOK
<1>4. CASE Look(p)
  BY <1>4, StepJobs DEF Look, TypeOK, Jobs, kcVars, opVars, fileVars, reads
<1>5. CASE Create(p)
  <2>1. Returns(p, "creating", {}) /\ pc[p] # "idle"
    BY <1>5 DEF Create, Returns, End
  <2>2. item' \in [Key -> Field] /\ opcache' \in [Proc -> [Key -> Field]]
    BY <1>2, <1>3, <1>5, <2>1 DEF Create, TypeOK
  <2>3. twins' \in BOOLEAN /\ clean' \in BOOLEAN
    BY <1>5 DEF Create, TypeOK
  <2> QED
    BY <1>5, <2>1, <2>2, <2>3, ReturnJobs DEF Create, Written, TypeOK, Jobs, kcVars, fileVars
<1>6. CASE Edit(p)
  <2>1. Returns(p, "editing", {}) /\ pc[p] # "idle"
    BY <1>6 DEF Edit, Returns, End
  <2>2. item' \in [Key -> Field] /\ opcache' \in [Proc -> [Key -> Field]]
    BY <1>3, <1>6, <2>1 DEF Edit, Usable, TypeOK
  <2> QED
    BY <1>6, <2>1, <2>2, ReturnJobs DEF Edit, Written, TypeOK, Jobs, kcVars, fileVars
<1>7. CASE OpError(p)
  BY <1>7, FailTypes DEF OpError, TypeOK, fileVars
<1>8. CASE Remove(p)
  <2>1. End(p, "removing") /\ Gone(p) /\ item' = Absent
    BY <1>8 DEF Remove, Gone
  <2>2. may' \in [Key -> SUBSET Field] /\ kept' \in [Key -> SUBSET Value]
    BY <1>2, <2>1 DEF Gone, TypeOK
  <2>3. opcache' \in [Proc -> [Key -> Field]]
    BY <1>1, <1>2, <1>8, <2>1 DEF Remove, End, TypeOK
  <2> QED
    BY <1>8, <2>1, <2>2, <2>3, EndJobs DEF Remove, TypeOK, Jobs, kcVars, fileVars
<1>9. CASE RemoveAbsent(p)
  <2>1. Returns(p, "removing", {opcache[p][K(p)]}) /\ {opcache[p][K(p)]} \in SUBSET Field
    BY <1>1, <1>9 DEF RemoveAbsent, Returns, End, TypeOK
  <2> QED
    BY <1>9, <2>1, ReturnJobs DEF RemoveAbsent, TypeOK, Jobs, kcVars, opVars, fileVars
<1>10. ASSUME NEW k \in Key, GetOp(p, k) PROVE TypeOK'
  <2>1. opcache' \in [Proc -> [Key -> Field]]
    BY <1>10 DEF GetOp, Usable, TypeOK
  <2> QED
    BY <1>10, <2>1 DEF GetOp, TypeOK, env, procVars, kcVars, fileVars, reads
<1> QED
  BY <1>4, <1>5, <1>6, <1>7, <1>8, <1>9, <1>10

LEMMA NextTypes == TypeOK /\ [Next]_vars => TypeOK'
<1> SUFFICES ASSUME TypeOK, [Next]_vars PROVE TypeOK'
  OBVIOUS
<1>1. CASE UNCHANGED vars
  BY <1>1 DEF vars, env, procVars, kcVars, opVars, fileVars, reads, TypeOK
<1> QED
  BY <1>1, ProcessTypes, FileTypes, KeychainTypes, OpTypes DEF Next

\* Every variable of the stores keeps its type, whatever is killed or fails.
THEOREM SecretsTypes == Spec => []TypeOK
BY InitTypes, NextTypes, PTL DEF Spec
-----------------------------------------------------------------------------
(* The temporary file and the file.                                        *)

Saving == {"filling", "renaming"}

\* As long as no two processes saved at the same time, the temporary file is what
\* the one that saves has made of it, and no other process has a handle on it.
Saves ==
    ~collided =>
        /\ \A p, q \in Proc : pc[p] \in Saving /\ pc[q] \in Saving => p = q
        /\ \A p \in Proc :
              /\ handle[p] # Absent => pc[p] = "filling"
              /\ pc[p] = "filling" => handle[p] = "tmp" /\ tmp = Torn
              /\ pc[p] = "renaming" => tmp = Mine(p)
        /\ file # Torn

\* Steps that leave the files and those that save alone.
LEMMA SavesKept ==
  ASSUME TypeOK, Saves, UNCHANGED <<handle, file, tmp, collided>>,
         \A q \in Proc : pc[q] \in Saving \/ pc'[q] \in Saving =>
            pc'[q] = pc[q] /\ cache'[q] = cache[q] /\ master'[q] = master[q]
  PROVE  Saves'
BY DEF Saves, Saving, Mine

\* Steps that take no part in a save.
LEMMA OtherSaves ==
  ASSUME TypeOK, Saves, NEW p \in Proc,
         \/ Start(p) \/ \E k \in Key, v \in Field : Begin(p, k, v)
         \/ LoadAndChange(p) \/ LoadError(p) \/ GetFile(p)
         \/ DeleteForSet(p) \/ Delete(p) \/ Add(p) \/ AddError(p)
         \/ Look(p) \/ Create(p) \/ Edit(p) \/ OpError(p) \/ Remove(p) \/ RemoveAbsent(p)
         \/ \E k \in Key : GetOp(p, k)
  PROVE  Saves'
<1>1. UNCHANGED <<handle, file, tmp, collided>>
  BY DEF Start, Begin, LoadAndChange, LoadError, GetFile, DeleteForSet, Delete,
         KeychainDelete, Add, AddError, Look, Create, Written, Edit, OpError, Remove,
         RemoveAbsent, GetOp, fileVars
<1>2. \A q \in Proc : q # p =>
        pc'[q] = pc[q] /\ cache'[q] = cache[q] /\ master'[q] = master[q]
  BY DEF TypeOK, Start, Begin, LoadAndChange, LoadError, GetFile, DeleteForSet, Delete,
         KeychainDelete, Add, AddError, Look, Create, Written, Edit, OpError, Remove,
         RemoveAbsent, GetOp, fileVars, procVars, Returns, Gone, Fails, Step, End
<1>3. pc[p] \notin Saving /\ pc'[p] \notin Saving
  <2>1. CASE Start(p)
    BY <2>1 DEF Start, TypeOK, Saving
  <2>2. ASSUME NEW k \in Key, NEW v \in Field, Begin(p, k, v)
        PROVE  pc[p] \notin Saving /\ pc'[p] \notin Saving
    BY <2>2 DEF Begin, TypeOK, Saving
  <2>3. CASE LoadAndChange(p) \/ LoadError(p) \/ GetFile(p)
    BY <2>3 DEF LoadAndChange, LoadError, GetFile, Fails, Step, End, TypeOK, Saving
  <2>4. CASE DeleteForSet(p) \/ Delete(p) \/ Add(p) \/ AddError(p)
    BY <2>4 DEF DeleteForSet, Delete, Add, AddError, Returns, Fails, Step, End, TypeOK,
                Saving
  <2>5. CASE \/ Look(p) \/ Create(p) \/ Edit(p) \/ OpError(p) \/ Remove(p) \/ RemoveAbsent(p)
             \/ \E k \in Key : GetOp(p, k)
    BY <2>5 DEF Look, Create, Edit, OpError, Remove, RemoveAbsent, GetOp, Returns, Gone,
                Fails, Step, End, TypeOK, Saving
  <2> QED
    BY <2>1, <2>2, <2>3, <2>4, <2>5
<1> QED
  BY <1>1, <1>2, <1>3, SavesKept

\* A save: a second one at the same time is noticed when it opens the file, and
\* without one the file is replaced by a whole one only.
LEMMA SaveSaves ==
  ASSUME TypeOK, Saves, NEW p \in Proc,
         Open(p) \/ Fill(p) \/ WriteError(p) \/ Rename(p) \/ RenameError(p)
  PROVE  Saves'
<1> SUFFICES ASSUME ~collided' PROVE Saves'
  BY DEF Saves
<1> USE SecretsAssumption DEF Saving
<1>1. /\ \A q \in Proc : q # p => pc'[q] = pc[q]
      /\ UNCHANGED <<cache, master>> /\ p \in up
  BY DEF TypeOK, Open, Fill, WriteError, Rename, RenameError, Returns, Fails, Step, End,
         procVars
<1>2. ~collided /\ \A q \in Proc : q # p => pc[q] \notin Saving /\ handle[q] = Absent
  <2>1. CASE Open(p)
    <3>1. ~collided /\ \A q \in Proc \ {p} : pc[q] \notin Saving
      BY <2>1 DEF Open
    <3> QED
      BY <3>1 DEF Saves
  <2>2. CASE Fill(p) \/ WriteError(p) \/ Rename(p) \/ RenameError(p)
    <3>1. ~collided /\ pc[p] \in Saving
      BY <2>2 DEF Fill, WriteError, Rename, RenameError, Returns, Fails, Step, End
    <3> QED
      BY <3>1 DEF Saves
  <2> QED
    BY <2>1, <2>2
<1>3. \A q \in Proc : q # p => pc'[q] \notin Saving /\ handle'[q] = Absent
  BY <1>1, <1>2 DEF TypeOK, Open, Fill, WriteError, Rename, RenameError, Moved
<1>4. CASE Open(p)
  <2>1. pc'[p] = "filling" /\ handle'[p] = "tmp" /\ tmp' = Torn /\ file' = file
    BY <1>4 DEF TypeOK, Open, Step
  <2> QED
    BY <1>2, <1>3, <2>1 DEF Saves
<1>5. CASE Fill(p)
  <2>1. pc[p] = "filling" /\ handle[p] = "tmp" /\ tmp = Torn /\ file # Torn
    BY <1>2, <1>5 DEF Fill, Step, Saves
  <2>2. pc'[p] = "renaming" /\ handle'[p] = Absent /\ tmp' = Mine(p) /\ file' = file
    BY <1>5, <2>1 DEF TypeOK, Fill, Step, Mixed
  <2> QED
    BY <1>1, <1>3, <2>1, <2>2 DEF Saves, Mine
<1>6. CASE WriteError(p) \/ RenameError(p)
  <2>1. /\ pc'[p] = "idle" /\ file' = file
        /\ \/ pc[p] = "filling" /\ handle'[p] = Absent
           \/ pc[p] = "renaming"
    BY <1>6 DEF TypeOK, WriteError, RenameError, Fails, End
  <2>2. handle'[p] = Absent
    BY <1>2, <1>6, <2>1 DEF Saves, TypeOK, WriteError, RenameError
  <2> QED
    BY <1>2, <1>3, <2>1, <2>2 DEF Saves
<1>7. CASE Rename(p)
  <2>1. pc[p] = "renaming" /\ pc'[p] = "idle" /\ file' = tmp
    BY <1>7 DEF TypeOK, Rename, Returns, End
  <2>2. tmp = Mine(p) /\ handle[p] = Absent
    BY <1>2, <2>1 DEF Saves
  <2>3. handle'[p] = Absent
    BY <1>7, <2>2 DEF Rename, Moved
  <2>4. file' # Torn
    BY <2>1, <2>2, MineType
  <2> QED
    BY <1>3, <2>1, <2>3, <2>4 DEF Saves
<1> QED
  BY <1>4, <1>5, <1>6, <1>7

\* A process that ends leaves the temporary file as it is.
LEMMA KillSaves == ASSUME TypeOK, Saves, NEW p \in Proc, Kill(p) PROVE Saves'
<1> SUFFICES ASSUME ~collided PROVE Saves'
  BY DEF Saves, Kill
<1>1. /\ UNCHANGED <<file, tmp, master, collided>>
      /\ pc'[p] = "idle" /\ handle'[p] = Absent
      /\ \A q \in Proc : q # p =>
            pc'[q] = pc[q] /\ handle'[q] = handle[q] /\ cache'[q] = cache[q]
  BY DEF TypeOK, Kill
<1> QED
  BY <1>1 DEF Saves, Saving, Mine

LEMMA NextSaves == TypeOK /\ Saves /\ [Next]_vars => Saves'
<1> SUFFICES ASSUME TypeOK, Saves, [Next]_vars PROVE Saves'
  OBVIOUS
<1>1. CASE UNCHANGED vars
  BY <1>1 DEF vars, procVars, fileVars, Saves, Saving, Mine
<1> QED
  BY <1>1, OtherSaves, SaveSaves, KillSaves DEF Next

LEMMA SavesInvariance == Spec => [](TypeOK /\ Saves)
<1>1. Init => Saves
  BY SecretsAssumption DEF Init, Saves, Saving
<1> QED
  BY <1>1, InitTypes, NextTypes, NextSaves, PTL DEF Spec

\* No crash and no failed write, of any number of processes at any step, tears
\* the file, unless two of them saved at the same time.
THEOREM FileNeverTorn == Spec => []FileIsWhole
<1>1. Saves => FileIsWhole
  BY DEF Saves, FileIsWhole
<1> QED
  BY <1>1, SavesInvariance, PTL

-----------------------------------------------------------------------------
(* What is read.                                                           *)

\* A process only takes the steps of its primary backend, and a backend that was
\* no primary one has stored nothing.
Kinds ==
    /\ used \subseteq IF darwin THEN {"keychain"} ELSE {"1password", "file"}
    /\ \A p \in up : primary[p] \in used /\ (envKey \/ darwin => master[p] = 0)
    /\ \A p \in Proc :
          /\ pc[p] \in {"loading", "opening"} \cup Saving => primary[p] = "file"
          /\ pc[p] \in {"deleting", "adding"} => primary[p] = "keychain"
          /\ pc[p] \in {"looking", "creating", "editing", "removing"} => primary[p] = "1password"
    /\ file # Absent => "file" \in used
    /\ item # Absent => "1password" \in used
    /\ \A p \in Proc \ up : opcache[p] = Empty

\* What it takes to stay `clean`.
Turns ==
    /\ \A p, q \in up : p = q
    /\ \A b, d \in used : b = d
    /\ ~collided /\ ~twins

\* The file is encrypted with the master key of the process that runs, and of
\* the next one.
Keyed == file # Absent => /\ envKey => file.master = 0
                          /\ \A p \in up : file.master = master[p]

OnFile(k) == IF file = Absent THEN Unset ELSE file.data[k]
InItem(k) == IF item = Absent THEN Unset ELSE item[k]

\* What a Get may find.
Found(k) == may[k] \cup kept[k]

\* What the primary backend has stored may be read.
Stored ==
    \A k \in Key :
        /\ darwin => Or(keychain[k], legacy[k]) \in Found(k)
        /\ ~darwin /\ "1password" \notin used => OnFile(k) \in may[k]
        /\ ~darwin /\ "file" \notin used => InItem(k) \in may[k]

\* So may what a process has cached; with another primary backend than the file
\* there is nothing in the file to cache.
Cached ==
    \A p \in up, k \in Key :
        /\ p \in loaded => cache[p][k] \in IF primary[p] = "file" THEN may[k] ELSE {Unset}
        /\ primary[p] = "1password" => opcache[p][k] \in Found(k) \cup {Unset}

\* What an operation under way may leave, wherever it is cut short.
UnderWay ==
    \A p \in up : pc[p] # "idle" =>
        /\ V(p) \in may[K(p)]
        /\ pc[p] \in {"opening"} \cup Saving => p \in loaded /\ cache[p][K(p)] = V(p)
        /\ pc[p] \in {"deleting", "adding"} => {Unset, legacy[K(p)]} \subseteq may[K(p)]
        /\ pc[p] \in {"adding", "looking", "creating", "editing"} => V(p) # Unset
        /\ pc[p] = "removing" => V(p) = Unset

Reads == clean => Turns /\ Keyed /\ Stored /\ Cached /\ UnderWay

\* Each action is one of its backend, and stores nothing in the others.
LEMMA ProcessKinds ==
  ASSUME TypeOK, Kinds, NEW p \in Proc,
         Start(p) \/ Kill(p) \/ \E k \in Key, v \in Field : Begin(p, k, v)
  PROVE  Kinds'
<1> USE DEF Kinds, Saving
<1>1. CASE Start(p)
  <2>1. PICK b \in IF darwin THEN {"keychain"} ELSE {"1password", "file"} :
            primary' = [primary EXCEPT ![p] = b] /\ used' = used \cup {b}
    BY <1>1 DEF Start
  <2>2. /\ p \notin up /\ up' = up \cup {p} /\ pc[p] = "idle"
        /\ master' = [master EXCEPT ![p] = IF envKey \/ darwin THEN 0 ELSE starts + 1]
        /\ UNCHANGED <<darwin, envKey, pc, file, item, opcache>>
    BY <1>1 DEF Start, TypeOK, env, opVars, fileVars
  <2>3. \A q \in Proc : q # p => primary'[q] = primary[q] /\ master'[q] = master[q]
    BY <2>1, <2>2 DEF TypeOK
  <2>4. primary'[p] = b /\ (envKey \/ darwin => master'[p] = 0)
    BY <2>1, <2>2 DEF TypeOK
  <2>5. used' \subseteq IF darwin' THEN {"keychain"} ELSE {"1password", "file"}
    BY <2>1, <2>2
  <2>6. \A q \in up' : primary'[q] \in used' /\ (envKey' \/ darwin' => master'[q] = 0)
    BY <2>1, <2>2, <2>3, <2>4 DEF TypeOK
  <2>7. \A q \in Proc :
           /\ pc'[q] \in {"loading", "opening"} \cup Saving => primary'[q] = "file"
           /\ pc'[q] \in {"deleting", "adding"} => primary'[q] = "keychain"
           /\ pc'[q] \in {"looking", "creating", "editing", "removing"} =>
                 primary'[q] = "1password"
    BY <2>2, <2>3
  <2> QED
    BY <2>1, <2>2, <2>5, <2>6, <2>7
<1>2. CASE Kill(p)
  <2>1. /\ UNCHANGED <<darwin, envKey, primary, master, used, file, item>>
        /\ up' = up \ {p} /\ opcache'[p] = Empty /\ pc'[p] = "idle"
        /\ \A q \in Proc : q # p => pc'[q] = pc[q] /\ opcache'[q] = opcache[q]
    BY <1>2 DEF Kill, TypeOK, env
  <2> QED
    BY <2>1
<1>3. ASSUME NEW k \in Key, NEW v \in Field, Begin(p, k, v) PROVE Kinds'
  <2>1. /\ UNCHANGED <<darwin, envKey, up, primary, master, used, file, item, opcache>>
        /\ pc'[p] = CASE primary[p] = "file" -> "loading"
                      [] primary[p] = "keychain" -> "deleting"
                      [] OTHER -> IF v = Unset THEN "removing" ELSE "looking"
        /\ \A q \in Proc : q # p => pc'[q] = pc[q]
        /\ primary[p] \in Backend
    BY <1>3 DEF Begin, TypeOK, env, procVars, opVars, fileVars
  <2>2. /\ pc'[p] = "loading" => primary[p] = "file"
        /\ pc'[p] = "deleting" => primary[p] = "keychain"
        /\ pc'[p] \in {"looking", "removing"} => primary[p] = "1password"
        /\ pc'[p] \in {"loading", "deleting", "looking", "removing"}
    BY <2>1 DEF Backend
  <2> QED
    BY <2>1, <2>2
<1> QED
  BY <1>1, <1>2, <1>3

LEMMA StepKinds ==
  ASSUME TypeOK, Kinds, NEW p \in Proc,
         \/ LoadAndChange(p) \/ LoadError(p) \/ Open(p) \/ Fill(p) \/ WriteError(p)
         \/ Rename(p) \/ RenameError(p) \/ GetFile(p)
         \/ DeleteForSet(p) \/ Delete(p) \/ Add(p) \/ AddError(p)
         \/ Look(p) \/ Create(p) \/ Edit(p) \/ OpError(p) \/ Remove(p) \/ RemoveAbsent(p)
         \/ \E k \in Key : GetOp(p, k)
  PROVE  Kinds'
<1> USE DEF Kinds, Saving
<1>1. UNCHANGED <<darwin, envKey, up, primary, master, used>> /\ p \in up
  BY DEF LoadAndChange, LoadError, Open, Fill, WriteError, Rename, RenameError, GetFile,
         DeleteForSet, Delete, Add, AddError, Look, Create, Edit, OpError, Remove,
         RemoveAbsent, GetOp, Returns, Gone, Fails, Step, End, env, procVars
<1>2. \A q \in Proc : q # p => pc'[q] = pc[q] /\ opcache'[q] = opcache[q]
  BY DEF TypeOK, LoadAndChange, LoadError, Open, Fill, WriteError, Rename, RenameError,
         GetFile, DeleteForSet, Delete, KeychainDelete, Add, AddError, Look, Create,
         Written, Edit, OpError, Remove, RemoveAbsent, GetOp, Returns, Gone, Fails, Step, End, opVars
<1>3. CASE \/ LoadAndChange(p) \/ LoadError(p) \/ Open(p) \/ Fill(p) \/ WriteError(p)
           \/ Rename(p) \/ RenameError(p) \/ GetFile(p)
  <2>1. item' = item
    BY <1>3 DEF LoadAndChange, LoadError, Open, Fill, WriteError, Rename, RenameError,
         GetFile, opVars
  <2>2. /\ pc'[p] \in {"idle", "opening", "filling", "renaming"}
        /\ pc'[p] # "idle" => pc[p] \in {"loading", "opening", "filling"}
    BY <1>3 DEF LoadAndChange, LoadError, Open, Fill, WriteError, Rename, RenameError,
         GetFile, Returns, Fails, Step, End, TypeOK
  <2>3. file' # file => pc[p] \in Saving
    BY <1>3 DEF LoadAndChange, LoadError, Open, Fill, WriteError, Rename, RenameError,
         GetFile, Returns, Fails, Step, End, fileVars
  <2>4. file' # Absent => "file" \in used
    BY <1>1, <2>3
  <2> QED
    BY <1>1, <1>2, <2>1, <2>2, <2>4
<1>4. CASE DeleteForSet(p) \/ Delete(p) \/ Add(p) \/ AddError(p)
  <2>1. UNCHANGED <<item, file>>
    BY <1>4 DEF DeleteForSet, Delete, KeychainDelete, Add, AddError, opVars, fileVars
  <2>2. /\ pc'[p] \in {"idle", "adding"}
        /\ pc'[p] = "adding" => pc[p] = "deleting"
    BY <1>4 DEF DeleteForSet, Delete, Add, AddError, Returns, Fails, Step, End, TypeOK
  <2> QED
    BY <1>1, <1>2, <2>1, <2>2
<1>5. CASE \/ Look(p) \/ Create(p) \/ Edit(p) \/ OpError(p) \/ Remove(p) \/ RemoveAbsent(p)
           \/ \E k \in Key : GetOp(p, k)
  <2>1. file' = file
    BY <1>5 DEF Look, Create, Edit, Written, OpError, Remove, RemoveAbsent, GetOp, fileVars
  <2>2. /\ pc'[p] \in {"idle", "editing", "creating"}
        /\ pc'[p] # "idle" => pc[p] = "looking"
    BY <1>5 DEF Look, Create, Edit, OpError, Remove, RemoveAbsent, GetOp, Returns, Gone,
                Fails, Step, End, TypeOK
  <2>3. item' # Absent => item # Absent \/ pc[p] = "creating"
    BY <1>5 DEF Look, Create, Edit, Usable, OpError, Remove, RemoveAbsent, GetOp,
                Returns, Gone, End, opVars
  <2>4. item' # Absent => "1password" \in used
    BY <1>1, <2>3
  <2> QED
    BY <1>1, <1>2, <2>1, <2>2, <2>4
<1> QED
  BY <1>3, <1>4, <1>5

\* All that is needed to know what is read.
IInv == TypeOK /\ Saves /\ Kinds /\ Reads

\* While processes take turns, one that runs is the only one, and its primary
\* backend the only one that has stored anything.
LEMMA Solo ==
  ASSUME IInv, clean, NEW p \in up
  PROVE  /\ up = {p} /\ used = {primary[p]} /\ primary[p] \in Backend
         /\ darwin <=> primary[p] = "keychain"
         /\ primary[p] # "file" => file = Absent
         /\ primary[p] # "1password" => item = Absent
         /\ file # Absent => file \in Whole /\ file.master = master[p]
<1>1. p \in Proc /\ primary[p] \in Backend /\ primary[p] \in used
  BY DEF IInv, TypeOK, Kinds
<1>2. up = {p} /\ used = {primary[p]}
  BY <1>1 DEF IInv, Reads, Turns
<1>3. darwin <=> primary[p] = "keychain"
  BY <1>2 DEF IInv, Kinds
<1>4. file # Torn
  BY DEF IInv, Reads, Turns, Saves
<1> QED
  BY <1>1, <1>2, <1>3, <1>4 DEF IInv, TypeOK, Kinds, Reads, Keyed

\* Where a Get of p looks first, when it has nothing cached.
Held(p, k) ==
    CASE primary[p] = "keychain" -> Or(keychain[k], legacy[k])
      [] primary[p] = "file" -> OnFile(k)
      [] OTHER -> InItem(k)

\* What may be found there: a Delete has left values to be read in the keychain,
\* and in the cache of 1Password only.
Stays(p, k) == IF primary[p] = "keychain" THEN Found(k) ELSE may[k]

\* `Reads`, said of one process.
ReadsOf(p) ==
    /\ \A k \in Key :
        /\ Held(p, k) \in Stays(p, k)
        /\ p \in loaded => cache[p][k] \in IF primary[p] = "file" THEN may[k] ELSE {Unset}
        /\ primary[p] = "1password" => opcache[p][k] \in Found(k) \cup {Unset}
    /\ pc[p] # "idle" =>
        /\ V(p) \in may[K(p)]
        /\ pc[p] \in {"opening"} \cup Saving => p \in loaded /\ cache[p][K(p)] = V(p)
        /\ pc[p] \in {"deleting", "adding"} => {Unset, legacy[K(p)]} \subseteq may[K(p)]
        /\ pc[p] \in {"adding", "looking", "creating", "editing"} => V(p) # Unset
        /\ pc[p] = "removing" => V(p) = Unset

LEMMA ReadsSolo == ASSUME IInv, clean, NEW p \in up PROVE ReadsOf(p)
<1>1. \A k \in Key : Held(p, k) \in Stays(p, k)
  <2>1. /\ used = {primary[p]} /\ primary[p] \in Backend
        /\ darwin <=> primary[p] = "keychain"
    BY Solo
  <2> QED
    BY <2>1 DEF IInv, Reads, Stored, Held, Stays, Backend
<1> QED
  BY <1>1 DEF IInv, Reads, Cached, UnderWay, ReadsOf

LEMMA ReadsBack ==
  ASSUME IInv, clean, NEW p \in up, ReadsOf(p)', Turns', Keyed',
         UNCHANGED <<darwin, envKey, up, used, primary, master>>
  PROVE  Reads'
<1>1. /\ up = {p} /\ used = {primary[p]} /\ primary[p] \in Backend
      /\ darwin <=> primary[p] = "keychain"
  BY Solo
<1>2. Stored'
  BY <1>1 DEF ReadsOf, Held, Stays, Stored, Found, OnFile, InItem, Or, Backend
<1>3. Cached' /\ UnderWay'
  BY <1>1 DEF ReadsOf, Found, Cached, UnderWay
<1> QED
  BY <1>2, <1>3 DEF Reads

\* A process that starts has nothing in memory, and one that ends leaves nothing.
LEMMA ProcessReads ==
  ASSUME IInv, NEW p \in Proc, Start(p) \/ Kill(p)
  PROVE  Reads'
<1> SUFFICES ASSUME clean' PROVE Reads'
  BY DEF Reads
<1>1. clean /\ Turns /\ Keyed /\ Stored
  BY DEF IInv, Reads, Start, Kill
<1>2. CASE Start(p)
  <2>1. PICK b \in IF darwin THEN {"keychain"} ELSE {"1password", "file"} :
           /\ primary' = [primary EXCEPT ![p] = b] /\ used' = used \cup {b}
           /\ up = {} /\ used \subseteq {b} /\ (used = {"file"} => envKey)
    BY <1>2 DEF Start
  <2>2. /\ up' = {p} /\ used' = {b} /\ primary'[p] = b
        /\ master' = [master EXCEPT ![p] = IF envKey \/ darwin THEN 0 ELSE starts + 1]
        /\ UNCHANGED <<darwin, envKey, keychain, legacy, opcache, item, twins, cache,
                       loaded, handle, file, tmp, collided, pc, job, may, kept>>
    BY <1>2, <2>1 DEF Start, IInv, TypeOK, env, kcVars, opVars, fileVars, reads
  <2>3. Turns'
    BY <1>1, <2>2 DEF Turns
  <2>4. Keyed'
    <3>1. file # Absent => envKey
      BY <2>1 DEF IInv, Kinds
    <3>2. envKey => master'[p] = 0
      BY <2>2 DEF IInv, TypeOK
    <3> QED
      BY <1>1, <2>2, <3>1, <3>2 DEF Keyed
  <2>5. Stored'
    BY <1>1, <2>1, <2>2 DEF Stored, Found, OnFile, InItem, Or
  <2>6. p \notin loaded /\ opcache[p] = Empty /\ pc[p] = "idle"
    BY <2>1 DEF IInv, TypeOK, Kinds
  <2>7. Cached' /\ UnderWay'
    BY <2>2, <2>6 DEF Cached, UnderWay, Empty
  <2> QED
    BY <2>3, <2>4, <2>5, <2>7 DEF Reads
<1>3. CASE Kill(p)
  <2>1. /\ up' = {}
        /\ UNCHANGED <<darwin, envKey, keychain, legacy, item, twins, file, collided, may, used>>
    BY <1>1, <1>3 DEF Kill, Turns, env, kcVars
  <2>2. darwin => kept' = kept
    BY <1>1, <1>3, Solo DEF Kill
  <2> QED
    BY <1>1, <2>1, <2>2 DEF Reads, Turns, Keyed, Stored, Found, Cached, UnderWay, OnFile,
                            InItem, Or
<1> QED
  BY <1>2, <1>3

\* From the start of an operation on, its value may be read too.
LEMMA BeginReads ==
  ASSUME IInv, NEW p \in Proc, NEW k \in Key, NEW v \in Field, Begin(p, k, v)
  PROVE  Reads'
<1> SUFFICES ASSUME clean' PROVE Reads'
  BY DEF Reads
<1>1. clean /\ p \in up /\ Turns /\ Keyed
  BY DEF IInv, Reads, Begin
<1>2. UNCHANGED <<darwin, envKey, starts, up, primary, master, used, keychain, legacy,
                  opcache, item, twins, cache, loaded, file, collided, kept>>
  BY DEF Begin, env, procVars, kcVars, opVars, fileVars
<1>3. Turns' /\ Keyed'
  BY <1>1, <1>2 DEF Turns, Keyed
<1>4. ReadsOf(p) /\ primary[p] \in Backend
  BY <1>1, ReadsSolo, Solo
<1>5. /\ \A j \in Key : may[j] \subseteq may'[j]
      /\ v \in may'[k]
      /\ primary[p] = "keychain" => {Unset, legacy[k]} \subseteq may'[k]
  BY DEF Begin, IInv, TypeOK
<1>6. K(p)' = k /\ V(p)' = v
  BY DEF Begin, K, V, IInv, TypeOK
<1>7. /\ pc'[p] \in {"loading", "deleting", "looking", "removing"}
      /\ pc'[p] = "deleting" => primary[p] = "keychain"
      /\ pc'[p] = "looking" => v # Unset
      /\ pc'[p] = "removing" => v = Unset
  BY <1>4 DEF Begin, IInv, TypeOK, Backend
<1>8. \A j \in Key : Held(p, j)' = Held(p, j)
  BY <1>2 DEF Held, OnFile, InItem, Or
<1>9. ReadsOf(p)'
  BY <1>2, <1>4, <1>5, <1>6, <1>7, <1>8 DEF ReadsOf, Stays, Found, Saving
<1> QED
  BY <1>1, <1>2, <1>3, <1>9, ReadsBack

\* A step that changes neither a store nor a cache, and may only end an operation.
LEMMA FailReads ==
  ASSUME IInv, NEW p \in Proc, \E from \in PC : Fails(p, from),
         UNCHANGED <<kcVars, opVars, cache, loaded, file, collided>>
  PROVE  Reads'
<1> SUFFICES ASSUME clean' PROVE Reads'
  BY DEF Reads
<1>1. clean /\ p \in up /\ Turns /\ Keyed
  BY DEF IInv, Reads, Fails, End
<1>2. /\ UNCHANGED <<darwin, envKey, starts, up, primary, master, used, keychain, legacy,
                     opcache, item, twins, cache, loaded, file, collided, may, kept>>
      /\ pc'[p] = "idle"
  BY DEF Fails, End, env, procVars, kcVars, opVars, reads, IInv, TypeOK
<1>3. Turns' /\ Keyed'
  BY <1>1, <1>2 DEF Turns, Keyed
<1>4. \A j \in Key : Held(p, j)' = Held(p, j)
  BY <1>2 DEF Held, OnFile, InItem, Or
<1>5. ReadsOf(p)'
  BY <1>1, <1>2, <1>4, ReadsSolo DEF ReadsOf, Stays, Found
<1> QED
  BY <1>1, <1>2, <1>3, <1>5, ReadsBack

\* A load, for an operation or a Get, caches what the file holds.
LEMMA LoadReads ==
  ASSUME IInv, NEW p \in Proc, LoadAndChange(p) \/ GetFile(p)
  PROVE  Reads'
<1> SUFFICES ASSUME clean' PROVE Reads'
  BY DEF Reads
<1>1. clean /\ p \in up /\ Turns /\ Keyed /\ (p \in loaded \/ Readable(p))
  BY DEF IInv, Reads, LoadAndChange, GetFile, Step
<1>2. UNCHANGED <<darwin, envKey, starts, up, primary, master, used, keychain, legacy,
                  opcache, item, twins, file, collided, may, kept, job>>
  BY DEF LoadAndChange, GetFile, Step, env, procVars, kcVars, opVars, reads
<1>3. Turns' /\ Keyed'
  BY <1>1, <1>2 DEF Turns, Keyed
<1>4. ReadsOf(p) /\ (primary[p] # "file" => file = Absent)
  BY <1>1, ReadsSolo, Solo
<1>5. Loaded(p) \in [Key -> Field]
  BY <1>1, LoadedType DEF IInv
<1>6. \A k \in Key : Loaded(p)[k] \in IF primary[p] = "file" THEN may[k] ELSE {Unset}
  BY <1>4 DEF Loaded, ReadsOf, Held, Stays, OnFile, Empty
<1>7. \A j \in Key : Held(p, j)' = Held(p, j)
  BY <1>2 DEF Held, OnFile, InItem, Or
<1>8. CASE GetFile(p)
  <2>1. pc'[p] = "idle" /\ cache'[p] = Loaded(p)
    BY <1>8 DEF GetFile, IInv, TypeOK
  <2>2. ReadsOf(p)'
    BY <1>2, <1>4, <1>6, <1>7, <2>1 DEF ReadsOf, Stays, Found
  <2> QED
    BY <1>1, <1>2, <1>3, <2>2, ReadsBack
<1>9. CASE LoadAndChange(p)
  <2>1. /\ pc[p] = "loading" /\ pc'[p] = "opening" /\ p \in loaded'
        /\ cache'[p] = [Loaded(p) EXCEPT ![K(p)] = V(p)]
    BY <1>9 DEF LoadAndChange, Step, IInv, TypeOK
  <2>2. /\ primary[p] = "file" /\ V(p) \in may[K(p)] /\ K(p) \in Key
        /\ K(p)' = K(p) /\ V(p)' = V(p)
    BY <1>2, <1>4, <2>1, JobType DEF IInv, Kinds, ReadsOf, K, V
  <2>3. /\ cache'[p][K(p)] = V(p)
        /\ \A k \in Key : cache'[p][k] \in may[k]
    BY <1>5, <1>6, <2>1, <2>2
  <2>4. ReadsOf(p)'
    BY <1>2, <1>4, <1>7, <2>1, <2>2, <2>3 DEF ReadsOf, Stays, Found, Saving
  <2> QED
    BY <1>1, <1>2, <1>3, <2>4, ReadsBack
<1> QED
  BY <1>8, <1>9

\* The temporary file is never read.
LEMMA WriteReads ==
  ASSUME IInv, NEW p \in Proc, Open(p) \/ Fill(p)
  PROVE  Reads'
<1> SUFFICES ASSUME clean' PROVE Reads'
  BY DEF Reads
<1>1. clean /\ p \in up /\ Turns /\ Keyed
  BY DEF IInv, Reads, Open, Fill, Step
<1>2. UNCHANGED <<darwin, envKey, starts, up, primary, master, used, keychain, legacy,
                  opcache, item, twins, cache, loaded, may, kept, job>>
      /\ pc[p] \in {"opening", "filling"} /\ pc'[p] \in Saving
  BY DEF Open, Fill, Step, env, procVars, kcVars, opVars, reads, Saving, IInv, TypeOK
<1>3. file' = file /\ ~collided'
  <2>1. CASE Open(p)
    <3>1. \A q \in Proc \ {p} : pc[q] \notin {"filling", "renaming"}
      BY <1>1 DEF Turns, IInv, TypeOK
    <3> QED
      BY <1>1, <2>1, <3>1 DEF Open, Turns
  <2>2. CASE Fill(p)
    <3>1. handle[p] = "tmp"
      BY <1>1, <2>2 DEF Fill, Step, Turns, IInv, Saves
    <3> QED
      BY <1>1, <2>2, <3>1 DEF Fill, Turns
  <2> QED
    BY <2>1, <2>2
<1>4. Turns' /\ Keyed'
  BY <1>1, <1>2, <1>3 DEF Turns, Keyed
<1>5. ReadsOf(p)
  BY <1>1, ReadsSolo
<1>6. \A j \in Key : Held(p, j)' = Held(p, j)
  BY <1>2, <1>3 DEF Held, OnFile, InItem, Or
<1>7. K(p)' = K(p) /\ V(p)' = V(p)
  BY <1>2 DEF K, V
<1>8. ReadsOf(p)'
  BY <1>2, <1>5, <1>6, <1>7 DEF ReadsOf, Stays, Found, Saving
<1> QED
  BY <1>1, <1>2, <1>4, <1>8, ReadsBack

\* The new file holds the new value, and every other one as it was.
LEMMA RenameReads ==
  ASSUME IInv, NEW p \in Proc, Rename(p)
  PROVE  Reads'
<1> SUFFICES ASSUME clean' PROVE Reads'
  BY DEF Reads
<1>1. clean /\ p \in up /\ Turns /\ Keyed /\ pc[p] = "renaming"
  BY DEF IInv, Reads, Rename, Returns, End
<1>2. UNCHANGED <<darwin, envKey, starts, up, primary, master, used, keychain, legacy,
                  opcache, item, twins, cache, loaded, collided>>
      /\ pc'[p] = "idle" /\ may' = [may EXCEPT ![K(p)] = {V(p)}]
  BY DEF Rename, Returns, End, env, procVars, kcVars, opVars, IInv, TypeOK
<1>3. file' = Mine(p) /\ Mine(p) # Absent
  <2>1. file' = tmp /\ tmp = Mine(p)
    BY <1>1 DEF Rename, Turns, IInv, Saves
  <2> QED
    BY <2>1 DEF Rename
<1>4. Turns' /\ Keyed'
  <2>1. up = {p} /\ (envKey => master[p] = 0)
    BY <1>1, Solo DEF IInv, Kinds
  <2> QED
    BY <1>1, <1>2, <1>3, <2>1 DEF Turns, Keyed, Mine
<1>5. ReadsOf(p) /\ primary[p] = "file" /\ K(p) \in Key
  BY <1>1, ReadsSolo, JobType DEF IInv, Kinds, Saving
<1>6. /\ p \in loaded /\ cache[p][K(p)] = V(p)
      /\ \A k \in Key : cache[p][k] \in may'[k]
  BY <1>1, <1>2, <1>5 DEF ReadsOf, Saving, IInv, TypeOK
<1>7. \A k \in Key : Held(p, k)' = cache[p][k]
  BY <1>2, <1>3, <1>5 DEF Held, OnFile, Mine
<1>8. ReadsOf(p)'
  BY <1>2, <1>5, <1>6, <1>7 DEF ReadsOf, Stays
<1> QED
  BY <1>1, <1>2, <1>4, <1>8, ReadsBack

\* The keychain loses a value before it gets the next one: while it has neither,
\* an older value of the legacy service may be read.
LEMMA KeychainReads ==
  ASSUME IInv, NEW p \in Proc, DeleteForSet(p) \/ Delete(p) \/ Add(p)
  PROVE  Reads'
<1> SUFFICES ASSUME clean' PROVE Reads'
  BY DEF Reads
<1>1. clean /\ p \in up /\ Turns /\ Keyed /\ pc[p] \in {"deleting", "adding"}
  BY DEF IInv, Reads, DeleteForSet, Delete, Add, Returns, Fails, Step, End
<1>2. UNCHANGED <<darwin, envKey, starts, up, primary, master, used, opcache, item, twins,
                  cache, loaded, file, collided>>
  BY DEF DeleteForSet, Delete, KeychainDelete, Add, Returns, Fails, Step, End, env,
         procVars, opVars, fileVars
<1>3. Turns' /\ Keyed'
  BY <1>1, <1>2 DEF Turns, Keyed
<1>4. ReadsOf(p) /\ primary[p] = "keychain" /\ K(p) \in Key /\ V(p) \in Field
  BY <1>1, ReadsSolo, JobType DEF IInv, Kinds, Saving
<1>5. /\ \A k \in Key : Or(keychain[k], legacy[k]) \in Found(k)
      /\ V(p) \in may[K(p)] /\ Unset \in may[K(p)] /\ legacy[K(p)] \in may[K(p)]
      /\ pc[p] = "adding" => V(p) # Unset
  BY <1>1, <1>4 DEF ReadsOf, Held, Stays
<1>6. ASSUME KeychainDelete(p)
      PROVE  /\ \A k \in Key : k # K(p) => keychain'[k] = keychain[k] /\ legacy'[k] = legacy[k]
             /\ keychain'[K(p)] \in {keychain[K(p)], Unset}
             /\ legacy'[K(p)] \in {legacy[K(p)], Unset}
  BY <1>4, <1>6 DEF KeychainDelete, Cleared, IInv, TypeOK
<1>7. CASE DeleteForSet(p)
  <2>1. /\ pc'[p] = "adding" /\ may' = may /\ kept' = kept /\ V(p) # Unset /\ job' = job
        /\ KeychainDelete(p)
    BY <1>7 DEF DeleteForSet, Step, reads, IInv, TypeOK
  <2>2. K(p)' = K(p) /\ V(p)' = V(p)
    BY <2>1 DEF K, V
  <2>3. \A k \in Key : Or(keychain'[k], legacy'[k]) \in Found(k)
    BY <1>5, <1>6, <2>1 DEF Or, Found
  <2>4. ReadsOf(p)'
    BY <1>2, <1>4, <1>5, <1>6, <2>1, <2>2, <2>3 DEF ReadsOf, Held, Stays, Found, Or, Saving
  <2> QED
    BY <1>1, <1>2, <1>3, <2>4, ReadsBack
<1>8. CASE Delete(p)
  <2>1. pc'[p] = "idle" /\ KeychainDelete(p) /\ V(p) = Unset
    BY <1>8 DEF Delete, Returns, Fails, End, IInv, TypeOK
  <2>2. ASSUME keychain'[K(p)] = Unset, Returns(p, "deleting", {legacy'[K(p)]})
        PROVE  \A k \in Key : Or(keychain'[k], legacy'[k]) \in Found(k)'
    <3>1. may \in [Key -> SUBSET Field] /\ kept \in [Key -> SUBSET Value]
      BY DEF IInv, TypeOK
    <3>2. \A k \in Key : k # K(p) => may'[k] = may[k] /\ kept'[k] = kept[k]
      BY <2>2, <3>1 DEF Returns
    <3>3. may'[K(p)] = {Unset} /\ kept'[K(p)] = {legacy'[K(p)]} \ {Unset}
      BY <1>4, <2>1, <2>2, <3>1 DEF Returns
    <3> QED
      BY <1>5, <1>6, <2>1, <2>2, <3>2, <3>3 DEF Or, Found
  <2>3. ASSUME keychain' = keychain, Fails(p, "deleting")
        PROVE  \A k \in Key : Or(keychain'[k], legacy'[k]) \in Found(k)'
    BY <1>5, <1>6, <2>1, <2>3 DEF Fails, reads, Or, Found
  <2>4. \A k \in Key : Or(keychain'[k], legacy'[k]) \in Found(k)'
    BY <1>8, <2>2, <2>3 DEF Delete
  <2>5. ReadsOf(p)'
    BY <1>2, <1>4, <2>1, <2>4 DEF ReadsOf, Held, Stays, Or
  <2> QED
    BY <1>1, <1>2, <1>3, <2>5, ReadsBack
<1>9. CASE Add(p)
  <2>1. /\ pc'[p] = "idle" /\ legacy' = legacy /\ V(p) # Unset
        /\ keychain' = [keychain EXCEPT ![K(p)] = V(p)]
        /\ may' = [may EXCEPT ![K(p)] = {V(p)}] /\ kept' = [kept EXCEPT ![K(p)] = {}]
    BY <1>5, <1>9 DEF Add, Returns, End, IInv, TypeOK
  <2>2. \A k \in Key : Or(keychain'[k], legacy'[k]) \in Found(k)'
    BY <1>4, <1>5, <2>1 DEF Or, Found, IInv, TypeOK
  <2>3. ReadsOf(p)'
    BY <1>2, <1>4, <2>1, <2>2 DEF ReadsOf, Held, Stays, Or
  <2> QED
    BY <1>1, <1>2, <1>3, <2>3, ReadsBack
<1> QED
  BY <1>7, <1>8, <1>9

\* Commands on the item; what was read of it before may be read from the cache.
LEMMA LookReads ==
  ASSUME IInv, NEW p \in Proc, Look(p) \/ \E k \in Key : GetOp(p, k)
  PROVE  Reads'
<1> SUFFICES ASSUME clean' PROVE Reads'
  BY DEF Reads
<1>1. clean /\ p \in up /\ Turns /\ Keyed
  BY DEF IInv, Reads, Look, GetOp, Step
<1>2. UNCHANGED <<darwin, envKey, starts, up, primary, master, used, keychain, legacy,
                  item, twins, cache, loaded, file, collided, may, kept, job>>
  BY DEF Look, GetOp, Step, env, procVars, kcVars, opVars, fileVars, reads
<1>3. Turns' /\ Keyed'
  BY <1>1, <1>2 DEF Turns, Keyed
<1>4. ReadsOf(p)
  BY <1>1, ReadsSolo
<1>5. \A j \in Key : Held(p, j)' = Held(p, j)
  BY <1>2 DEF Held, OnFile, InItem, Or
<1>6. CASE Look(p)
  <2>1. pc[p] = "looking" /\ pc'[p] \in {"editing", "creating"} /\ opcache' = opcache
    BY <1>6 DEF Look, Step, opVars, IInv, TypeOK
  <2>2. K(p)' = K(p) /\ V(p)' = V(p)
    BY <1>2 DEF K, V
  <2>3. ReadsOf(p)'
    BY <1>2, <1>4, <1>5, <2>1, <2>2 DEF ReadsOf, Stays, Found, Saving
  <2> QED
    BY <1>1, <1>2, <1>3, <2>3, ReadsBack
<1>7. ASSUME NEW k \in Key, GetOp(p, k) PROVE Reads'
  <2>1. pc'[p] = "idle" /\ primary[p] = "1password" /\ item # Absent
    BY <1>7 DEF GetOp, Usable
  <2>2. item[k] \in may[k]
    BY <1>4, <2>1 DEF ReadsOf, Held, Stays, InItem
  <2>3. \A j \in Key : opcache'[p][j] \in {opcache[p][j]} \cup (IF j = k THEN {item[k]} ELSE {})
    <3>1. opcache \in [Proc -> [Key -> Field]]
      BY DEF IInv, TypeOK
    <3> QED
      BY <1>7, <3>1 DEF GetOp
  <2>4. ReadsOf(p)'
    BY <1>2, <1>4, <1>5, <2>1, <2>2, <2>3 DEF ReadsOf, Stays, Found
  <2> QED
    BY <1>1, <1>2, <1>3, <2>4, ReadsBack
<1> QED
  BY <1>6, <1>7

\* The new fields of the item are the old ones but for the key of the operation.
LEMMA WrittenReads ==
  ASSUME IInv, NEW p \in Proc, Create(p) \/ Edit(p)
  PROVE  Reads'
<1> SUFFICES ASSUME clean' PROVE Reads'
  BY DEF Reads
<1>1. clean /\ p \in up /\ Turns /\ Keyed /\ pc[p] \in {"creating", "editing"}
      /\ (Create(p) => item = Absent)
  BY DEF IInv, Reads, Create, Edit, Returns, End
<1>2. UNCHANGED <<darwin, envKey, starts, up, primary, master, used, keychain, legacy,
                  cache, loaded, file, collided>>
      /\ pc'[p] = "idle"
      /\ may' = [may EXCEPT ![K(p)] = {V(p)}] /\ kept' = [kept EXCEPT ![K(p)] = {}]
  BY DEF Create, Edit, Written, Returns, End, env, procVars, kcVars, fileVars, IInv, TypeOK
<1>3. Turns' /\ Keyed'
  <2>1. ~twins'
    BY <1>1 DEF Create, Edit, Turns
  <2> QED
    BY <1>1, <1>2, <2>1 DEF Turns, Keyed
<1>4. ReadsOf(p) /\ primary[p] = "1password" /\ K(p) \in Key /\ V(p) \in Field
  BY <1>1, ReadsSolo, JobType DEF IInv, Kinds
<1>5. PICK fields \in [Key -> Field] :
        Written(p, fields) /\ \A k \in Key : fields[k] = InItem(k)
  <2>1. CASE item = Absent
    <3>1. Empty \in [Key -> Field] /\ \A k \in Key : Empty[k] = InItem(k)
      BY <2>1 DEF Empty, Field, InItem
    <3>2. Written(p, Empty)
      BY <2>1 DEF Create, Edit, Usable
    <3> QED
      BY <3>1, <3>2
  <2>2. CASE item # Absent
    <3>1. item \in [Key -> Field] /\ \A k \in Key : item[k] = InItem(k)
      BY <2>2 DEF InItem, IInv, TypeOK
    <3>2. Written(p, item)
      BY <1>1, <2>2 DEF Create, Edit
    <3> QED
      BY <3>1, <3>2
  <2> QED
    BY <2>1, <2>2
<1>6. \A k \in Key : fields[k] \in may[k]
  BY <1>4, <1>5 DEF ReadsOf, Held, Stays
<1>7. item' = [fields EXCEPT ![K(p)] = V(p)] /\ item' # Absent
  BY <1>4, <1>5, SecretsAssumption DEF Written
<1>8. /\ may'[K(p)] = {V(p)}
      /\ \A k \in Key : k # K(p) => may'[k] = may[k] /\ kept'[k] = kept[k]
  BY <1>2, <1>4 DEF IInv, TypeOK
<1>9. \A k \in Key : item'[k] \in may'[k]
  BY <1>4, <1>6, <1>7, <1>8
<1>10. \A k \in Key : opcache'[p][k] = IF k = K(p) THEN V(p) ELSE opcache[p][k]
  <2>1. opcache \in [Proc -> [Key -> Field]]
    BY DEF IInv, TypeOK
  <2> QED
    BY <1>4, <1>5, <2>1 DEF Written
<1>11. \A k \in Key : Held(p, k)' = item'[k]
  BY <1>2, <1>4, <1>7 DEF Held, InItem
<1>12. ReadsOf(p)'
  BY <1>2, <1>4, <1>8, <1>9, <1>10, <1>11 DEF ReadsOf, Stays, Found
<1> QED
  BY <1>1, <1>2, <1>3, <1>12, ReadsBack

\* With the item all its fields go; those that are cached may still be read.
LEMMA RemoveReads ==
  ASSUME IInv, NEW p \in Proc, Remove(p)
  PROVE  Reads'
<1> SUFFICES ASSUME clean' PROVE Reads'
  BY DEF Reads
<1>1. clean /\ p \in up /\ Turns /\ Keyed /\ pc[p] = "removing"
  BY DEF IInv, Reads, Remove, Gone, End
<1>2. UNCHANGED <<darwin, envKey, starts, up, primary, master, used, keychain, legacy,
                  twins, cache, loaded, file, collided>>
      /\ pc'[p] = "idle" /\ item' = Absent
  BY DEF Remove, Gone, End, env, procVars, kcVars, fileVars, IInv, TypeOK
<1>3. Turns' /\ Keyed'
  BY <1>1, <1>2 DEF Turns, Keyed
<1>4. ReadsOf(p) /\ primary[p] = "1password" /\ K(p) \in Key
  BY <1>1, ReadsSolo, JobType DEF IInv, Kinds
<1>5. \A k \in Key : may'[k] = IF k = K(p) THEN {Unset} ELSE may[k] \cup {Unset}
  BY DEF Remove, Gone
<1>6. \A k \in Key : k # K(p) => kept'[k] = kept[k]
  BY DEF Remove, Gone, IInv, TypeOK
<1>7. \A k \in Key : opcache'[p][k] = IF k = K(p) THEN Unset ELSE opcache[p][k]
  <2>1. opcache \in [Proc -> [Key -> Field]]
    BY DEF IInv, TypeOK
  <2> QED
    BY <1>4, <2>1 DEF Remove
<1>8. \A k \in Key : Held(p, k)' = Unset
  BY <1>2, <1>4 DEF Held, InItem
<1>9. ReadsOf(p)'
  BY <1>2, <1>4, <1>5, <1>6, <1>7, <1>8 DEF ReadsOf, Stays, Found
<1> QED
  BY <1>1, <1>2, <1>3, <1>9, ReadsBack

\* A Delete that finds no item leaves the field cached.
LEMMA AbsentReads ==
  ASSUME IInv, NEW p \in Proc, RemoveAbsent(p)
  PROVE  Reads'
<1> SUFFICES ASSUME clean' PROVE Reads'
  BY DEF Reads
<1>1. clean /\ p \in up /\ Turns /\ Keyed /\ pc[p] = "removing"
  BY DEF IInv, Reads, RemoveAbsent, Returns, End
<1>2. UNCHANGED <<darwin, envKey, starts, up, primary, master, used, keychain, legacy,
                  opcache, item, twins, cache, loaded, file, collided>>
      /\ pc'[p] = "idle" /\ item = Absent
  BY DEF RemoveAbsent, Returns, End, env, procVars, kcVars, opVars, fileVars, IInv, TypeOK
<1>3. Turns' /\ Keyed'
  BY <1>1, <1>2 DEF Turns, Keyed
<1>4. ReadsOf(p) /\ primary[p] = "1password" /\ K(p) \in Key /\ V(p) \in Field
  BY <1>1, ReadsSolo, JobType DEF IInv, Kinds
<1>5. V(p) = Unset
  BY <1>1, <1>4 DEF ReadsOf
<1>6. \A k \in Key : /\ may'[k] = IF k = K(p) THEN {Unset} ELSE may[k]
                     /\ kept'[k] = IF k = K(p) THEN {opcache[p][k]} \ {Unset} ELSE kept[k]
  BY <1>5 DEF RemoveAbsent, Returns, IInv, TypeOK
<1>7. \A k \in Key : Held(p, k) = Unset /\ Held(p, k)' = Unset
  BY <1>2, <1>4 DEF Held, InItem
<1>8. ReadsOf(p)'
  BY <1>2, <1>4, <1>6, <1>7 DEF ReadsOf, Stays, Found
<1> QED
  BY <1>1, <1>2, <1>3, <1>8, ReadsBack

\* A step of the environment of no process.
LEMMA StutterReads == ASSUME IInv, UNCHANGED vars PROVE Kinds' /\ Reads'
<1>1. UNCHANGED <<darwin, envKey, starts, up, primary, master, used, keychain, legacy,
                  opcache, item, twins, cache, loaded, handle, file, tmp, collided, pc,
                  job, may, kept, clean>>
  BY DEF vars, env, procVars, kcVars, opVars, fileVars, reads
<1> QED
  BY <1>1 DEF IInv, Kinds, Reads, Turns, Keyed, Stored, Found, OnFile, InItem, Or,
              Cached, UnderWay, K, V

LEMMA NextIInv == IInv /\ [Next]_vars => IInv'
<1> SUFFICES ASSUME IInv, [Next]_vars PROVE IInv'
  OBVIOUS
<1>1. TypeOK' /\ Saves'
  BY NextTypes, NextSaves DEF IInv
<1>2. CASE UNCHANGED vars
  BY <1>1, <1>2, StutterReads DEF IInv
<1>3. ASSUME NEW p \in Proc,
             \/ Start(p) \/ Kill(p) \/ \E k \in Key, v \in Field : Begin(p, k, v)
      PROVE  Kinds' /\ Reads'
  BY <1>3, ProcessKinds, ProcessReads, BeginReads DEF IInv
<1>4. ASSUME NEW p \in Proc,
             \/ LoadAndChange(p) \/ LoadError(p) \/ Open(p) \/ Fill(p) \/ WriteError(p)
             \/ Rename(p) \/ RenameError(p) \/ GetFile(p)
             \/ DeleteForSet(p) \/ Delete(p) \/ Add(p) \/ AddError(p)
             \/ Look(p) \/ Create(p) \/ Edit(p) \/ OpError(p) \/ Remove(p) \/ RemoveAbsent(p)
             \/ \E k \in Key : GetOp(p, k)
      PROVE  Kinds' /\ Reads'
  <2>1. Kinds'
    BY <1>4, StepKinds DEF IInv
  <2>2. CASE LoadError(p) \/ WriteError(p) \/ RenameError(p) \/ AddError(p) \/ OpError(p)
    <3>1. /\ \E from \in PC : Fails(p, from)
          /\ UNCHANGED <<kcVars, opVars, cache, loaded, file, collided>>
      BY <2>2 DEF LoadError, WriteError, RenameError, AddError, OpError, fileVars, PC
    <3> QED
      BY <2>1, <3>1, FailReads
  <2>3. CASE \/ LoadAndChange(p) \/ GetFile(p) \/ Open(p) \/ Fill(p) \/ Rename(p)
             \/ DeleteForSet(p) \/ Delete(p) \/ Add(p)
             \/ Look(p) \/ Create(p) \/ Edit(p) \/ Remove(p) \/ RemoveAbsent(p)
             \/ \E k \in Key : GetOp(p, k)
    BY <2>1, <2>3, LoadReads, WriteReads, RenameReads, KeychainReads, LookReads,
       WrittenReads, RemoveReads, AbsentReads
  <2> QED
    BY <1>4, <2>2, <2>3
<1> QED
  BY <1>1, <1>2, <1>3, <1>4 DEF Next, IInv

LEMMA InitReads == Init => Kinds /\ Reads
<1> SUFFICES ASSUME Init PROVE Kinds /\ Reads
  OBVIOUS
<1>1. Kinds
  BY DEF Init, Kinds, Saving
<1>2. Stored
  <2>1. ~darwin => legacy = Empty
    BY DEF Init
  <2> QED
    BY <2>1 DEF Init, Stored, Found, OnFile, InItem, Or, Empty
<1>3. Turns /\ Keyed /\ Cached /\ UnderWay
  BY DEF Init, Turns, Keyed, Cached, UnderWay
<1> QED
  BY <1>1, <1>2, <1>3 DEF Reads

LEMMA Invariance == Spec => []IInv
<1>1. Init => IInv
  <2>1. Init => Saves
    BY SecretsAssumption DEF Init, Saves, Saving
  <2> QED
    BY <2>1, InitTypes, InitReads DEF IInv
<1> QED
  BY <1>1, NextIInv, PTL DEF Spec

\* What a Get finds is what its process holds or has cached.
LEMMA GetReads ==
  ASSUME IInv, clean, NEW p \in up, NEW k \in Key, pc[p] = "idle"
  PROVE  Get(p, k) \in may[k] \cup kept[k]
<1>1. /\ ReadsOf(p) /\ primary[p] \in Backend
      /\ primary[p] # "file" => file = Absent
      /\ file # Absent => file.master = master[p]
      /\ file # Torn /\ ~twins
  BY ReadsSolo, Solo DEF IInv, Reads, Turns, Saves
<1>2. primary[p] # "file" => FromFile(p, k) = Unset
  BY <1>1 DEF FromFile, Loaded, ReadsOf, Empty
<1>3. CASE primary[p] = "file"
  <2>1. Readable(p)
    BY <1>1 DEF Readable
  <2>2. FromFile(p, k) \in may[k]
    BY <1>1, <1>3, <2>1 DEF FromFile, Loaded, ReadsOf, Held, Stays, OnFile, Empty
  <2> QED
    BY <1>3, <2>2 DEF Get
<1>4. CASE primary[p] = "keychain"
  BY <1>1, <1>2, <1>4 DEF Get, ReadsOf, Held, Stays, Found, Or
<1>5. CASE primary[p] = "1password"
  <2>1. FromOp(p, k) \in may[k] \cup kept[k]
    BY <1>1, <1>5 DEF FromOp, ReadsOf, Held, Stays, Found, InItem, Usable, Or
  <2> QED
    BY <1>2, <1>5, <2>1 DEF Get, Or
<1> QED
  BY <1>1, <1>3, <1>4, <1>5 DEF Backend

\* While processes take turns, a Get finds what the last operation that returned
\* nil has stored, or what one begun since may have: for every backend, any number
\* of processes, and wherever one of them is killed.  What it finds besides is the
\* value a Delete has left in the legacy service of the keychain, or in the cache
\* of a process that deleted a field of a 1Password item that was absent.
THEOREM LatestRead == Spec => []LatestIsRead
<1>1. IInv => LatestIsRead
  BY GetReads DEF LatestIsRead
<1> QED
  BY <1>1, Invariance, PTL

=============================================================================
