------------------------------ MODULE Secrets ------------------------------
(***************************************************************************)
(* The secret stores of pkg/secrets: a Manager over the keychain, the      *)
(* 1Password command and the encrypted file, in processes that come and go *)
(* and share the stores.                                                   *)
(*                                                                         *)
(* Manager.mu lets a process run one Set or Delete at a time.  A process   *)
(* may be killed between any two steps, and any command or file operation  *)
(* may fail.  A process writes to its primary backend: the keychain on     *)
(* macOS, else 1Password if the process is signed in, else the file.  The  *)
(* keys are fields of one 1Password item.  The environment backend is      *)
(* constant and read-only, and no variable of it names a key.              *)
(*                                                                         *)
(* A file, as a whole one, is the map it holds and the master key it is    *)
(* encrypted with.  Ciphers are perfect: another key reads nothing.        *)
(***************************************************************************)
EXTENDS Naturals, FiniteSets

CONSTANTS Proc, Key, Value,
          Unset,        \* no value; as the value of an operation, Delete
          Absent,       \* no file, no item, no operation
          Torn,         \* a file that is empty, cut short or mixed
          MaxStarts     \* bound: how many processes are started

Field == Value \cup {Unset}
Whole == [master : 0..MaxStarts, data : [Key -> Field]]   \* files that were written to the end

ASSUME SecretsAssumption ==
    /\ IsFiniteSet(Proc) /\ IsFiniteSet(Key)
    /\ Unset \notin Value
    /\ Absent \notin Whole \cup [Key -> Field] \cup {Torn, "tmp", "file"}
    /\ Torn \notin Whole
    /\ MaxStarts \in Nat

VARIABLES
    darwin, envKey,     \* the platform, and whether FI_MCP_MASTER_KEY is set
    starts,             \* processes started so far
    up,                 \* running processes
    primary,            \* [Proc -> Backend]
    master,             \* [Proc -> 0..MaxStarts]: the master key
    cache, loaded,      \* FileBackend.cache and loaded of each process
    opcache,            \* [Proc -> [Key -> ...]]: OnePasswordBackend.cache
    pc, job,            \* the step and the key and value of a Set or Delete
    handle,             \* [Proc -> ...]: what its open temporary file is by now
    keychain, legacy,   \* [Key -> Value \cup {Unset}]: services fi-mcp and loom
    item,               \* the 1Password item: absent, or its fields
    twins,              \* there is a second item of the same title
    file, tmp,          \* secrets.enc and secrets.enc.tmp
    used,               \* the primary backends so far
    may,                \* [Key -> SUBSET Field]: what a Get should find
    kept,               \* [Key -> SUBSET Value]: what a Delete that returned nil has left
    clean, collided     \* what happened, for the properties

env == <<darwin, envKey>>
kcVars == <<keychain, legacy>>
opVars == <<opcache, item, twins>>
fileVars == <<cache, loaded, handle, file, tmp, collided>>
procVars == <<starts, up, primary, master, used>>
reads == <<may, kept>>
vars == <<env, procVars, kcVars, opVars, fileVars, pc, job, reads, clean>>

Backend == {"keychain", "1password", "file"}
PC == {"idle", "loading", "opening", "filling", "renaming", "deleting", "adding",
       "looking", "creating", "editing", "removing"}
Empty == [k \in Key |-> Unset]

Init ==
    /\ darwin \in BOOLEAN /\ envKey \in BOOLEAN
    /\ starts = 0 /\ up = {} /\ used = {}
    /\ primary = [p \in Proc |-> "file"] /\ master = [p \in Proc |-> 0]
    /\ cache = [p \in Proc |-> Empty] /\ loaded = {}
    /\ opcache = [p \in Proc |-> Empty]
    /\ pc = [p \in Proc |-> "idle"] /\ job = [p \in Proc |-> Absent]
    /\ handle = [p \in Proc |-> Absent]
    /\ keychain = Empty
    /\ legacy \in IF darwin THEN [Key -> Field] ELSE {Empty}
    /\ item = Absent /\ twins = FALSE
    /\ file = Absent /\ tmp = Absent
    /\ may = [k \in Key |-> {legacy[k]}] /\ kept = [k \in Key |-> {}]
    /\ clean = TRUE /\ collided = FALSE
-----------------------------------------------------------------------------
(* Processes.                                                              *)

\* DefaultManager: whether `op whoami` succeeds decides the primary backend, and
\* without FI_MCP_MASTER_KEY or a keychain the master key is a fresh one.
Start(p) ==
    /\ p \notin up /\ starts < MaxStarts
    /\ up' = up \cup {p} /\ starts' = starts + 1
    /\ \E b \in IF darwin THEN {"keychain"} ELSE {"1password", "file"} :
          /\ primary' = [primary EXCEPT ![p] = b]
          /\ used' = used \cup {b}
          /\ clean' = (clean /\ up = {} /\ used \subseteq {b} /\ (used = {"file"} => envKey))
    /\ master' = [master EXCEPT ![p] = IF envKey \/ darwin THEN 0 ELSE starts + 1]
    /\ UNCHANGED <<env, kcVars, opVars, fileVars, pc, job, reads>>

\* The process ends, at whatever step: memory and handles go, files stay.
Kill(p) ==
    /\ p \in up
    /\ up' = up \ {p} /\ loaded' = loaded \ {p}
    /\ cache' = [cache EXCEPT ![p] = Empty]
    /\ opcache' = [opcache EXCEPT ![p] = Empty]
    /\ pc' = [pc EXCEPT ![p] = "idle"] /\ job' = [job EXCEPT ![p] = Absent]
    /\ handle' = [handle EXCEPT ![p] = Absent]
    /\ kept' = IF primary[p] = "1password" THEN [k \in Key |-> {}] ELSE kept
    /\ UNCHANGED <<env, starts, primary, master, used, kcVars, item, twins, file, tmp,
                   may, clean, collided>>

Step(p, from, to) ==
    /\ p \in up /\ pc[p] = from
    /\ pc' = [pc EXCEPT ![p] = to]
    /\ UNCHANGED <<env, procVars, job, clean>>

End(p, from) ==
    /\ p \in up /\ pc[p] = from
    /\ pc' = [pc EXCEPT ![p] = "idle"]
    /\ job' = [job EXCEPT ![p] = Absent]
    /\ UNCHANGED <<env, procVars>>

K(p) == job[p].key
V(p) == job[p].val

\* Set and Delete return nil: a Get should find the new value from now on, but a
\* Delete may have left `rest` to be read.
Returns(p, from, rest) ==
    /\ End(p, from)
    /\ may' = [may EXCEPT ![K(p)] = {V(p)}]
    /\ kept' = [kept EXCEPT ![K(p)] = rest \ {Unset}]

\* They return an error.
Fails(p, from) == End(p, from) /\ UNCHANGED <<reads, clean>>

\* Manager.Set or Manager.Delete.  Until it returns, a Get after a crash may find
\* the old value or the new one; the keychain has neither for a while.
Begin(p, k, v) ==
    /\ p \in up /\ pc[p] = "idle"
    /\ job' = [job EXCEPT ![p] = [key |-> k, val |-> v]]
    /\ pc' = [pc EXCEPT ![p] =
                CASE primary[p] = "file" -> "loading"
                  [] primary[p] = "keychain" -> "deleting"
                  [] OTHER -> IF v = Unset THEN "removing" ELSE "looking"]
    /\ may' = [may EXCEPT ![k] = @ \cup {v} \cup
                (IF primary[p] = "keychain" THEN {Unset, legacy[k]} ELSE {})]
    /\ UNCHANGED <<env, procVars, kcVars, opVars, fileVars, kept, clean>>
-----------------------------------------------------------------------------
(* The encrypted file.                                                     *)

\* load succeeds: with no file the map is empty.
Readable(p) == file # Torn /\ (file # Absent => file.master = master[p])
Loaded(p) == IF p \in loaded THEN cache[p] ELSE IF file = Absent THEN Empty ELSE file.data

LoadAndChange(p) ==
    /\ p \in loaded \/ Readable(p)
    /\ Step(p, "loading", "opening")
    /\ cache' = [cache EXCEPT ![p] = [Loaded(p) EXCEPT ![K(p)] = V(p)]]
    /\ loaded' = loaded \cup {p}
    /\ UNCHANGED <<kcVars, opVars, handle, file, tmp, reads, collided>>

\* The file is torn, of another master key, or cannot be read just now.
LoadError(p) ==
    /\ p \notin loaded
    /\ Fails(p, "loading")
    /\ UNCHANGED <<kcVars, opVars, fileVars>>

\* Mutant of Open: the file is written in place.
OpenInPlace(p) ==
    /\ Step(p, "opening", "filling")
    /\ file' = Torn
    /\ handle' = [handle EXCEPT ![p] = "file"]
    /\ collided' = (collided \/ \E q \in Proc \ {p} : pc[q] \in {"filling", "renaming"})
    /\ UNCHANGED <<kcVars, opVars, cache, loaded, tmp, reads>>

\* os.WriteFile, first half: open, and truncate what another save left.
Open(p) ==
    /\ Step(p, "opening", "filling")
    /\ tmp' = Torn
    /\ handle' = [handle EXCEPT ![p] = "tmp"]
    /\ collided' = (collided \/ \E q \in Proc \ {p} : pc[q] \in {"filling", "renaming"})
    /\ UNCHANGED <<kcVars, opVars, cache, loaded, file, reads>>

\* Second half: into the file opened, wherever that has been renamed to since.
\* Two writers of one file may leave a mixture.
Mine(p) == [master |-> master[p], data |-> cache[p]]
Mixed(p, old) == IF old = Torn THEN {Mine(p)} ELSE {Mine(p), Torn}
Fill(p) ==
    /\ Step(p, "filling", "renaming")
    /\ IF handle[p] = "tmp" THEN tmp' \in Mixed(p, tmp) ELSE UNCHANGED tmp
    /\ IF handle[p] = "file" THEN file' \in Mixed(p, file) ELSE UNCHANGED file
    /\ handle' = [handle EXCEPT ![p] = Absent]
    /\ UNCHANGED <<kcVars, opVars, cache, loaded, reads, collided>>

WriteError(p) ==
    /\ Fails(p, "filling")
    /\ handle' = [handle EXCEPT ![p] = Absent]
    /\ UNCHANGED <<kcVars, opVars, cache, loaded, file, tmp, collided>>

\* Handles follow their file: of the old secrets.enc, nothing is left.
Moved(h) == IF h = "tmp" THEN "file" ELSE Absent
Rename(p) ==
    /\ tmp # Absent
    /\ Returns(p, "renaming", {}) /\ UNCHANGED clean
    /\ file' = tmp /\ tmp' = Absent
    /\ handle' = [q \in Proc |-> Moved(handle[q])]
    /\ UNCHANGED <<kcVars, opVars, cache, loaded, collided>>

\* os.Rename fails, and the temporary file is removed.
RenameError(p) ==
    /\ Fails(p, "renaming")
    /\ tmp' = Absent
    /\ handle' = [q \in Proc |-> IF handle[q] = "tmp" THEN Absent ELSE handle[q]]
    /\ UNCHANGED <<kcVars, opVars, cache, loaded, file, collided>>
-----------------------------------------------------------------------------
(* The keychain.                                                           *)

\* The two delete commands, each of which may fail.
Cleared(f, k) == {f, [f EXCEPT ![k] = Unset]}
KeychainDelete(p) ==
    /\ keychain' \in Cleared(keychain, K(p)) /\ legacy' \in Cleared(legacy, K(p))
    /\ UNCHANGED <<opVars, fileVars>>

\* Set ignores the result.
DeleteForSet(p) ==
    /\ Step(p, "deleting", "adding")
    /\ V(p) # Unset
    /\ KeychainDelete(p)
    /\ UNCHANGED reads

\* Delete reports the result for the new service only: a legacy item may be left.
Delete(p) ==
    /\ pc[p] = "deleting" /\ V(p) = Unset
    /\ KeychainDelete(p)
    /\ \/ /\ keychain'[K(p)] = Unset
          /\ Returns(p, "deleting", {legacy'[K(p)]}) /\ UNCHANGED clean
       \/ keychain' = keychain /\ Fails(p, "deleting")

Add(p) ==
    /\ Returns(p, "adding", {}) /\ UNCHANGED clean
    /\ keychain' = [keychain EXCEPT ![K(p)] = V(p)]
    /\ UNCHANGED <<legacy, opVars, fileVars>>

AddError(p) ==
    /\ Fails(p, "adding")
    /\ UNCHANGED <<kcVars, opVars, fileVars>>
-----------------------------------------------------------------------------
(* 1Password.  With two items of one title, commands by title fail.        *)

Usable == item # Absent /\ ~twins

\* Any failure of `op item get` counts as there being no item.
Look(p) ==
    /\ \/ Usable /\ Step(p, "looking", "editing")
       \/ Step(p, "looking", "creating")
    /\ UNCHANGED <<kcVars, opVars, fileVars, reads>>

Written(p, fields) ==
    /\ item' = [fields EXCEPT ![K(p)] = V(p)]
    /\ opcache' = [opcache EXCEPT ![p][K(p)] = V(p)]
    /\ UNCHANGED <<kcVars, fileVars>>

\* Creating a second item of the title makes both unusable.
Create(p) ==
    /\ Returns(p, "creating", {})
    /\ Written(p, IF item = Absent THEN Empty ELSE item)
    /\ twins' = (item # Absent)
    /\ clean' = (clean /\ item = Absent)

Edit(p) ==
    /\ Usable
    /\ Returns(p, "editing", {}) /\ UNCHANGED clean
    /\ Written(p, item)
    /\ UNCHANGED twins

OpError(p) ==
    /\ \E from \in {"creating", "editing", "removing"} : Fails(p, from)
    /\ UNCHANGED <<kcVars, opVars, fileVars>>

\* The item is deleted with all its fields; other fields of it stay cached.
Gone(p) ==
    /\ Usable /\ End(p, "removing")
    /\ item' = Absent
    /\ may' = [k \in Key |-> IF k = K(p) THEN {Unset} ELSE may[k] \cup {Unset}]
    /\ kept' = [kept EXCEPT ![K(p)] = {}]

\* Mutants of Remove: the entry of the cache is kept, or marked as one deleted.
RemoveMarks(p) ==
    /\ Gone(p)
    /\ opcache' = [opcache EXCEPT ![p][K(p)] = Absent]
    /\ UNCHANGED <<twins, clean, kcVars, fileVars>>
RemoveKeepsCache(p) ==
    /\ Gone(p)
    /\ UNCHANGED <<opcache, twins, clean, kcVars, fileVars>>

\* Delete returns nil, and the key is no longer cached.
Remove(p) ==
    /\ Gone(p)
    /\ opcache' = [opcache EXCEPT ![p][K(p)] = Unset]
    /\ UNCHANGED <<twins, clean, kcVars, fileVars>>

\* No such item: Delete returns nil before it gets to the cache.
RemoveAbsent(p) ==
    /\ item = Absent
    /\ Returns(p, "removing", {opcache[p][K(p)]})
    /\ UNCHANGED <<kcVars, opVars, fileVars, clean>>
-----------------------------------------------------------------------------
(* Get.                                                                    *)

\* Get fills the cache of 1Password, or loads the file when nothing was found
\* before it or the backends before it failed.
GetOp(p, k) ==
    /\ p \in up /\ pc[p] = "idle" /\ primary[p] = "1password"
    /\ opcache[p][k] = Unset /\ Usable /\ item[k] # Unset
    /\ opcache' = [opcache EXCEPT ![p][k] = item[k]]
    /\ UNCHANGED <<env, procVars, kcVars, item, twins, fileVars, pc, job, reads, clean>>

GetFile(p) ==
    /\ p \in up \ loaded /\ pc[p] = "idle" /\ Readable(p)
    /\ cache' = [cache EXCEPT ![p] = Loaded(p)]
    /\ loaded' = loaded \cup {p}
    /\ UNCHANGED <<env, procVars, kcVars, opVars, handle, file, tmp, collided,
                   pc, job, reads, clean>>

\* The first of a and b that is set.
Or(a, b) == IF a # Unset THEN a ELSE b

\* What Manager.Get finds, if no command fails.
FromFile(p, k) == IF p \in loaded \/ Readable(p) THEN Loaded(p)[k] ELSE Unset
FromOp(p, k) == Or(opcache[p][k], IF Usable THEN item[k] ELSE Unset)
Get(p, k) ==
    CASE primary[p] = "keychain"  -> Or(Or(keychain[k], legacy[k]), FromFile(p, k))
      [] primary[p] = "1password" -> Or(FromOp(p, k), FromFile(p, k))
      [] OTHER -> FromFile(p, k)
-----------------------------------------------------------------------------
Next == \E p \in Proc :
    \/ Start(p) \/ Kill(p)
    \/ \E k \in Key, v \in Field : Begin(p, k, v)
    \/ LoadAndChange(p) \/ LoadError(p) \/ Open(p) \/ Fill(p) \/ WriteError(p)
    \/ Rename(p) \/ RenameError(p)
    \/ DeleteForSet(p) \/ Delete(p) \/ Add(p) \/ AddError(p)
    \/ Look(p) \/ Create(p) \/ Edit(p) \/ OpError(p) \/ Remove(p) \/ RemoveAbsent(p)
    \/ GetFile(p) \/ \E k \in Key : GetOp(p, k)

Spec == Init /\ [][Next]_vars
-----------------------------------------------------------------------------
\* Every variable keeps its type.
TypeOK ==
    /\ darwin \in BOOLEAN /\ envKey \in BOOLEAN /\ clean \in BOOLEAN /\ collided \in BOOLEAN
    /\ starts \in 0..MaxStarts /\ master \in [Proc -> 0..MaxStarts]
    /\ primary \in [Proc -> Backend] /\ used \subseteq Backend /\ pc \in [Proc -> PC]
    /\ up \subseteq Proc /\ loaded \subseteq up
    /\ cache \in [Proc -> [Key -> Field]] /\ opcache \in [Proc -> [Key -> Field]]
    /\ job \in [Proc -> {Absent} \cup [key : Key, val : Field]]
    /\ \A p \in Proc : IF pc[p] = "idle" THEN job[p] = Absent
                       ELSE p \in up /\ job[p] \in [key : Key, val : Field]
    /\ handle \in [Proc -> {Absent, "tmp", "file"}]
    /\ keychain \in [Key -> Field] /\ legacy \in [Key -> Field]
    /\ item = Absent \/ item \in [Key -> Field]
    /\ file \in {Absent, Torn} \cup Whole /\ tmp \in {Absent, Torn} \cup Whole
    /\ may \in [Key -> SUBSET Field] /\ kept \in [Key -> SUBSET Value] /\ twins \in BOOLEAN

\* While processes take turns, a Get finds what the last Set or Delete that
\* returned nil has stored, or what an operation begun since that failed or was
\* cut short may have; also the Get of the next process.  In the keychain a Set
\* cut short may leave nothing, or the value of the legacy service.
\* Two Deletes return nil and leave a value to be read, which `kept` excepts for
\* the deleted key, until it is set again: of the keychain, when the delete of
\* the legacy item failed, and of 1Password, when the item was absent, and this
\* process has the field cached.  `clean` excludes what loses values: processes
\* at the same time, another primary or master key than the last one's, and a
\* second item of one title.
LatestIsRead ==
    \A p \in up, k \in Key : clean /\ pc[p] = "idle" => Get(p, k) \in may[k] \cup kept[k]

\* No crash and no failed write leaves a torn secrets.enc behind: only two saves
\* at the same time, which share the temporary file, can.
FileIsWhole == ~collided => file # Torn
=============================================================================
