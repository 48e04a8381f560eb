---------------------------- MODULE ServiceStore ----------------------------
(***************************************************************************)
(* services/control-plane/store.go: the map of registered services, the    *)
(* RWMutex around it, and the JSON file it is persisted to.                *)
(*                                                                         *)
(* create() holds the write lock over the duplicate check, the insertion,  *)
(* the file write and, when the write fails, the rollback.  list(), get()  *)
(* and count() hold the read lock: they only read, so each is one step     *)
(* that is enabled when no writer holds the lock.                          *)
(*                                                                         *)
(* os.WriteFile truncates the file, writes it and closes it.  The three    *)
(* are steps of their own: a process that dies, or a disk that fills up,   *)
(* in between leaves a file that is not a snapshot.                        *)
(***************************************************************************)
EXTENDS Naturals

CONSTANTS
  Handlers,        \* goroutines that serve POST /services
  Names,           \* service names that pass validation.go
  Defs,            \* service definitions, up to what the store tells apart
  NoDef,           \* a name that is not a key of the map
  Nobody,          \* the lock's holder when it is free
  Persistent,      \* CONTROL_PLANE_STORE_PATH is set
  StorageFaults,   \* writing or closing the opened file may fail
  CrashInWrite     \* the process may die between truncation and full write

ASSUME NoDefAssumption == NoDef \notin Defs /\ NoDef \notin Names
ASSUME NobodyAssumption == Nobody \notin Handlers
ASSUME ModeAssumption == {Persistent, StorageFaults, CrashInWrite} \subseteq BOOLEAN

VARIABLES
  running,   \* main() got past newServiceStore() and serves requests
  services,  \* serviceStore.services
  file,      \* the file at storePath: its kind and the definitions in it
  lock,      \* the goroutine that holds mu for writing
  pc,        \* where each handler's create() call stands
  req,       \* its argument
  outcome,   \* its result
  told,      \* history: pairs clients were shown since the process started
  everTold   \* history: the same since the beginning

vars == <<running, services, file, lock, pc, req, outcome, told, everTold>>

Maps == [Names -> Defs \cup {NoDef}]
NoServices == [n \in Names |-> NoDef]
Registered(m) == {n \in Names : m[n] # NoDef}
Pairs(m) == {<<n, m[n]>> : n \in Registered(m)}

Requests == [name : Names, def : Defs]
NoRequest == [name |-> NoDef, def |-> NoDef]

\* The kinds of file a load can find: absent, of length 0, cut short, or the
\* JSON array of a whole map.
File(kind) == [kind |-> kind, defs |-> NoServices]
Snapshot(m) == [kind |-> "snapshot", defs |-> m]
Files == [kind : {"missing", "empty", "torn", "snapshot"}, defs : Maps]

Locations == {"idle", "called", "locked", "persist", "write", "close", "returned"}
Critical == {"locked", "persist", "write", "close"}   \* mu is held
Inserted == {"persist", "write", "close"}             \* ... and the map has the entry

TypeOK == /\ running \in BOOLEAN
          /\ services \in Maps
          /\ file \in Files
          /\ lock \in Handlers \cup {Nobody}
          /\ pc \in [Handlers -> Locations]
          /\ req \in [Handlers -> Requests \cup {NoRequest}]
          /\ outcome \in [Handlers -> {"none", "created", "exists", "failed"}]
          /\ told \subseteq Names \X Defs
          /\ everTold \subseteq Names \X Defs

-----------------------------------------------------------------------------
(* newServiceStore() and load(). *)

\* Faulty: without the check for a file of length 0.
LoadableStrict(f) == f.kind \in {"missing", "snapshot"}

\* A file that load() accepts; a read error and a JSON error end in log.Fatalf.
Loadable(f) == f.kind # "torn"

\* Faulty: load() is not called.
ContentsLost(f) == NoServices

\* What load() puts into the map.
Contents(f) == IF Persistent THEN f.defs ELSE NoServices

Init == /\ running = FALSE
        /\ services = NoServices
        /\ file \in {File("missing"), File("empty")}
        /\ lock = Nobody
        /\ pc = [p \in Handlers |-> "idle"]
        /\ req = [p \in Handlers |-> NoRequest]
        /\ outcome = [p \in Handlers |-> "none"]
        /\ told = {}
        /\ everTold = {}

\* The process starts.  A start that fails exits at once and changes nothing.
Start == /\ ~running
         /\ Persistent => Loadable(file)
         /\ running' = TRUE
         /\ services' = Contents(file)
         /\ UNCHANGED <<file, lock, pc, req, outcome, told, everTold>>

\* The process dies: memory, locks and calls in progress go, the file stays.
Crash == /\ running
         /\ CrashInWrite \/ \A p \in Handlers : pc[p] # "write"
         /\ running' = FALSE
         /\ services' = NoServices
         /\ lock' = Nobody
         /\ pc' = [p \in Handlers |-> "idle"]
         /\ req' = [p \in Handlers |-> NoRequest]
         /\ outcome' = [p \in Handlers |-> "none"]
         /\ told' = {}
         /\ UNCHANGED <<file, everTold>>

-----------------------------------------------------------------------------
(* create() and persistLocked(). *)

Goto(p, l) == pc' = [pc EXCEPT ![p] = l]

\* The handler calls create(r).
Invoke(p, r) == /\ running /\ pc[p] = "idle"
                /\ Goto(p, "called")
                /\ req' = [req EXCEPT ![p] = r]
                /\ UNCHANGED <<running, services, file, lock, outcome, told, everTold>>

\* Faulty: the duplicate check under the read lock only.
LockShared(p) == /\ pc[p] = "called"
                 /\ lock' = p
                 /\ Goto(p, "locked")
                 /\ UNCHANGED <<running, services, file, req, outcome, told, everTold>>

\* s.mu.Lock(): readers are single steps, so only a writer can be in the way.
Lock(p) == /\ pc[p] = "called" /\ lock = Nobody
           /\ lock' = p
           /\ Goto(p, "locked")
           /\ UNCHANGED <<running, services, file, req, outcome, told, everTold>>

\* create() returns o and the deferred Unlock runs.
Return(p, o) == /\ lock' = Nobody
                /\ Goto(p, "returned")
                /\ outcome' = [outcome EXCEPT ![p] = o]
                /\ UNCHANGED <<running, req, told, everTold>>

\* Faulty: a return that does not unlock.
DuplicateKeepsLock(p) == /\ pc[p] = "locked"
                         /\ services[req[p].name] # NoDef
                         /\ Goto(p, "returned")
                         /\ outcome' = [outcome EXCEPT ![p] = "exists"]
                         /\ UNCHANGED <<running, services, file, lock, req, told, everTold>>

\* The name is taken.
Duplicate(p) == /\ pc[p] = "locked"
                /\ services[req[p].name] # NoDef
                /\ Return(p, "exists")
                /\ UNCHANGED <<services, file>>

\* Faulty: the last registration of a name wins.
InsertAnyway(p) == /\ pc[p] = "locked"
                   /\ services' = [services EXCEPT ![req[p].name] = req[p].def]
                   /\ Goto(p, "persist")
                   /\ UNCHANGED <<running, file, lock, req, outcome, told, everTold>>

\* The name is free: the definition goes into the map before it is on disk.
Insert(p) == /\ pc[p] = "locked"
             /\ services[req[p].name] = NoDef
             /\ services' = [services EXCEPT ![req[p].name] = req[p].def]
             /\ Goto(p, "persist")
             /\ UNCHANGED <<running, file, lock, req, outcome, told, everTold>>

\* Faulty: the entry stays.
RollbackForgotten(p) == UNCHANGED services /\ Return(p, "failed")

\* persistLocked() returns an error: the entry is deleted again.
Rollback(p) == /\ services' = [services EXCEPT ![req[p].name] = NoDef]
               /\ Return(p, "failed")

\* Faulty: nothing is written although there is a storePath.
SkipPersist(p) == pc[p] = "persist" /\ Return(p, "created") /\ UNCHANGED <<services, file>>

\* No storePath: there is nothing to persist.
KeepInMemory(p) == /\ pc[p] = "persist" /\ ~Persistent
                   /\ Return(p, "created")
                   /\ UNCHANGED <<services, file>>

\* MkdirAll or opening the file fails: the old file is still whole.
PrepareFails(p) == /\ pc[p] = "persist" /\ Persistent
                   /\ Rollback(p)
                   /\ UNCHANGED file

\* os.WriteFile opens with O_TRUNC.
Truncate(p) == /\ pc[p] = "persist" /\ Persistent
               /\ file' = File("empty")
               /\ Goto(p, "write")
               /\ UNCHANGED <<running, services, lock, req, outcome, told, everTold>>

\* A first part of the JSON array reaches the file.
WritePart(p) == /\ pc[p] = "write" /\ file.kind = "empty"
                /\ file' = File("torn")
                /\ UNCHANGED <<running, services, lock, pc, req, outcome, told, everTold>>

\* All of it does.
WriteAll(p) == /\ pc[p] = "write"
               /\ file' = Snapshot(services)
               /\ Goto(p, "close")
               /\ UNCHANGED <<running, services, lock, req, outcome, told, everTold>>

\* write(2) fails, before or after a first part.
WriteFails(p) == /\ pc[p] = "write" /\ StorageFaults
                 /\ Rollback(p)
                 /\ UNCHANGED file

Close(p) == /\ pc[p] = "close"
            /\ Return(p, "created")
            /\ UNCHANGED <<services, file>>

\* close(2) reports an error after the whole array was written.
CloseFails(p) == /\ pc[p] = "close" /\ StorageFaults
                 /\ Rollback(p)
                 /\ UNCHANGED file

\* The handler answers its client: 201 with the definition, 409 or 500.
Respond(p) == /\ pc[p] = "returned"
              /\ LET shown == IF outcome[p] = "created"
                                THEN {<<req[p].name, req[p].def>>} ELSE {}
                 IN  told' = told \cup shown /\ everTold' = everTold \cup shown
              /\ Goto(p, "idle")
              /\ req' = [req EXCEPT ![p] = NoRequest]
              /\ outcome' = [outcome EXCEPT ![p] = "none"]
              /\ UNCHANGED <<running, services, file, lock>>

-----------------------------------------------------------------------------
(* list() and get(): the read lock. *)

\* Faulty: a read that takes no lock.
ReadUnlocked == running

CanRead == running /\ lock = Nobody

Show(pairs) == /\ told' = told \cup pairs
               /\ everTold' = everTold \cup pairs
               /\ UNCHANGED <<running, services, file, lock, pc, req, outcome>>

\* Faulty: the key is not looked for.
GetUnchecked(n) == CanRead /\ Show({<<n, services[n]>>})

Get(n) == CanRead /\ services[n] # NoDef /\ Show({<<n, services[n]>>})

List == CanRead /\ Show(Pairs(services))

-----------------------------------------------------------------------------
Write(p) == \/ Truncate(p) \/ WritePart(p) \/ WriteAll(p) \/ Close(p)
            \/ PrepareFails(p) \/ WriteFails(p) \/ CloseFails(p)

Create(p) == \/ Lock(p) \/ Duplicate(p) \/ Insert(p) \/ KeepInMemory(p) \/ Write(p)

Next == \/ Start
        \/ Crash
        \/ \E p \in Handlers : \/ \E r \in Requests : Invoke(p, r)
                               \/ Create(p)
                               \/ Respond(p)
        \/ \E n \in Names : Get(n)
        \/ List

Spec == Init /\ [][Next]_vars

\* Cloud Run and Kubernetes restart a process that has exited.  Nothing is assumed
\* of the goroutines: RegistrationAPI has what their scheduling gives.
Fairness == WF_vars(Start)

FairSpec == Spec /\ Fairness

-----------------------------------------------------------------------------
(* Properties. *)

\* An entry whose write is under way is in the map but not yet registered.
Uncommitted(n) == \E p \in Handlers : pc[p] \in {"persist", "write"} /\ req[p].name = n

\* The registry as clients can rely on it: what the process would serve once
\* the writer is done, or, between two lives, what the next one will load.
Committed == IF running
               THEN [n \in Names |-> IF Uncommitted(n) THEN NoDef ELSE services[n]]
               ELSE Contents(file)

\* As long as a process lives it serves every definition it has shown to a
\* client, by a 201 or by a read, exactly as shown: no reader saw an entry that
\* was rolled back and no 201 was given twice for a name.  (store.go:36-77)
ToldIsServed == running => told \subseteq Pairs(services)

\* A client is answered 409 only for a name that is registered for good, never
\* because of an entry that is later rolled back.  (store.go:40-49)
ConflictIsReal == 
  \A p \in Handlers : outcome[p] = "exists" => req[p].name \in Registered(Committed)

\* What clients were ever shown is registered now, and if the process is down
\* its next life will load it.  (store.go:86-113, main_test.go:172)
SurvivesRestart == everTold \subseteq Pairs(Committed)

\* The store implements the abstract registry.  Where the file is written but
\* not yet closed the entry counts as committed.
Abs == INSTANCE Registry
         WITH Kept <- IF Persistent THEN "all" ELSE "none",
              reg <- Committed,
              told <- IF Persistent THEN everTold ELSE told,
              outcome <- [p \in Handlers |-> IF pc[p] = "close" THEN "created" ELSE outcome[p]]

\* Every behaviour of the store is one of the register-once map.  (store.go)
ImplementsRegistry == Abs!Spec

\* The registry that deployments are made from never loses or changes a definition
\* and gains them one by one, over restarts too; without a store path a restart
\* empties it.  DeployPath takes its registry to be such.  (store.go:36-54, 86-143)
RegistryGrows ==
  [][\/ \E n \in Names, d \in Defs : /\ Committed[n] = NoDef
                                     /\ Committed' = [Committed EXCEPT ![n] = d]
     \/ ~Persistent /\ ~running' /\ Committed' = NoServices]_Committed

\* Of what the map holds, readers see all but the entry of the writer.
Settled == [n \in Names |-> IF \E p \in Handlers : pc[p] \in Inserted /\ req[p].name = n
                              THEN NoDef ELSE services[n]]

Life == INSTANCE Registry WITH Kept <- "any", reg <- Settled

\* Whatever the disk does, the calls that one process serves are operations of
\* the register-once map that take effect at one instant: an entry whose write
\* fails was never there.  (store.go:36-84)
ImplementsRegistryWhileAlive == Life!Spec

\* Of two creators of one name at most one is answered 201, also when both post
\* the same definition.  (store.go:40-45)
OneWinner ==
  \A p, q \in Handlers :
    outcome[p] = "created" /\ outcome[q] = "created" /\ req[p].name = req[q].name => p = q

\* Whatever failed before, a file with a JSON array in it has every definition
\* the process serves: the next write mends what a failed one broke, and it takes
\* a restart from an empty or torn file to lose something.  (store.go:115-143)
SnapshotIsComplete ==
  running /\ file.kind = "snapshot"
    => \A n \in Registered(Settled) : file.defs[n] = Settled[n]

\* A definition that was answered 500 may be in the file, and then comes back
\* with a restart: one at most, however many attempts failed.  (store.go:47-50, 138)
OneMayReturn ==
  running /\ file.kind = "snapshot"
    => \A m, n \in Registered(file.defs) \ Registered(Settled) : m = n

\* A process that died comes back, whatever failed before and wherever in a write it
\* died: a missing file and one of length 0 do not keep the next process from
\* starting, only a part of an array does, which load() refuses for good.
\* (store.go:23-34, 91-106, 138)
ComesBack == ~running ~> running \/ file.kind = "torn"
=============================================================================
