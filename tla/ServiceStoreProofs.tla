------------------------- MODULE ServiceStoreProofs -------------------------
(***************************************************************************)
(* What ServiceStore guarantees for any number of handlers, names and      *)
(* definitions.  LockInv and the three parts below it are what makes the   *)
(* properties inductive: whoever is between Lock and Unlock holds mu, and  *)
(* while an entry is in the map but not yet answered for, nobody has been  *)
(* told anything about its name.                                           *)
(*                                                                         *)
(* That invariant gives the properties.  With the file (DurableInv) it     *)
(* gives the refinement of Registry when started writes complete.  With    *)
(* every fault, the map without the entry being written (Settled) is a     *)
(* Registry for as long as the process lives, from which what              *)
(* RegistryProofs shows of that module is inherited; and FileInv says what *)
(* a readable file then has.                                               *)
(***************************************************************************)
EXTENDS ServiceStore, TLAPS

\* A handler is inside create()'s critical section exactly when it holds mu.
LockInv == \A p \in Handlers : lock = p <=> pc[p] \in Critical

\* Calls are in progress only in a live process, and each has its argument.
BusyInv == \A p \in Handlers : pc[p] # "idle" => running /\ req[p] \in Requests

TypeInv == TypeOK /\ BusyInv

\* An entry being persisted is in the map and nobody relies on its name.
InsertedInv == 
  \A p \in Handlers : pc[p] \in Inserted =>
    /\ services[req[p].name] = req[p].def
    /\ \A t \in told : t[1] # req[p].name
    /\ \A q \in Handlers : outcome[q] \in {"created", "exists"} => req[q].name # req[p].name

\* Results belong to returned calls and speak of what is in the map.
OutcomeInv ==
  \A p \in Handlers : 
    /\ outcome[p] # "none" => pc[p] = "returned"
    /\ outcome[p] = "created" => services[req[p].name] = req[p].def
    /\ outcome[p] = "exists" => services[req[p].name] # NoDef

\* A result is the result of a call that was made and returned, in this life.
ResultsAreCalls ==
  \A p \in Handlers : outcome[p] # "none" => pc[p] = "returned" /\ running /\ req[p] \in Requests

\* What was told is in the map.
ToldInv == \A t \in told : services[t[1]] = t[2]

\* A process that is not running has told nobody anything yet.
DownInv == ~running => told = {}

IInv == TypeInv /\ LockInv /\ DownInv /\ InsertedInv /\ OutcomeInv /\ ToldInv

-----------------------------------------------------------------------------
LEMMA EmptyMap == NoServices \in Maps /\ Registered(NoServices) = {} /\ Pairs(NoServices) = {}
BY DEF NoServices, Maps, Registered, Pairs

LEMMA FileType == /\ \A m \in Maps : Snapshot(m) \in Files
                  /\ \A k \in {"missing", "empty", "torn"} : File(k) \in Files
BY EmptyMap DEF Files, Snapshot, File

LEMMA PairsType == ASSUME NEW m \in Maps PROVE Pairs(m) \subseteq Names \X Defs
BY DEF Maps, Pairs, Registered

LEMMA RequestType == NoRequest \notin Requests /\ \A r \in Requests : r.name \in Names /\ r.def \in Defs
BY NoDefAssumption DEF NoRequest, Requests

LEMMA TypeInit == Init => TypeInv
BY EmptyMap, FileType DEF Init, TypeInv, TypeOK, Locations, BusyInv

\* A busy handler's request is a request; types follow step by step.
LEMMA TypeStep == TypeInv /\ [Next]_vars => TypeInv'
<1> SUFFICES ASSUME TypeInv, [Next]_vars PROVE TypeInv'
  OBVIOUS
<1> USE DEF TypeInv, TypeOK, Locations, BusyInv
<1>1. CASE Start
  BY <1>1, EmptyMap DEF Start, Contents, Files
<1>2. CASE Crash
  BY <1>2, EmptyMap DEF Crash
<1>3. ASSUME NEW p \in Handlers, NEW r \in Requests, Invoke(p, r) PROVE TypeInv'
  BY <1>3 DEF Invoke, Goto
<1>4. ASSUME NEW p \in Handlers, Create(p) PROVE TypeInv'
  <2>1. CASE Lock(p)
    BY <2>1 DEF Lock, Goto
  <2>2. CASE Duplicate(p)
    BY <2>2 DEF Duplicate, Return, Goto
  <2>3. CASE Insert(p)
    <3>1. services' \in Maps
      BY <2>3, RequestType DEF Insert, Maps
    <3> QED 
      BY <2>3, <3>1 DEF Insert, Goto
  <2>4. CASE KeepInMemory(p) \/ Close(p)
    BY <2>4 DEF KeepInMemory, Close, Return, Goto
  <2>5. CASE Truncate(p) \/ WritePart(p) \/ WriteAll(p)
    BY <2>5, FileType DEF Truncate, WritePart, WriteAll, Goto
  <2>6. CASE PrepareFails(p) \/ WriteFails(p) \/ CloseFails(p)
    <3>1. services' \in Maps
      BY <2>6 DEF PrepareFails, WriteFails, CloseFails, Rollback, Maps
    <3> QED 
      BY <2>6, <3>1 DEF PrepareFails, WriteFails, CloseFails, Rollback, Return, Goto
  <2> QED 
    BY <1>4, <2>1, <2>2, <2>3, <2>4, <2>5, <2>6 DEF Create, Write
<1>5. ASSUME NEW p \in Handlers, Respond(p) PROVE TypeInv'
  <2>1. <<req[p].name, req[p].def>> \in Names \X Defs
    BY <1>5, RequestType DEF Respond
  <2> QED 
    BY <1>5, <2>1 DEF Respond, Goto
<1>6. ASSUME NEW n \in Names, Get(n) PROVE TypeInv'
  <2>1. <<n, services[n]>> \in Names \X Defs
    BY <1>6 DEF Get, Maps
  <2> QED 
    BY <1>6, <2>1 DEF Get, Show
<1>7. CASE List
  BY <1>7, PairsType DEF List, Show
<1>8. CASE UNCHANGED vars
  BY <1>8 DEF vars
<1> QED 
  BY <1>1, <1>2, <1>3, <1>4, <1>5, <1>6, <1>7, <1>8 DEF Next

-----------------------------------------------------------------------------
LEMMA PairsAre == 
  ASSUME NEW m \in Maps, NEW S \in SUBSET (Names \X Defs)
  PROVE  S \subseteq Pairs(m) <=> \A t \in S : m[t[1]] = t[2]
<1>1. ASSUME NEW t \in S PROVE t \in Pairs(m) <=> m[t[1]] = t[2]
  <2>1. PICK n \in Names, d \in Defs : t = <<n, d>>
    OBVIOUS
  <2>2. t[1] = n /\ t[2] = d /\ d # NoDef
    BY <2>1, NoDefAssumption
  <2>3. ASSUME t \in Pairs(m) PROVE m[n] = d
    BY <2>1, <2>3 DEF Pairs, Registered
  <2>4. ASSUME m[n] = d PROVE t \in Pairs(m)
    BY <2>1, <2>2, <2>4 DEF Pairs, Registered
  <2> QED 
    BY <2>2, <2>3, <2>4
<1> QED 
  BY <1>1

LEMMA InvInit == Init => IInv
<1> SUFFICES ASSUME Init PROVE IInv
  OBVIOUS
<1> QED 
  BY TypeInit, NobodyAssumption 
  DEF Init, IInv, LockInv, DownInv, InsertedInv, OutcomeInv, ToldInv, Critical, Inserted

\* Only the holder of mu moves inside create(), and it alone changes the map.
LEMMA InvStep == IInv /\ [Next]_vars => IInv'
<1> SUFFICES ASSUME IInv, [Next]_vars PROVE IInv'
  OBVIOUS
<1>0. TypeInv'
  BY TypeStep DEF IInv
<1>a. TypeInv
  BY DEF IInv
<1> USE <1>0, <1>a DEF IInv, Critical, Inserted
<1>1. CASE Start
  <2>1. \A p \in Handlers : pc[p] = "idle" /\ outcome[p] = "none"
    BY <1>1 DEF Start, TypeInv, BusyInv, OutcomeInv
  <2>2. told = {}
    BY <1>1 DEF Start, TypeInv, DownInv
  <2> QED
    BY <1>1, <2>1, <2>2 DEF Start, LockInv, InsertedInv, OutcomeInv, ToldInv, DownInv
<1>2. CASE Crash
  BY <1>2, NobodyAssumption DEF Crash, LockInv, InsertedInv, OutcomeInv, ToldInv, DownInv
<1>3. ASSUME NEW p \in Handlers, NEW r \in Requests, Invoke(p, r) PROVE IInv'
  <2>1. outcome[p] = "none" /\ running
    BY <1>3 DEF Invoke, OutcomeInv
  <2> QED
    BY <1>3, <2>1 DEF Invoke, Goto, TypeInv, TypeOK, LockInv, InsertedInv, OutcomeInv, ToldInv, DownInv
<1>4. ASSUME NEW p \in Handlers, Create(p) PROVE IInv'
  <2> USE DEF Goto, Return, TypeInv, TypeOK
  <2>0. running /\ running' /\ DownInv'
    BY <1>4 DEF Create, Write, Lock, Duplicate, Insert, KeepInMemory, Truncate, WritePart, 
         WriteAll, Close, PrepareFails, WriteFails, CloseFails, Rollback, BusyInv, DownInv
  <2>1. CASE Lock(p)
    BY <2>0, <2>1, NobodyAssumption DEF Lock, LockInv, InsertedInv, OutcomeInv, ToldInv
  <2>2. CASE Duplicate(p)
    <3>1. \A q \in Handlers : q # p => pc[q] \notin Critical
      BY <2>2 DEF Duplicate, LockInv
    <3> QED
      BY <2>0, <2>2, <3>1, NobodyAssumption DEF Duplicate, LockInv, InsertedInv, OutcomeInv, ToldInv
  <2>3. CASE Insert(p)
    <3>1. \A q \in Handlers : q # p => pc[q] \notin Critical
      BY <2>3 DEF Insert, LockInv
    <3>2. req[p] \in Requests /\ req[p].name \in Names /\ req[p].def \in Defs
      BY <2>3, RequestType DEF Insert, BusyInv
    <3>3. \A t \in told : t[1] # req[p].name
      BY <2>3, NoDefAssumption DEF Insert, ToldInv
    <3>4. \A q \in Handlers : outcome[q] \in {"created", "exists"} => req[q].name # req[p].name
      BY <2>3, NoDefAssumption DEF Insert, OutcomeInv, BusyInv, Requests
    <3>5. LockInv' /\ InsertedInv'
      BY <2>3, <3>1, <3>2, <3>3, <3>4 DEF Insert, LockInv, InsertedInv, Maps
    <3>6. OutcomeInv'
      BY <2>3, <3>2, <3>4 DEF Insert, OutcomeInv, Maps
    <3>7. ToldInv'
      BY <2>3, <3>3 DEF Insert, ToldInv, Maps
    <3> QED
      BY <2>0, <3>5, <3>6, <3>7
  <2>4. CASE KeepInMemory(p) \/ Close(p)
    <3>1. \A q \in Handlers : q # p => pc[q] \notin Critical
      BY <2>4 DEF KeepInMemory, Close, LockInv
    <3>2. services[req[p].name] = req[p].def
      BY <2>4 DEF KeepInMemory, Close, InsertedInv
    <3> QED
      BY <2>0, <2>4, <3>1, <3>2, NobodyAssumption 
      DEF KeepInMemory, Close, LockInv, InsertedInv, OutcomeInv, ToldInv
  <2>5. CASE Truncate(p) \/ WritePart(p) \/ WriteAll(p)
    BY <2>0, <2>5 
    DEF Truncate, WritePart, WriteAll, LockInv, InsertedInv, OutcomeInv, ToldInv
  <2>6. CASE PrepareFails(p) \/ WriteFails(p) \/ CloseFails(p)
    <3>1. \A q \in Handlers : q # p => pc[q] \notin Critical
      BY <2>6 DEF PrepareFails, WriteFails, CloseFails, LockInv
    <3>2. /\ pc[p] \in Inserted
          /\ Rollback(p)
      BY <2>6 DEF PrepareFails, WriteFails, CloseFails
    <3>3. LockInv' /\ InsertedInv'
      BY <3>1, <3>2, NobodyAssumption DEF Rollback, LockInv, InsertedInv
    <3>4. OutcomeInv'
      BY <3>2 DEF Rollback, OutcomeInv, InsertedInv, Maps
    <3>5. ToldInv'
      BY <3>2 DEF Rollback, ToldInv, InsertedInv, Maps
    <3> QED
      BY <2>0, <3>3, <3>4, <3>5
  <2> QED 
    BY <1>4, <2>1, <2>2, <2>3, <2>4, <2>5, <2>6 DEF Create, Write
<1>5. ASSUME NEW p \in Handlers, Respond(p) PROVE IInv'
  <2>1. running
    BY <1>5 DEF Respond, TypeInv, BusyInv
  <2>2. ToldInv'
    BY <1>5 DEF Respond, ToldInv, OutcomeInv
  <2>3. LockInv' /\ OutcomeInv' /\ DownInv'
    BY <1>5, <2>1 DEF Respond, Goto, TypeInv, TypeOK, LockInv, OutcomeInv, DownInv
  <2>4. InsertedInv'
    BY <1>5 DEF Respond, Goto, TypeInv, TypeOK, InsertedInv
  <2> QED
    BY <2>2, <2>3, <2>4
<1>6. ASSUME NEW S, CanRead, Show(S), S \subseteq Pairs(services) PROVE IInv'
  <2>1. \A p \in Handlers : pc[p] \notin Critical
    BY <1>6, NobodyAssumption DEF CanRead, LockInv
  <2>2. \A t \in S : services[t[1]] = t[2]
    BY <1>6, PairsAre, PairsType DEF TypeInv, TypeOK
  <2> QED
    BY <1>6, <2>1, <2>2 DEF CanRead, Show, LockInv, InsertedInv, OutcomeInv, ToldInv, DownInv
<1>7. ASSUME NEW n \in Names, Get(n) PROVE IInv'
  BY <1>6, <1>7 DEF Get, Pairs, Registered
<1>8. CASE List
  BY <1>6, <1>8 DEF List
<1>9. CASE UNCHANGED vars
  BY <1>9 DEF vars, LockInv, InsertedInv, OutcomeInv, ToldInv, DownInv
<1> QED 
  BY <1>1, <1>2, <1>3, <1>4, <1>5, <1>7, <1>8, <1>9 DEF Next

LEMMA Invariance == Spec => []IInv
BY InvInit, InvStep, PTL DEF Spec

\* Every variable keeps its type, only a live process has calls in progress, and
\* there is a result only where a request was made to this process and its call has
\* returned: a crash leaves none behind.  (store.go:36-53)
THEOREM TypeCorrect == Spec => [](TypeOK /\ BusyInv /\ ResultsAreCalls)
<1>1. IInv => TypeOK /\ BusyInv /\ ResultsAreCalls
  BY DEF IInv, TypeInv, BusyInv, OutcomeInv, ResultsAreCalls
<1> QED
  BY <1>1, Invariance, PTL

\* While a process lives, what it has shown to any client it still serves,
\* whatever fails and whoever else is registering.  (store.go:36-77)
THEOREM StoreKeepsItsWord == Spec => []ToldIsServed
<1>1. IInv => ToldIsServed
  BY PairsAre DEF IInv, TypeInv, TypeOK, ToldInv, ToldIsServed
<1> QED 
  BY <1>1, Invariance, PTL

\* A name refused as a duplicate is a name that is registered and stays so.
\* (store.go:40-49)
THEOREM ConflictsAreReal == Spec => []ConflictIsReal
<1>1. IInv => ConflictIsReal
  <2> SUFFICES ASSUME IInv, NEW p \in Handlers, outcome[p] = "exists"
               PROVE  req[p].name \in Registered(Committed)
    BY DEF ConflictIsReal
  <2>1. running /\ req[p].name \in Names /\ services[req[p].name] # NoDef
    BY RequestType DEF IInv, OutcomeInv, TypeInv, BusyInv
  <2>2. ~Uncommitted(req[p].name)
    BY DEF IInv, InsertedInv, Inserted, Uncommitted
  <2> QED 
    BY <2>1, <2>2 DEF Committed, Registered
<1> QED 
  BY <1>1, Invariance, PTL

-----------------------------------------------------------------------------
(* What is durable when the file system does not fail halfway. *)

\* Clients rely on what is registered, and the file is that map except while
\* it is being rewritten.
DurableInv == /\ \A t \in everTold : Committed[t[1]] = t[2]
              /\ (\A p \in Handlers : pc[p] # "write") => file.defs = Committed

\* What is registered, in terms of the map: all of it, but for the entry that
\* is being written.
Writing(p) == pc[p] \in {"persist", "write"}
CommittedForm == 
  /\ Committed \in Maps
  /\ running /\ (\A p \in Handlers : ~Writing(p)) => Committed = services
  /\ \A p \in Handlers : Writing(p) => Committed = [services EXCEPT ![req[p].name] = NoDef]

LEMMA CommittedIs == IInv => CommittedForm
<1> SUFFICES ASSUME IInv PROVE CommittedForm
  OBVIOUS
<1> USE DEF IInv, TypeInv, TypeOK
<1>1. Contents(file) \in Maps
  BY EmptyMap DEF Contents, Files
<1>2. Committed \in Maps
  BY <1>1 DEF Committed, Maps
<1>3. ASSUME running, \A p \in Handlers : ~Writing(p)
      PROVE  Committed = services
  BY <1>3 DEF Committed, Uncommitted, Writing, Maps
<1>4. ASSUME NEW p \in Handlers, Writing(p)
      PROVE  Committed = [services EXCEPT ![req[p].name] = NoDef]
  <2>1. running
    BY <1>4 DEF BusyInv, Writing
  <2>2. \A q \in Handlers : q # p => pc[q] \notin {"persist", "write"}
    BY <1>4 DEF LockInv, Critical, Writing
  <2>3. \A n \in Names : Uncommitted(n) <=> n = req[p].name
    BY <1>4, <2>2 DEF Uncommitted, Writing
  <2> QED 
    BY <2>1, <2>3 DEF Committed, Maps
<1> QED 
  BY <1>2, <1>3, <1>4 DEF CommittedForm

\* Whoever may read the map reads the registry, with or without a file and whatever
\* failed before: the lock hides every entry that is not registered yet.  Listings and
\* deployments start from the registry DeployPath starts from.  (store.go:55-84)
THEOREM ReadersSeeTheRegistry == Spec => [](CanRead => services = Committed)
<1>1. IInv /\ CanRead => services = Committed
  <2> SUFFICES ASSUME IInv, CanRead PROVE services = Committed
    OBVIOUS
  <2>1. \A p \in Handlers : lock # p
    BY NobodyAssumption DEF CanRead
  <2>2. \A p \in Handlers : ~Writing(p)
    BY <2>1 DEF IInv, LockInv, Critical, Writing
  <2> QED
    BY <2>2, CommittedIs DEF CommittedForm, CanRead
<1> QED
  BY <1>1, Invariance, PTL

LEMMA DurableInit == Persistent /\ Init => DurableInv
<1> SUFFICES ASSUME Persistent, Init PROVE DurableInv
  OBVIOUS
<1>1. file.defs = Committed
  BY DEF Init, Committed, Contents, File
<1> QED 
  BY <1>1 DEF Init, DurableInv

\* Completing a write is the only step that changes what is registered, and it
\* changes the file and the registry alike.
LEMMA DurableStep == 
  ASSUME Persistent, ~StorageFaults, ~CrashInWrite
  PROVE  IInv /\ IInv' /\ DurableInv /\ [Next]_vars => DurableInv'
<1> SUFFICES ASSUME IInv, IInv', DurableInv, [Next]_vars PROVE DurableInv'
  OBVIOUS
<1>a. CommittedForm
  BY CommittedIs
<1>b. CommittedForm'
  BY CommittedIs, PTL
<1>c. TypeInv /\ TypeInv'
  BY DEF IInv
\* A step that leaves the registry, the file and the set of writers alone.
<1>d. ASSUME Committed' = Committed, file' = file, everTold' = everTold,
             (\A p \in Handlers : pc'[p] # "write") => (\A p \in Handlers : pc[p] # "write")
      PROVE  DurableInv'
  BY <1>d DEF DurableInv
\* ... and, when nobody is writing, the map.
<1>e. ASSUME running, running', services' = services, file' = file, everTold' = everTold,
             \A p \in Handlers : ~Writing(p) /\ ~Writing(p)'
      PROVE  DurableInv'
  BY <1>a, <1>b, <1>d, <1>e DEF Writing, CommittedForm
<1> USE DEF TypeInv, TypeOK, Writing, CommittedForm
<1>1. CASE Start
  <2>1. \A p \in Handlers : pc[p] = "idle"
    BY <1>1, <1>c DEF Start, BusyInv
  <2>2. Committed' = Committed
    BY <1>1, <1>b, <2>1 DEF Start, Committed
  <2> QED 
    BY <1>1, <1>d, <2>2 DEF Start
<1>2. CASE Crash
  <2>1. \A p \in Handlers : pc[p] # "write"
    BY <1>2 DEF Crash
  <2>2. Committed' = Committed
    BY <1>2, <2>1 DEF Crash, Committed, Contents, DurableInv
  <2> QED 
    BY <1>2, <1>d, <2>1, <2>2 DEF Crash
<1>3. ASSUME NEW p \in Handlers, NEW r \in Requests, Invoke(p, r) PROVE DurableInv'
  <2>1. \A n \in Names : Uncommitted(n)' <=> Uncommitted(n)
    BY <1>3, <1>c DEF Invoke, Goto, Uncommitted
  <2>2. Committed' = Committed
    BY <1>3, <2>1 DEF Invoke, Committed, Contents
  <2> QED 
    BY <1>3, <1>c, <1>d, <2>2 DEF Invoke, Goto
<1>4. ASSUME NEW p \in Handlers, Create(p) PROVE DurableInv'
  <2> USE DEF Goto, Return
  <2>0. running /\ running' /\ req' = req /\ req[p] \in Requests
    BY <1>4, <1>c DEF Create, Write, Lock, Duplicate, Insert, KeepInMemory, Truncate, WritePart, 
         WriteAll, Close, PrepareFails, WriteFails, CloseFails, Rollback, BusyInv
  <2>1. pc[p] \in Critical => \A q \in Handlers : q # p => pc[q] \notin Critical
    BY DEF IInv, LockInv
  <2>2. CASE Lock(p)
    <3>1. \A q \in Handlers : ~Writing(q) /\ ~Writing(q)'
      BY <1>c, <2>2, NobodyAssumption DEF Lock, IInv, LockInv, Critical
    <3> QED 
      BY <2>0, <2>2, <1>e, <3>1 DEF Lock
  <2>3. CASE Duplicate(p)
    <3>1. \A q \in Handlers : ~Writing(q) /\ ~Writing(q)'
      BY <1>c, <2>1, <2>3 DEF Duplicate, Critical
    <3> QED 
      BY <2>0, <2>3, <1>e, <3>1 DEF Duplicate
  <2>4. CASE Insert(p)
    <3>1. \A q \in Handlers : ~Writing(q) /\ pc[q] # "write" /\ pc'[q] # "write"
      BY <1>c, <2>1, <2>4 DEF Insert, Critical
    <3>2. pc'[p] = "persist" /\ req'[p] = req[p]
      BY <1>c, <2>4 DEF Insert
    <3>3. Committed = services /\ Committed' = [services' EXCEPT ![req[p].name] = NoDef]
      BY <1>a, <1>b, <2>0, <3>1, <3>2
    <3>4. Committed' = Committed
      BY <1>c, <2>4, <3>3 DEF Insert, Maps
    <3> QED 
      BY <2>4, <1>d, <3>1, <3>4 DEF Insert
  <2>5. CASE Truncate(p) \/ WritePart(p)
    <3>1. Writing(p) /\ Writing(p)' /\ pc'[p] = "write"
      BY <1>c, <2>5 DEF Truncate, WritePart
    <3>2. Committed' = Committed
      BY <1>a, <1>b, <2>0, <2>5, <3>1 DEF Truncate, WritePart
    <3> QED 
      BY <2>5, <3>1, <3>2 DEF Truncate, WritePart, DurableInv
  <2>6. CASE WriteAll(p)
    <3>1. Committed = [services EXCEPT ![req[p].name] = NoDef]
      BY <1>a, <2>6 DEF WriteAll
    <3>2. \A q \in Handlers : ~Writing(q)'
      BY <1>c, <2>1, <2>6 DEF WriteAll, Critical
    <3>3. Committed' = services /\ file'.defs = services
      BY <1>b, <2>0, <2>6, <3>2 DEF WriteAll, Snapshot
    <3>4. \A t \in everTold : services[t[1]] = t[2]
      <4> SUFFICES ASSUME NEW t \in everTold PROVE services[t[1]] = t[2]
        OBVIOUS
      <4>1. t[1] \in Names /\ t[2] \in Defs /\ Committed[t[1]] = t[2]
        BY <1>c DEF DurableInv
      <4> QED 
        BY <4>1, <3>1, <1>c, NoDefAssumption DEF Maps
    <3> QED 
      BY <2>6, <3>3, <3>4 DEF WriteAll, DurableInv
  <2>7. CASE Close(p)
    <3>1. \A q \in Handlers : ~Writing(q) /\ ~Writing(q)'
      BY <1>c, <2>1, <2>7 DEF Close, Critical
    <3> QED 
      BY <2>0, <2>7, <1>e, <3>1 DEF Close
  <2>8. CASE PrepareFails(p)
    <3>1. Committed = [services EXCEPT ![req[p].name] = NoDef]
      BY <1>a, <2>8 DEF PrepareFails
    <3>2. \A q \in Handlers : ~Writing(q)' /\ pc[q] # "write" /\ pc'[q] # "write"
      BY <1>c, <2>1, <2>8 DEF PrepareFails, Rollback, Critical
    <3>3. Committed' = Committed
      BY <1>b, <2>0, <2>8, <3>1, <3>2 DEF PrepareFails, Rollback
    <3> QED 
      BY <2>8, <1>d, <3>2, <3>3 DEF PrepareFails, Rollback
  <2> QED 
    BY <1>4, <2>2, <2>3, <2>4, <2>5, <2>6, <2>7, <2>8 
    DEF Create, Write, KeepInMemory, WriteFails, CloseFails
<1>5. ASSUME NEW p \in Handlers, Respond(p) PROVE DurableInv'
  <2>1. running /\ running'
    BY <1>5, <1>c DEF Respond, BusyInv
  <2>2. \A n \in Names : Uncommitted(n)' <=> Uncommitted(n)
    BY <1>5, <1>c DEF Respond, Goto, Uncommitted
  <2>3. Committed' = Committed
    BY <1>5, <2>1, <2>2 DEF Respond, Committed
  <2>4. outcome[p] = "created" => Committed[req[p].name] = req[p].def
    <3>1. req[p].name \in Names
      BY <1>5, <1>c, RequestType DEF Respond, BusyInv
    <3>2. outcome[p] = "created" => services[req[p].name] = req[p].def /\ ~Uncommitted(req[p].name)
      BY DEF IInv, OutcomeInv, InsertedInv, Inserted, Uncommitted
    <3> QED 
      BY <2>1, <3>1, <3>2 DEF Committed
  <2>5. \A t \in everTold' : Committed'[t[1]] = t[2]
    BY <1>5, <2>3, <2>4 DEF Respond, DurableInv
  <2>6. (\A q \in Handlers : pc'[q] # "write") => (\A q \in Handlers : pc[q] # "write")
    BY <1>5, <1>c DEF Respond, Goto
  <2> QED 
    BY <1>5, <2>3, <2>5, <2>6 DEF Respond, DurableInv
<1>6. ASSUME NEW S, CanRead, Show(S), S \subseteq Pairs(services) PROVE DurableInv'
  <2>1. \A p \in Handlers : ~Writing(p) /\ pc[p] # "write"
    BY <1>6, NobodyAssumption DEF CanRead, IInv, LockInv, Critical
  <2>2. \A t \in S : services[t[1]] = t[2]
    BY <1>6, <1>c, PairsAre, PairsType
  <2>3. Committed = services /\ Committed' = services
    BY <1>6, <1>a, <1>b, <2>1 DEF CanRead, Show
  <2> QED 
    BY <1>6, <2>1, <2>2, <2>3 DEF Show, DurableInv
<1>7. ASSUME NEW n \in Names, Get(n) PROVE DurableInv'
  BY <1>6, <1>7 DEF Get, Pairs, Registered
<1>8. CASE List
  BY <1>6, <1>8 DEF List
<1>9. CASE UNCHANGED vars
  BY <1>9 DEF vars, DurableInv, Committed, Uncommitted, Contents
<1> QED 
  BY <1>1, <1>2, <1>3, <1>4, <1>5, <1>7, <1>8, <1>9 DEF Next

\* With a store path, and a file system and a kernel that let a started write
\* finish, nothing a client was ever shown is lost by restarts.
\* (store.go:86-143, main_test.go:134-180)
THEOREM RestartsLoseNothing ==
  ASSUME Persistent, ~StorageFaults, ~CrashInWrite
  PROVE  Spec => []SurvivesRestart
<1>1. IInv /\ DurableInv => SurvivesRestart
  BY PairsAre, CommittedIs DEF IInv, TypeInv, TypeOK, CommittedForm, DurableInv, SurvivesRestart
<1>2. Init => DurableInv
  BY DurableInit
<1>3. IInv /\ IInv' /\ DurableInv /\ [Next]_vars => DurableInv'
  BY DurableStep
<1> QED 
  BY <1>1, <1>2, <1>3, Invariance, PTL DEF Spec

-----------------------------------------------------------------------------
(* The store implements Registry. *)

\* A handler has a request while it is busy and a result once it returned.
CallInv == \A p \in Handlers : /\ pc[p] = "idle" => req[p] = NoRequest
                               /\ pc[p] = "returned" => outcome[p] # "none"

\* Every step keeps CallInv.
LEMMA CallStep == TypeInv /\ CallInv /\ [Next]_vars => CallInv'
<1> SUFFICES ASSUME TypeInv, CallInv, [Next]_vars PROVE CallInv'
  OBVIOUS
<1> USE DEF TypeInv, TypeOK, CallInv, Goto
<1>1. CASE Start \/ UNCHANGED vars \/ List \/ \E n \in Names : Get(n)
  BY <1>1 DEF Start, vars, List, Get, Show
<1>2. CASE Crash
  BY <1>2 DEF Crash
<1>3. ASSUME NEW p \in Handlers, NEW r \in Requests, Invoke(p, r) PROVE CallInv'
  BY <1>3 DEF Invoke
<1>4. ASSUME NEW p \in Handlers, Create(p) PROVE CallInv'
  BY <1>4 DEF Create, Write, Lock, Duplicate, Insert, KeepInMemory, Truncate, WritePart, 
       WriteAll, Close, PrepareFails, WriteFails, CloseFails, Rollback, Return
<1>5. ASSUME NEW p \in Handlers, Respond(p) PROVE CallInv'
  BY <1>5 DEF Respond
<1> QED 
  BY <1>1, <1>2, <1>3, <1>4, <1>5 DEF Next

\* What a request came to, as Registry sees it.
AbsOutcome == [p \in Handlers |-> IF pc[p] = "close" THEN "created" ELSE outcome[p]]
AbsTold == IF Persistent THEN everTold ELSE told

RefInv == IInv /\ CallInv /\ (Persistent => DurableInv)

\* RefInv always holds.
LEMMA RefInvHolds ==
  ASSUME ~StorageFaults, ~CrashInWrite
  PROVE  Spec => []RefInv
<1>1. Init => CallInv /\ (Persistent => DurableInv)
  BY DurableInit DEF Init, CallInv
<1>2. IInv /\ CallInv /\ [Next]_vars => CallInv'
  BY CallStep DEF IInv
<1>3. IInv /\ IInv' /\ (Persistent => DurableInv) /\ [Next]_vars => (Persistent => DurableInv)'
  BY DurableStep
<1> QED 
  BY <1>1, <1>2, <1>3, Invariance, PTL DEF Spec, RefInv

\* A step that Registry does not see.
LEMMA Unseen ==
  ASSUME Committed' = Committed, AbsOutcome' = AbsOutcome, req' = req, told' = told,
         everTold' = everTold
  PROVE  UNCHANGED Abs!vars
BY DEF Abs!vars, AbsOutcome

\* A step of create() commits, refuses, fails, or is not seen: the entry counts
\* from the step that completes the file.
LEMMA CreateIsRegistryStep ==
  ASSUME ~StorageFaults, RefInv, RefInv', NEW p \in Handlers, Create(p)
  PROVE  Abs!Commit(p) \/ Abs!Conflict(p) \/ Abs!Fail(p) \/ UNCHANGED Abs!vars
<1> DEFINE n == req[p].name
<1>a. TypeInv /\ TypeInv' /\ CommittedForm /\ CommittedForm'
  BY CommittedIs, PTL DEF RefInv, IInv
<1>b. /\ running /\ running' /\ req' = req /\ told' = told /\ everTold' = everTold
      /\ req[p] \in Requests /\ n \in Names /\ req[p].def \in Defs /\ req[p] # NoRequest
      /\ pc \in [Handlers -> Locations] /\ outcome[p] = "none"
      /\ services \in Maps /\ Committed \in Maps
      /\ outcome \in [Handlers -> {"none", "created", "exists", "failed"}]
  <2>1. pc[p] # "idle" /\ pc[p] # "returned" /\ UNCHANGED <<running, req, told, everTold>>
    BY <1>a DEF TypeInv, TypeOK, Create, Write, Lock, Duplicate, Insert, KeepInMemory, Truncate, WritePart,
         WriteAll, Close, PrepareFails, WriteFails, CloseFails, Rollback, Return
  <2> QED 
    BY <1>a, <2>1, RequestType DEF TypeInv, TypeOK, BusyInv, RefInv, IInv, OutcomeInv, CommittedForm
<1>c. pc[p] \in Critical => \A q \in Handlers : q # p => ~Writing(q)
  BY DEF RefInv, IInv, LockInv, Critical, Writing
<1>d. ASSUME Committed' = Committed, AbsOutcome' = AbsOutcome PROVE UNCHANGED Abs!vars
  BY <1>b, <1>d, Unseen
<1>e. ASSUME NEW o \in {"created", "exists", "failed"}, pc[p] # "close",
             AbsOutcome' = [AbsOutcome EXCEPT ![p] = o]
      PROVE  Abs!Undecided(p) /\ Abs!Decide(p, o)
  BY <1>b, <1>e DEF Abs!Undecided, Abs!Decide, AbsOutcome, Abs!NoRequest, NoRequest
<1> USE DEF Goto, Return
<1>1. CASE Lock(p)
  <2>1. \A q \in Handlers : ~Writing(q) /\ ~Writing(q)'
    BY <1>b, <1>1, NobodyAssumption DEF Lock, RefInv, IInv, LockInv, Critical, Writing
  <2>2. Committed' = Committed
    BY <1>a, <1>b, <1>1, <2>1 DEF Lock, CommittedForm
  <2>3. AbsOutcome' = AbsOutcome
    BY <1>b, <1>1 DEF Lock, AbsOutcome
  <2> QED 
    BY <1>d, <2>2, <2>3
<1>2. CASE Duplicate(p)
  <2>1. \A q \in Handlers : ~Writing(q) /\ ~Writing(q)'
    BY <1>b, <1>c, <1>2 DEF Duplicate, Critical, Writing
  <2>2. Committed = services /\ Committed' = services
    BY <1>a, <1>b, <1>2, <2>1 DEF Duplicate, CommittedForm
  <2>3. AbsOutcome' = [AbsOutcome EXCEPT ![p] = "exists"]
    BY <1>b, <1>2 DEF Duplicate, AbsOutcome
  <2> QED 
    BY <1>2, <1>e, <2>2, <2>3 DEF Duplicate, Abs!Conflict
<1>3. CASE Insert(p)
  <2>1. \A q \in Handlers : ~Writing(q)
    BY <1>c, <1>3 DEF Insert, Critical, Writing
  <2>2. Writing(p)'
    BY <1>b, <1>3 DEF Insert, Writing
  <2>3. Committed = services /\ Committed' = [services' EXCEPT ![n] = NoDef]
    BY <1>a, <1>b, <2>1, <2>2 DEF CommittedForm
  <2>4. Committed' = Committed
    BY <1>b, <1>3, <2>3 DEF Insert, Maps
  <2>5. AbsOutcome' = AbsOutcome
    BY <1>b, <1>3 DEF Insert, AbsOutcome
  <2> QED 
    BY <1>d, <2>4, <2>5
\* The instant of the commitment: the whole array is in the file, or there is none.
<1>4. CASE KeepInMemory(p) \/ WriteAll(p)
  <2>1. Writing(p) /\ services' = services /\ pc[p] # "close"
    BY <1>4 DEF KeepInMemory, WriteAll, Writing
  <2>2. \A q \in Handlers : ~Writing(q)'
    BY <1>b, <1>c, <1>4 DEF KeepInMemory, WriteAll, Writing, Critical
  <2>3. Committed = [services EXCEPT ![n] = NoDef] /\ Committed' = services
    BY <1>a, <1>b, <2>1, <2>2 DEF CommittedForm
  <2>4. services[n] = req[p].def
    BY <2>1 DEF RefInv, IInv, InsertedInv, Inserted, Writing
  <2>5. Committed[n] = NoDef /\ Committed' = [Committed EXCEPT ![n] = req[p].def]
    BY <1>b, <2>3, <2>4 DEF Maps
  <2>6. AbsOutcome' = [AbsOutcome EXCEPT ![p] = "created"]
    BY <1>b, <1>4 DEF KeepInMemory, WriteAll, AbsOutcome
  <2> QED 
    BY <1>e, <2>1, <2>5, <2>6 DEF Abs!Commit
<1>5. CASE Truncate(p) \/ WritePart(p)
  <2>1. Writing(p) /\ Writing(p)' /\ services' = services
    BY <1>b, <1>5 DEF Truncate, WritePart, Writing
  <2>2. Committed' = Committed
    BY <1>a, <1>b, <2>1 DEF CommittedForm
  <2>3. AbsOutcome' = AbsOutcome
    BY <1>b, <1>5 DEF Truncate, WritePart, AbsOutcome
  <2> QED 
    BY <1>d, <2>2, <2>3
<1>6. CASE Close(p)
  <2>1. \A q \in Handlers : ~Writing(q) /\ ~Writing(q)'
    BY <1>b, <1>c, <1>6 DEF Close, Critical, Writing
  <2>2. Committed' = Committed
    BY <1>a, <1>b, <1>6, <2>1 DEF Close, CommittedForm
  <2>3. AbsOutcome' = AbsOutcome
    BY <1>b, <1>6 DEF Close, AbsOutcome
  <2> QED 
    BY <1>d, <2>2, <2>3
<1>7. CASE PrepareFails(p)
  <2>1. Writing(p) /\ pc[p] # "close" /\ services' = [services EXCEPT ![n] = NoDef]
    BY <1>7 DEF PrepareFails, Rollback, Writing
  <2>2. \A q \in Handlers : ~Writing(q)'
    BY <1>b, <1>c, <1>7 DEF PrepareFails, Rollback, Writing, Critical
  <2>3. Committed' = Committed
    BY <1>a, <1>b, <2>1, <2>2 DEF CommittedForm
  <2>4. AbsOutcome' = [AbsOutcome EXCEPT ![p] = "failed"]
    BY <1>b, <1>7 DEF PrepareFails, Rollback, AbsOutcome
  <2> QED 
    BY <1>e, <2>1, <2>3, <2>4 DEF Abs!Fail
<1> QED 
  BY <1>1, <1>2, <1>3, <1>4, <1>5, <1>6, <1>7 DEF Create, Write, WriteFails, CloseFails

\* The registry changes in create() and when the process dies.
LEMMA CommittedElsewhere ==
  ASSUME RefInv, RefInv',
         \/ Start \/ UNCHANGED vars
         \/ \E p \in Handlers, r \in Requests : Invoke(p, r)
         \/ \E p \in Handlers : Respond(p)
         \/ \E S : CanRead /\ Show(S)
  PROVE  Committed' = Committed
<1>0. /\ TypeInv /\ pc \in [Handlers -> Locations]
      /\ req \in [Handlers -> Requests \cup {NoRequest}]
  BY DEF RefInv, IInv, TypeInv, TypeOK
<1>a. CommittedForm /\ CommittedForm'
  BY CommittedIs, PTL DEF RefInv, IInv
<1>1. CASE Start
  <2>1. \A p \in Handlers : pc[p] = "idle"
    BY <1>1, <1>0 DEF Start, TypeInv, BusyInv
  <2> QED
    BY <1>1, <1>a, <2>1 DEF Start, Committed, Writing, CommittedForm
<1>2. CASE UNCHANGED vars
  BY <1>2 DEF vars, Committed, Uncommitted, Contents
<1>3. ASSUME NEW p \in Handlers, NEW r \in Requests, Invoke(p, r) PROVE Committed' = Committed
  <2>1. \A m \in Names : Uncommitted(m)' <=> Uncommitted(m)
    BY <1>3, <1>0 DEF Invoke, Goto, Uncommitted
  <2> QED
    BY <1>3, <2>1 DEF Invoke, Committed, Contents
<1>4. ASSUME NEW p \in Handlers, Respond(p) PROVE Committed' = Committed
  <2>1. running /\ running'
    BY <1>4, <1>0 DEF Respond, TypeInv, BusyInv
  <2>2. \A m \in Names : Uncommitted(m)' <=> Uncommitted(m)
    BY <1>4, <1>0 DEF Respond, Goto, Uncommitted
  <2> QED
    BY <1>4, <2>1, <2>2 DEF Respond, Committed
<1>5. ASSUME NEW S, CanRead, Show(S) PROVE Committed' = Committed
  <2>1. \A m \in Names : Uncommitted(m)' <=> Uncommitted(m)
    BY <1>5 DEF Show, Uncommitted
  <2> QED
    BY <1>5, <2>1 DEF CanRead, Show, Committed
<1> QED
  BY <1>1, <1>2, <1>3, <1>4, <1>5

\* A process that dies leaves all of it, or takes all of it along.
LEMMA CrashCommitted ==
  ASSUME ~CrashInWrite, RefInv, Crash
  PROVE  Committed' = IF Persistent THEN Committed ELSE NoServices
<1>1. Persistent => Committed' = Committed
  BY DEF Crash, RefInv, DurableInv, Committed, Contents
<1>2. ~Persistent => Committed' = NoServices
  BY DEF Crash, Committed, Contents
<1> QED
  BY <1>1, <1>2

\* Each step is one of Registry or is not seen.
LEMMA RegistryStep ==
  ASSUME ~StorageFaults, ~CrashInWrite, RefInv, RefInv', [Next]_vars
  PROVE  [Abs!Next]_(Abs!vars)
<1>a. /\ TypeInv /\ TypeInv' /\ TypeOK /\ CommittedForm /\ CommittedForm'
      /\ pc \in [Handlers -> Locations]
      /\ req \in [Handlers -> Requests \cup {NoRequest}]
      /\ outcome \in [Handlers -> {"none", "created", "exists", "failed"}]
  BY CommittedIs, PTL DEF RefInv, IInv, TypeInv, TypeOK
<1>1. CASE Start
  <2>1. Committed' = Committed
    BY <1>1, CommittedElsewhere
  <2>2. AbsOutcome' = AbsOutcome
    BY <1>1 DEF Start, AbsOutcome
  <2> QED 
    BY <1>1, <2>1, <2>2, Unseen DEF Start
<1>2. CASE Crash
  <2>1. Persistent => Committed' = Committed
    BY <1>2, CrashCommitted
  <2>2. ~Persistent => Committed' = NoServices /\ told' = {}
    BY <1>2, CrashCommitted DEF Crash
  <2>3. AbsOutcome' = [p \in Handlers |-> "none"] /\ req' = [p \in Handlers |-> NoRequest]
    BY <1>2 DEF Crash, AbsOutcome
  <2>4. Abs!Restart
    BY <1>2, <2>1, <2>2, <2>3 
    DEF Crash, Abs!Restart, AbsOutcome, Abs!NoServices, NoServices, Abs!NoRequest, NoRequest
  <2> QED 
    BY <2>4 DEF Abs!Next
<1>3. ASSUME NEW p \in Handlers, NEW r \in Requests, Invoke(p, r) PROVE Abs!Next
  <2>2. Committed' = Committed
    BY <1>3, CommittedElsewhere
  <2>3. AbsOutcome' = AbsOutcome
    BY <1>3, <1>a DEF Invoke, Goto, AbsOutcome
  <2>4. req[p] = NoRequest
    BY <1>3 DEF Invoke, RefInv, CallInv
  <2>5. Abs!Invoke(p, r)
    BY <1>3, <2>2, <2>3, <2>4 DEF Invoke, Abs!Invoke, AbsOutcome, Abs!NoRequest, NoRequest
  <2> QED 
    BY <2>5 DEF Abs!Next, Abs!Requests, Requests
<1>4. ASSUME NEW p \in Handlers, Create(p) PROVE Abs!Next \/ UNCHANGED Abs!vars
  BY <1>4, CreateIsRegistryStep DEF Abs!Next
<1>5. ASSUME NEW p \in Handlers, Respond(p) PROVE Abs!Next
  <2>3. Committed' = Committed
    BY <1>5, CommittedElsewhere
  <2>4. AbsOutcome[p] = outcome[p] /\ outcome[p] # "none"
    BY <1>5 DEF Respond, AbsOutcome, RefInv, CallInv
  <2>5. AbsOutcome' = [AbsOutcome EXCEPT ![p] = "none"]
    BY <1>5, <1>a DEF Respond, Goto, AbsOutcome
  <2>6. AbsTold' = IF AbsOutcome[p] = "created" THEN AbsTold \cup {<<req[p].name, req[p].def>>}
                                               ELSE AbsTold
    BY <1>5, <2>4 DEF Respond, AbsTold
  <2>7. Abs!Respond(p)
    BY <1>5, <2>3, <2>4, <2>5, <2>6 
    DEF Respond, Abs!Respond, AbsOutcome, AbsTold, Abs!NoRequest, NoRequest
  <2> QED 
    BY <2>7 DEF Abs!Next
<1>6. ASSUME NEW S, CanRead, Show(S), S \subseteq Pairs(services) PROVE Abs!Next
  <2>1. \A p \in Handlers : ~Writing(p) /\ ~Writing(p)'
    BY <1>6, NobodyAssumption DEF CanRead, Show, RefInv, IInv, LockInv, Critical, Writing
  <2>2. Committed = services /\ Committed' = services
    BY <1>6, <1>a, <2>1 DEF CanRead, Show, CommittedForm
  <2>3. AbsOutcome' = AbsOutcome /\ AbsTold' = AbsTold \cup S
    BY <1>6 DEF Show, AbsOutcome, AbsTold
  <2>4. S \in SUBSET Abs!Pairs(Committed)
    BY <1>6, <2>2 DEF Abs!Pairs, Pairs, Registered
  <2>5. Abs!Read
    BY <1>6, <2>2, <2>3, <2>4 DEF Show, Abs!Read, AbsOutcome, AbsTold
  <2> QED 
    BY <2>5 DEF Abs!Next
<1>7. ASSUME NEW n \in Names, Get(n) PROVE Abs!Next
  BY <1>6, <1>7 DEF Get, Pairs, Registered
<1>8. CASE List
  BY <1>6, <1>8 DEF List
<1>9. CASE UNCHANGED vars
  <2>1. Committed' = Committed /\ AbsOutcome' = AbsOutcome
    BY <1>9, CommittedElsewhere DEF vars, AbsOutcome
  <2> QED 
    BY <1>9, <2>1, Unseen DEF vars
<1> QED 
  BY <1>1, <1>2, <1>3, <1>4, <1>5, <1>7, <1>8, <1>9 DEF Next

\* With or without a store path, the store is the register-once map of Registry:
\* each request takes effect at one instant between its call and its answer, and
\* a restart keeps the whole map or starts with none.  (store.go)
THEOREM StoreIsRegistry ==
  ASSUME ~StorageFaults, ~CrashInWrite
  PROVE  Spec => ImplementsRegistry
<1>1. Init => Abs!Init
  <2> SUFFICES ASSUME Init PROVE Abs!Init
    OBVIOUS
  <2>1. Committed = NoServices /\ NoServices \in Maps
    BY EmptyMap DEF Init, Committed, Contents, File
  <2>2. AbsOutcome = [p \in Handlers |-> "none"]
    BY DEF Init, AbsOutcome
  <2> QED 
    BY <2>1, <2>2 DEF Init, Abs!Init, AbsOutcome, Abs!Maps, Maps, Abs!NoRequest, NoRequest
<1>2. RefInv /\ RefInv' /\ [Next]_vars => [Abs!Next]_(Abs!vars)
  BY RegistryStep
<1> QED 
  BY <1>1, <1>2, RefInvHolds, PTL DEF Spec, ImplementsRegistry, Abs!Spec

\* What deployments are made from grows by one definition at a time and loses none,
\* unless a process without a store path ends.  (store.go:36-54, 86-143)
THEOREM RegistryOnlyGrows ==
  ASSUME ~StorageFaults, ~CrashInWrite
  PROVE  Spec => RegistryGrows
<1> DEFINE Grows == \E n \in Names, d \in Defs : /\ Committed[n] = NoDef
                                                 /\ Committed' = [Committed EXCEPT ![n] = d]
           Emptied == ~Persistent /\ ~running' /\ Committed' = NoServices
<1>1. ASSUME RefInv, RefInv', [Next]_vars PROVE Grows \/ Emptied \/ Committed' = Committed
  <2>1. CASE Crash
    BY <1>1, <2>1, CrashCommitted DEF Crash
  <2>2. ASSUME NEW p \in Handlers, Create(p) PROVE Grows \/ Committed' = Committed
    <3>1. CASE Abs!Commit(p)
      <4>1. req[p] \in Requests
        BY <1>1, <3>1 DEF Abs!Commit, Abs!Undecided, Abs!NoRequest, NoRequest, RefInv, IInv, TypeInv, TypeOK
      <4> QED
        BY <3>1, <4>1, RequestType DEF Abs!Commit
    <3>2. CASE Abs!Conflict(p) \/ Abs!Fail(p) \/ UNCHANGED Abs!vars
      BY <3>2 DEF Abs!Conflict, Abs!Fail, Abs!vars
    <3> QED
      BY <1>1, <2>2, <3>1, <3>2, CreateIsRegistryStep
  <2>3. CASE ~Crash /\ ~\E p \in Handlers : Create(p)
    <3>1. \/ Start \/ UNCHANGED vars
          \/ \E p \in Handlers, r \in Requests : Invoke(p, r)
          \/ \E p \in Handlers : Respond(p)
          \/ \E S : CanRead /\ Show(S)
      BY <1>1, <2>3 DEF Next, Get, List
    <3> QED
      BY <1>1, <3>1, CommittedElsewhere
  <2> QED
    BY <2>1, <2>2, <2>3
<1>2. RefInv /\ RefInv' /\ [Next]_vars => [Grows \/ Emptied]_Committed
  BY <1>1
<1> QED
  BY <1>2, RefInvHolds, PTL DEF Spec, RegistryGrows

-----------------------------------------------------------------------------
(* The store in one life of the process, whatever fails. *)

\* What readers see, in terms of the map and its one writer.
SettledForm ==
  /\ Settled \in Maps
  /\ (\A p \in Handlers : pc[p] \notin Inserted) => Settled = services
  /\ \A p \in Handlers : pc[p] \in Inserted => Settled = [services EXCEPT ![req[p].name] = NoDef]

\* Only the holder of mu hides an entry, its own.
LEMMA SettledIs == IInv => SettledForm
<1> SUFFICES ASSUME IInv PROVE SettledForm
  OBVIOUS
<1> USE DEF IInv, TypeInv, TypeOK
<1>1. Settled \in Maps
  BY DEF Settled, Maps
<1>2. ASSUME \A p \in Handlers : pc[p] \notin Inserted PROVE Settled = services
  BY <1>2 DEF Settled, Maps
<1>3. ASSUME NEW p \in Handlers, pc[p] \in Inserted
      PROVE  Settled = [services EXCEPT ![req[p].name] = NoDef]
  <2>1. \A q \in Handlers : pc[q] \in Inserted => q = p
    BY <1>3 DEF LockInv, Critical, Inserted
  <2>2. \A n \in Names : (\E q \in Handlers : pc[q] \in Inserted /\ req[q].name = n)
                           <=> n = req[p].name
    BY <1>3, <2>1
  <2> QED
    BY <2>2 DEF Settled, Maps
<1> QED
  BY <1>1, <1>2, <1>3 DEF SettledForm

\* The map as readers see it changes when create() returns without an error, and
\* then by the new entry.
LEMMA SettledStep ==
  ASSUME IInv, IInv', NEW p \in Handlers, Create(p)
  PROVE  \/ /\ KeepInMemory(p) \/ Close(p)
            /\ Settled[req[p].name] = NoDef
            /\ Settled' = [Settled EXCEPT ![req[p].name] = req[p].def]
         \/ /\ ~KeepInMemory(p) /\ ~Close(p)
            /\ Settled' = Settled
<1> DEFINE n == req[p].name
<1>a. SettledForm /\ SettledForm' /\ TypeInv
  BY SettledIs, PTL DEF IInv
<1>b. /\ running /\ req' = req /\ req[p] \in Requests /\ n \in Names /\ req[p].def \in Defs
      /\ pc \in [Handlers -> Locations] /\ services \in Maps /\ Settled \in Maps
  <2>1. pc[p] # "idle" /\ req' = req
    BY DEF Create, Write, Lock, Duplicate, Insert, KeepInMemory, Truncate, WritePart,
         WriteAll, Close, PrepareFails, WriteFails, CloseFails, Rollback, Return
  <2> QED
    BY <1>a, <2>1, RequestType DEF TypeInv, TypeOK, BusyInv, SettledForm
<1>c. pc[p] \in Critical => \A q \in Handlers : q # p => pc[q] \notin Inserted
  BY DEF IInv, LockInv, Critical, Inserted
<1> USE DEF Goto, Return
<1>1. CASE Lock(p) \/ Duplicate(p)
  <2>1. \A q \in Handlers : pc[q] \notin Inserted /\ pc'[q] \notin Inserted
    <3>1. CASE Lock(p)
      BY <1>b, <3>1, NobodyAssumption DEF Lock, IInv, LockInv, Critical, Inserted
    <3>2. CASE Duplicate(p)
      BY <1>b, <1>c, <3>2 DEF Duplicate, Critical, Inserted
    <3> QED
      BY <1>1, <3>1, <3>2
  <2>2. services' = services /\ ~KeepInMemory(p) /\ ~Close(p)
    BY <1>1 DEF Lock, Duplicate, KeepInMemory, Close
  <2> QED
    BY <1>a, <2>1, <2>2 DEF SettledForm
<1>2. CASE Insert(p)
  <2>1. \A q \in Handlers : pc[q] \notin Inserted
    BY <1>c, <1>2 DEF Insert, Critical, Inserted
  <2>2. pc'[p] \in Inserted
    BY <1>b, <1>2 DEF Insert, Inserted
  <2>3. Settled = services /\ Settled' = [services' EXCEPT ![n] = NoDef]
    BY <1>a, <1>b, <2>1, <2>2 DEF SettledForm
  <2>4. ~KeepInMemory(p) /\ ~Close(p)
    BY <1>2 DEF Insert, KeepInMemory, Close
  <2> QED
    BY <1>b, <1>2, <2>3, <2>4 DEF Insert, Maps
<1>3. CASE KeepInMemory(p) \/ Close(p)
  <2>1. pc[p] \in Inserted /\ services' = services
    BY <1>3 DEF KeepInMemory, Close, Inserted
  <2>2. \A q \in Handlers : pc'[q] \notin Inserted
    BY <1>b, <1>c, <1>3 DEF KeepInMemory, Close, Inserted, Critical
  <2>3. Settled = [services EXCEPT ![n] = NoDef] /\ Settled' = services
    BY <1>a, <2>1, <2>2 DEF SettledForm
  <2>4. services[n] = req[p].def
    BY <2>1 DEF IInv, InsertedInv
  <2> QED
    BY <1>b, <1>3, <2>3, <2>4 DEF Maps
<1>4. CASE Truncate(p) \/ WritePart(p) \/ WriteAll(p)
  <2>1. pc[p] \in Inserted /\ pc'[p] \in Inserted /\ services' = services
    BY <1>b, <1>4 DEF Truncate, WritePart, WriteAll, Inserted
  <2>2. ~KeepInMemory(p) /\ ~Close(p)
    BY <1>b, <1>4 DEF Truncate, WritePart, WriteAll, KeepInMemory, Close
  <2> QED
    BY <1>a, <1>b, <2>1, <2>2 DEF SettledForm
<1>5. CASE PrepareFails(p) \/ WriteFails(p) \/ CloseFails(p)
  <2>1. pc[p] \in Inserted /\ services' = [services EXCEPT ![n] = NoDef] /\ pc' = [pc EXCEPT ![p] = "returned"]
    BY <1>5 DEF PrepareFails, WriteFails, CloseFails, Rollback, Inserted
  <2>2. \A q \in Handlers : pc'[q] \notin Inserted
    BY <1>b, <1>c, <2>1 DEF Inserted, Critical
  <2>3. Settled' = Settled
    BY <1>a, <2>1, <2>2 DEF SettledForm
  <2>4. outcome'[p] = "failed"
    BY <1>a, <1>5 DEF PrepareFails, WriteFails, CloseFails, Rollback, TypeInv, TypeOK
  <2>5. ~KeepInMemory(p) /\ ~Close(p)
    BY <1>a, <2>4 DEF KeepInMemory, Close, TypeInv, TypeOK
  <2> QED
    BY <2>3, <2>5
<1> QED
  BY <1>1, <1>2, <1>3, <1>4, <1>5 DEF Create, Write

\* A step that moves no writer and leaves the map alone is not seen by readers.
LEMMA SettledSame ==
  ASSUME IInv, IInv', services' = services,
         \A p \in Handlers : \/ pc[p] \notin Inserted /\ pc'[p] \notin Inserted
                             \/ pc'[p] = pc[p] /\ req'[p] = req[p]
  PROVE  Settled' = Settled
<1> \A n \in Names : (\E p \in Handlers : pc[p] \in Inserted /\ req[p].name = n)
                       <=> (\E p \in Handlers : pc'[p] \in Inserted /\ req'[p].name = n)
  OBVIOUS
<1> QED
  BY DEF Settled

\* Of the steps outside create() only the ends and the beginnings of a life change
\* what readers see.
LEMMA SettledElsewhere ==
  ASSUME IInv, IInv',
         \/ UNCHANGED vars 
         \/ \E p \in Handlers, r \in Requests : Invoke(p, r)
         \/ \E p \in Handlers : Respond(p)
         \/ \E S : Show(S)
  PROVE  Settled' = Settled /\ services' = services /\ file' = file /\ running' = running
<1> DEFINE Goal == Settled' = Settled /\ services' = services /\ file' = file /\ running' = running
<1>0. /\ pc \in [Handlers -> Locations]
      /\ req \in [Handlers -> Requests \cup {NoRequest}]
  BY DEF IInv, TypeInv, TypeOK
<1>1. CASE UNCHANGED vars
  BY <1>1, SettledSame DEF vars
<1>2. ASSUME NEW p \in Handlers, NEW r \in Requests, Invoke(p, r) PROVE Goal
  <2>1. \A q \in Handlers : \/ pc[q] \notin Inserted /\ pc'[q] \notin Inserted
                            \/ pc'[q] = pc[q] /\ req'[q] = req[q]
    BY <1>0, <1>2 DEF Invoke, Goto, Inserted
  <2>2. services' = services /\ file' = file /\ running' = running
    BY <1>2 DEF Invoke
  <2> QED
    BY <2>1, <2>2, SettledSame
<1>3. ASSUME NEW p \in Handlers, Respond(p) PROVE Goal
  <2>1. \A q \in Handlers : \/ pc[q] \notin Inserted /\ pc'[q] \notin Inserted
                            \/ pc'[q] = pc[q] /\ req'[q] = req[q]
    BY <1>0, <1>3 DEF Respond, Goto, Inserted
  <2>2. services' = services /\ file' = file /\ running' = running
    BY <1>3 DEF Respond
  <2> QED
    BY <2>1, <2>2, SettledSame
<1>4. ASSUME NEW S, Show(S) PROVE Goal
  BY <1>4, SettledSame DEF Show
<1> QED
  BY <1>1, <1>2, <1>3, <1>4

\* A file with a whole array in it belongs to a persistent store and, while the
\* process runs, has what readers see and one entry more at most.
FileInv ==
  /\ file.kind = "snapshot" => Persistent
  /\ \A p \in Handlers : pc[p] = "write" => Persistent /\ file.kind # "snapshot"
  /\ \A p \in Handlers : pc[p] = "close" => Persistent /\ file = Snapshot(services)
  /\ SnapshotIsComplete
  /\ OneMayReturn

\* An array of the map that still has the writer's entry has that one too many.
LEMMA SnapshotOfMap ==
  ASSUME NEW m \in Maps, NEW n \in Names, NEW s, s = [m EXCEPT ![n] = NoDef]
  PROVE  /\ \A k \in Registered(s) : m[k] = s[k]
         /\ \A k, l \in Registered(m) \ Registered(s) : k = l
BY DEF Maps, Registered

\* A step that leaves the map as readers see it, the file and the writer alone.
LEMMA FileSame ==
  ASSUME FileInv, Settled' = Settled, file' = file, running' => running,
         \A p \in Handlers : pc'[p] \in {"write", "close"} => pc'[p] = pc[p] /\ services' = services
  PROVE  FileInv'
<1>1. SnapshotIsComplete' /\ OneMayReturn'
  BY DEF FileInv, SnapshotIsComplete, OneMayReturn, Registered
<1> QED
  BY <1>1 DEF FileInv, Snapshot

\* Every step of create() leaves such a file or one that is no array.
LEMMA CreateFileStep ==
  ASSUME IInv, IInv', FileInv, NEW p \in Handlers, Create(p)
  PROVE  FileInv'
<1> DEFINE n == req[p].name
<1>a. SettledForm /\ SettledForm'
  BY SettledIs, PTL
<1>b. /\ pc \in [Handlers -> Locations] /\ services \in Maps /\ services' \in Maps
      /\ outcome \in [Handlers -> {"none", "created", "exists", "failed"}]
  BY DEF IInv, TypeInv, TypeOK
<1>c. pc[p] # "idle" => req[p] \in Requests /\ n \in Names
  BY RequestType DEF IInv, TypeInv, BusyInv
<1>d. pc[p] \in Critical => \A q \in Handlers : q # p => pc[q] \notin Critical
  BY DEF IInv, LockInv
<1>e. ~KeepInMemory(p) /\ ~Close(p) => Settled' = Settled
  BY SettledStep
<1> USE DEF Goto, Return, Critical
<1>1. CASE Lock(p) \/ Duplicate(p) \/ PrepareFails(p) \/ Insert(p) \/ WriteFails(p)
  <2>1. pc'[p] \notin {"write", "close"} /\ file' = file /\ running' = running /\ outcome'[p] # "created"
    BY <1>1, <1>b DEF Lock, Duplicate, PrepareFails, Insert, WriteFails, Rollback, IInv, OutcomeInv
  <2>2. ~KeepInMemory(p) /\ ~Close(p)
    BY <1>b, <2>1 DEF KeepInMemory, Close
  <2>3. \A q \in Handlers : pc'[q] \in {"write", "close"} => pc'[q] = pc[q] /\ services' = services
    <3>1. CASE Lock(p) \/ Duplicate(p)
      BY <1>b, <2>1, <3>1 DEF Lock, Duplicate
    <3>2. CASE PrepareFails(p) \/ Insert(p) \/ WriteFails(p)
      BY <1>b, <1>d, <2>1, <3>2 DEF PrepareFails, Insert, WriteFails, Rollback
    <3> QED
      BY <1>1, <3>1, <3>2
  <2> QED
    BY <1>e, <2>1, <2>2, <2>3, FileSame
<1>2. CASE KeepInMemory(p)
  <2>1. ~Persistent /\ file.kind # "snapshot" /\ file' = file
    BY <1>2 DEF KeepInMemory, FileInv
  <2>2. \A q \in Handlers : pc'[q] \notin {"write", "close"}
    BY <1>b, <1>d, <1>2 DEF KeepInMemory
  <2> QED
    BY <2>1, <2>2 DEF FileInv, SnapshotIsComplete, OneMayReturn
<1>3. CASE Truncate(p) \/ WritePart(p)
  <2>1. file'.kind # "snapshot"
    BY <1>3 DEF Truncate, WritePart, File
  <2>2. \A q \in Handlers : pc'[q] # "close"
    BY <1>b, <1>d, <1>3 DEF Truncate, WritePart
  <2>3. Persistent
    BY <1>3 DEF Truncate, WritePart, FileInv
  <2> QED
    BY <2>1, <2>2, <2>3 DEF FileInv, SnapshotIsComplete, OneMayReturn
<1>4. CASE WriteAll(p)
  <2>1. file' = Snapshot(services') /\ services' = services /\ Settled' = Settled /\ pc[p] = "write"
    BY <1>b, <1>e, <1>4 DEF WriteAll, KeepInMemory, Close
  <2>2. Settled = [services EXCEPT ![n] = NoDef]
    BY <1>a, <2>1 DEF SettledForm, Inserted
  <2>3. file'.defs = services /\ file'.kind = "snapshot"
    BY <2>1 DEF Snapshot
  <2>4. SnapshotIsComplete'
    BY <1>b, <1>c, <2>1, <2>2, <2>3, SnapshotOfMap DEF SnapshotIsComplete, Registered
  <2>5. OneMayReturn'
    BY <1>b, <1>c, <2>1, <2>2, <2>3, SnapshotOfMap DEF OneMayReturn, Registered
  <2>6. Persistent
    BY <2>1 DEF FileInv
  <2>7. \A q \in Handlers : pc'[q] # "write"
    BY <1>b, <1>d, <1>4 DEF WriteAll
  <2> QED
    BY <2>1, <2>4, <2>5, <2>6, <2>7 DEF FileInv
<1>5. CASE Close(p) \/ CloseFails(p)
  <2>1. /\ file = Snapshot(services) /\ file' = file /\ Persistent
        /\ pc[p] = "close" /\ outcome'[p] = (IF Close(p) THEN "created" ELSE "failed")
    BY <1>b, <1>5 DEF Close, CloseFails, Rollback, FileInv
  <2>2. file'.defs = services
    BY <2>1 DEF Snapshot
  <2>3. \A q \in Handlers : pc'[q] \notin {"write", "close", "persist"}
    BY <1>b, <1>d, <1>5, <2>1 DEF Close, CloseFails, Rollback
  <2>4. Settled' = services'
    BY <1>a, <2>3 DEF SettledForm, Inserted
  <2>5. services' = services \/ services' = [services EXCEPT ![n] = NoDef]
    BY <1>5 DEF Close, CloseFails, Rollback
  <2>6. SnapshotIsComplete'
    BY <1>b, <1>c, <2>1, <2>2, <2>4, <2>5, SnapshotOfMap DEF SnapshotIsComplete, Registered
  <2>7. OneMayReturn'
    BY <1>b, <1>c, <2>1, <2>2, <2>4, <2>5, SnapshotOfMap DEF OneMayReturn, Registered
  <2> QED
    BY <2>1, <2>3, <2>6, <2>7 DEF FileInv
<1> QED
  BY <1>1, <1>2, <1>3, <1>4, <1>5 DEF Create, Write

\* Every step keeps the file so.
LEMMA FileStep == IInv /\ IInv' /\ FileInv /\ [Next]_vars => FileInv'
<1> SUFFICES ASSUME IInv, IInv', FileInv, [Next]_vars PROVE FileInv'
  OBVIOUS
<1>0. pc \in [Handlers -> Locations] /\ services' \in Maps
  BY DEF IInv, TypeInv, TypeOK
<1>a. SettledForm'
  BY SettledIs, PTL
<1>1. CASE Start
  <2>1. \A p \in Handlers : pc[p] = "idle" /\ pc'[p] = "idle"
    BY <1>1 DEF Start, IInv, TypeInv, BusyInv
  <2>2. Settled' = services'
    BY <1>a, <2>1 DEF SettledForm, Inserted
  <2>3. file.kind = "snapshot" => services' = file.defs /\ file' = file
    BY <1>1 DEF Start, Contents, FileInv
  <2>4. file' = file
    BY <1>1 DEF Start
  <2> QED
    BY <2>1, <2>2, <2>3, <2>4 DEF FileInv, SnapshotIsComplete, OneMayReturn
<1>2. CASE Crash
  BY <1>2 DEF Crash, FileInv, SnapshotIsComplete, OneMayReturn
<1>3. ASSUME NEW p \in Handlers, Create(p) PROVE FileInv'
  BY <1>3, CreateFileStep
<1>4. ASSUME \/ UNCHANGED vars 
             \/ \E p \in Handlers, r \in Requests : Invoke(p, r)
             \/ \E p \in Handlers : Respond(p)
             \/ \E S : Show(S)
      PROVE  FileInv'
  <2>1. Settled' = Settled /\ services' = services /\ file' = file /\ running' = running
    BY <1>4, SettledElsewhere
  <2>2. \A q \in Handlers : pc'[q] \in {"write", "close"} => pc'[q] = pc[q]
    BY <1>0, <1>4 DEF vars, Invoke, Respond, Show, Goto
  <2> QED
    BY <2>1, <2>2, FileSame
<1> QED
  BY <1>1, <1>2, <1>3, <1>4 DEF Next, Get, List

\* FileInv always holds.
LEMMA FileInvariance == Spec => []FileInv
<1>1. Init => FileInv
  BY DEF Init, FileInv, File, SnapshotIsComplete, OneMayReturn
<1> QED
  BY <1>1, FileStep, Invariance, PTL DEF Spec

\* No array that a running process finds or leaves in its file lacks a definition
\* that it serves, whatever writes failed before.  (store.go:115-143)
THEOREM SnapshotsAreComplete == Spec => []SnapshotIsComplete
<1>1. FileInv => SnapshotIsComplete
  BY DEF FileInv
<1> QED
  BY <1>1, FileInvariance, PTL

\* Of all the definitions that were answered 500 a restart brings back one at
\* most.  (store.go:47-50, 138)
THEOREM OneAtMostReturns == Spec => []OneMayReturn
<1>1. FileInv => OneMayReturn
  BY DEF FileInv
<1> QED
  BY <1>1, FileInvariance, PTL

\* A step that Registry does not see.
LEMMA UnseenInLife ==
  ASSUME Settled' = Settled, UNCHANGED <<req, outcome, told>>
  PROVE  UNCHANGED Life!vars
BY DEF Life!vars

\* A step of create() commits, refuses, fails, or is not seen.
LEMMA CreateInLife ==
  ASSUME IInv, IInv', CallInv, NEW p \in Handlers, Create(p)
  PROVE  Life!Commit(p) \/ Life!Conflict(p) \/ Life!Fail(p) \/ UNCHANGED Life!vars
<1> DEFINE n == req[p].name
<1>a. SettledForm
  BY SettledIs
<1>b. /\ req' = req /\ told' = told /\ outcome[p] = "none" 
      /\ req[p] \in Requests /\ req[p] # NoRequest
  <2>1. pc[p] # "idle" /\ pc[p] # "returned" /\ UNCHANGED <<req, told>>
    BY DEF Create, Write, Lock, Duplicate, Insert, KeepInMemory, Truncate, WritePart,
         WriteAll, Close, PrepareFails, WriteFails, CloseFails, Rollback, Return
  <2> QED
    BY <2>1, RequestType DEF IInv, TypeInv, BusyInv, OutcomeInv
<1>c. Life!Undecided(p)
  BY <1>b DEF Life!Undecided, Life!NoRequest, NoRequest
<1>d. ASSUME NEW o, Return(p, o) PROVE Life!Decide(p, o)
  BY <1>b, <1>d DEF Return, Life!Decide
<1>1. CASE KeepInMemory(p) \/ Close(p)
  <2>1. Settled[n] = NoDef /\ Settled' = [Settled EXCEPT ![n] = req[p].def]
    BY <1>1, SettledStep
  <2>2. Life!Decide(p, "created")
    BY <1>1, <1>d DEF KeepInMemory, Close
  <2> QED
    BY <1>c, <2>1, <2>2 DEF Life!Commit
<1>2. CASE ~(KeepInMemory(p) \/ Close(p))
  <2>0. Settled' = Settled
    BY <1>2, SettledStep
  <2>1. CASE Duplicate(p)
    <3>1. \A q \in Handlers : pc[q] \notin Inserted
      BY <2>1 DEF Duplicate, IInv, LockInv, Critical, Inserted
    <3>2. Settled = services
      BY <1>a, <3>1 DEF SettledForm
    <3> QED
      BY <1>c, <1>d, <2>0, <2>1, <3>2 DEF Duplicate, Life!Conflict
  <2>2. CASE PrepareFails(p) \/ WriteFails(p) \/ CloseFails(p)
    BY <1>c, <1>d, <2>0, <2>2 DEF PrepareFails, WriteFails, CloseFails, Rollback, Life!Fail
  <2>3. CASE Lock(p) \/ Insert(p) \/ Truncate(p) \/ WritePart(p) \/ WriteAll(p)
    BY <2>0, <2>3, UnseenInLife DEF Lock, Insert, Truncate, WritePart, WriteAll
  <2> QED
    BY <1>2, <2>1, <2>2, <2>3 DEF Create, Write
<1> QED
  BY <1>1, <1>2

\* Each step is one of Registry, a restart, or is not seen.
LEMMA LifeStep ==
  ASSUME IInv, IInv', CallInv, [Next]_vars
  PROVE  [Life!Next]_(Life!vars)
<1>0. SettledForm /\ SettledForm'
  BY SettledIs, PTL
<1>a. /\ SettledForm /\ Settled' \in Life!Maps
      /\ req \in [Handlers -> Requests \cup {NoRequest}]
      /\ outcome \in [Handlers -> {"none", "created", "exists", "failed"}]
  BY <1>0 DEF IInv, TypeInv, TypeOK, SettledForm, Maps, Life!Maps
<1>1. CASE Start
  <2>1. \A p \in Handlers : pc[p] = "idle" /\ req[p] = NoRequest /\ outcome[p] = "none"
    BY <1>1 DEF Start, IInv, TypeInv, BusyInv, CallInv, OutcomeInv
  <2>2. /\ req' = [p \in Handlers |-> Life!NoRequest]
        /\ outcome' = [p \in Handlers |-> "none"]
        /\ told' = {}
    BY <1>a, <1>1, <2>1 DEF Start, IInv, DownInv, Life!NoRequest, NoRequest
  <2>3. Life!Restart
    BY <1>a, <2>2 DEF Life!Restart
  <2> QED
    BY <2>3 DEF Life!Next
<1>2. CASE Crash
  BY <1>a, <1>2 DEF Crash, Life!Next, Life!Restart, Life!NoRequest, NoRequest
<1>3. ASSUME NEW p \in Handlers, NEW r \in Requests, Invoke(p, r) PROVE Life!Next
  <2>1. Settled' = Settled
    BY <1>3, SettledElsewhere
  <2>2. Life!Invoke(p, r) /\ r \in Life!Requests
    BY <1>3, <2>1 DEF Invoke, CallInv, Life!Invoke, Life!NoRequest, NoRequest, Life!Requests, Requests
  <2> QED
    BY <2>2 DEF Life!Next
<1>4. ASSUME NEW p \in Handlers, Create(p) PROVE Life!Next \/ UNCHANGED Life!vars
  BY <1>4, CreateInLife DEF Life!Next
<1>5. ASSUME NEW p \in Handlers, Respond(p) PROVE Life!Next
  <2>1. Settled' = Settled
    BY <1>5, SettledElsewhere
  <2>2. outcome[p] # "none"
    BY <1>5 DEF Respond, CallInv
  <2>3. told' = IF outcome[p] = "created" THEN told \cup {<<req[p].name, req[p].def>>} ELSE told
    BY <1>5 DEF Respond
  <2>4. Life!Respond(p)
    BY <1>5, <2>1, <2>2, <2>3 DEF Respond, Life!Respond, Life!NoRequest, NoRequest
  <2> QED
    BY <2>4 DEF Life!Next
<1>6. ASSUME NEW S, CanRead, Show(S), S \subseteq Pairs(services) PROVE Life!Next
  <2>1. \A p \in Handlers : pc[p] \notin Inserted
    BY <1>6, NobodyAssumption DEF CanRead, IInv, LockInv, Critical, Inserted
  <2>2. Settled = services /\ Settled' = Settled
    BY <1>a, <1>6, <2>1, SettledElsewhere DEF SettledForm
  <2>3. S \in SUBSET Life!Pairs(Settled)
    BY <1>6, <2>2 DEF Life!Pairs, Pairs, Registered
  <2>4. Life!Read
    BY <1>6, <2>2, <2>3 DEF Show, Life!Read
  <2> QED
    BY <2>4 DEF Life!Next
<1>7. ASSUME NEW n \in Names, Get(n) PROVE Life!Next
  BY <1>6, <1>7 DEF Get, Pairs, Registered
<1>8. CASE List
  BY <1>6, <1>8 DEF List
<1>9. CASE UNCHANGED vars
  <2>1. Settled' = Settled
    BY <1>9, SettledElsewhere
  <2> QED
    BY <1>9, <2>1, UnseenInLife DEF vars
<1> QED
  BY <1>1, <1>2, <1>3, <1>4, <1>5, <1>7, <1>8, <1>9 DEF Next

\* Whatever the disk does and whenever the process dies, the calls of one life are
\* those of the register-once map: the entry of a create() that fails was never
\* there for anybody else.  (store.go:36-84)
THEOREM LifeIsRegistry == Spec => ImplementsRegistryWhileAlive
<1>1. Init => CallInv /\ Life!Init
  <2> SUFFICES ASSUME Init PROVE CallInv /\ Life!Init
    OBVIOUS
  <2>1. Settled = NoServices /\ NoServices \in Life!Maps
    BY EmptyMap DEF Init, Settled, Inserted, NoServices, Maps, Life!Maps
  <2> QED
    BY <2>1 DEF Init, CallInv, Life!Init, Life!NoRequest, NoRequest
<1>2. IInv /\ CallInv /\ [Next]_vars => CallInv'
  BY CallStep DEF IInv
<1>3. IInv /\ IInv' /\ CallInv /\ [Next]_vars => [Life!Next]_(Life!vars)
  BY LifeStep
<1> QED
  BY <1>1, <1>2, <1>3, Invariance, PTL DEF Spec, ImplementsRegistryWhileAlive, Life!Spec

-----------------------------------------------------------------------------
(* What the store inherits from Registry. *)

LifeProofs == INSTANCE RegistryProofs WITH Kept <- "any", reg <- Settled

\* The Registry of RegistryProofs is the one of ServiceStore.
LEMMA SameRegistry == Life!Spec => LifeProofs!Spec
<1>1. Life!Init => LifeProofs!Init
  BY DEF Life!Init, LifeProofs!Init, Life!Maps, LifeProofs!Maps, Life!NoRequest, LifeProofs!NoRequest
<1>2. Life!Next => LifeProofs!Next
  BY DEF Life!Next, Life!Invoke, Life!Commit, Life!Conflict, Life!Fail, Life!Respond, Life!Read,
         Life!Restart, Life!Decide, Life!Undecided, Life!NoRequest, Life!Pairs, Life!Maps,
         Life!NoServices, Life!Requests, LifeProofs!Next, LifeProofs!Invoke, LifeProofs!Commit,
         LifeProofs!Conflict, LifeProofs!Fail, LifeProofs!Respond, LifeProofs!Read,
         LifeProofs!Restart, LifeProofs!Decide, LifeProofs!Undecided, LifeProofs!NoRequest,
         LifeProofs!Pairs, LifeProofs!Maps, LifeProofs!NoServices, LifeProofs!Requests
<1>3. UNCHANGED Life!vars => UNCHANGED LifeProofs!vars
  BY DEF Life!vars, LifeProofs!vars
<1> QED
  BY <1>1, <1>2, <1>3, PTL DEF Life!Spec, LifeProofs!Spec

\* Nobody was ever shown an entry before its create() had ended well: no read sees
\* the map between the insertion and the rollback.  (store.go:45-51, 55-84)
THEOREM NothingUndecidedIsShown == Spec => [](told \subseteq Pairs(Settled))
<1>1. LifeProofs!Spec => [](told \subseteq LifeProofs!Pairs(Settled))
  BY LifeProofs!ToldIsInTheMap, NoDefAssumption
<1>2. told \subseteq LifeProofs!Pairs(Settled) => told \subseteq Pairs(Settled)
  BY DEF LifeProofs!Pairs, Pairs, Registered
<1> QED
  BY <1>1, <1>2, LifeIsRegistry, SameRegistry, PTL DEF ImplementsRegistryWhileAlive

\* Of any number of concurrent creators of one name at most one gets the 201,
\* as in every implementation of Registry.  (store.go:40-45)
THEOREM OneCreatorWins == Spec => []OneWinner
<1>1. LifeProofs!Spec => []LifeProofs!WinnerInv
  <2>1. LifeProofs!Spec => []( /\ LifeProofs!WinnerInv
                               /\ \A p \in Handlers : outcome[p] = "exists" => Settled[req[p].name] # NoDef )
    BY LifeProofs!OneRequestIsGranted, NoDefAssumption
  <2> QED
    BY <2>1, PTL
<1>2. LifeProofs!WinnerInv => OneWinner
  BY DEF LifeProofs!WinnerInv, OneWinner
<1> QED
  BY <1>1, <1>2, LifeIsRegistry, SameRegistry, PTL DEF ImplementsRegistryWhileAlive
=============================================================================
