------------------------ MODULE RegistrationAPIProofs ------------------------
(***************************************************************************)
(* Proofs about RegistrationAPI, for any finite sets of handlers, names    *)
(* and scrapers and any definitions.                                       *)
(*                                                                         *)
(* The number of entries in the map is what was loaded, plus the successes *)
(* counted, plus the creations whose handler has not counted them yet,     *)
(* plus the entry that is being written: every step keeps that sum.        *)
(***************************************************************************)
EXTENDS RegistrationAPI, ServiceStoreProofs, FiniteSetTheorems

\* The invariants of the store hold here: a step of the API is a step of the
\* store or none.
LEMMA APIStepIsStoreStep == [APINext]_allVars => [Next]_vars
<1> SUFFICES ASSUME [APINext]_allVars PROVE [Next]_vars
  OBVIOUS
<1>1. CASE StartAPI \/ CrashAPI
  BY <1>1 DEF StartAPI, CrashAPI, Next
<1>2. ASSUME NEW p \in Handlers, NEW r \in Requests, Accept(p, r) PROVE Next
  BY <1>2 DEF Accept, Next
<1>3. ASSUME NEW p \in Handlers, CreateStep(p) PROVE Next
  BY <1>3 DEF CreateStep, Next
<1>4. ASSUME NEW p \in Handlers, Answer(p) PROVE [Next]_vars
  BY <1>4 DEF Answer, Next
<1>5. ASSUME NEW p \in Handlers, Reject(p) \/ Record(p) PROVE UNCHANGED vars
  BY <1>5 DEF Reject, Record
<1>6. ASSUME NEW s \in Scrapers, ReadCounters(s) \/ CountServices(s) \/ SendPage(s) PROVE UNCHANGED vars
  BY <1>6 DEF ReadCounters, CountServices, SendPage
<1>7. UNCHANGED allVars => UNCHANGED vars
  BY DEF allVars
<1>8. QED  BY <1>1, <1>2, <1>3, <1>4, <1>5, <1>6, <1>7 DEF APINext

\* So its inductive invariant holds here.
LEMMA StoreInvariant == APISpec => []IInv
<1>1. APIInit => Init
  BY DEF APIInit
<1>2. QED  BY <1>1, APIStepIsStoreStep, InvInit, InvStep, PTL DEF APISpec

-----------------------------------------------------------------------------
(* Where handlers and counters stand. *)

Counts == [{"success", "failure"} -> Nat]

\* POSTs that are not counted yet.
Open == {p \in Handlers : post[p] \in {"creating", "rejected"}}

\* A handler is inside create() exactly while its POST says so.
PostInv == 
  \A p \in Handlers : /\ post[p] \in {"idle", "rejected"} => pc[p] = "idle"
                      /\ post[p] = "creating" => pc[p] # "idle"
                      /\ post[p] = "counted" => pc[p] \in {"idle", "returned"}

\* Nothing is left of a process that died.
DeadInv == ~running => /\ counted = ZeroCounts /\ loaded = 0 /\ services = NoServices
                       /\ \A p \in Handlers : post[p] = "idle"
                       /\ \A s \in Scrapers : scrape[s] = NoScrape

\* What a scrape has read is still what the counter shows.
ScrapeInv == \A s \in Scrapers : scrape[s].at = "counting" => scrape[s].success = counted["success"]

Scrapes == [at : {"idle", "counting", "done"}, success : 0..MaxPosts,
            managed : 0..Cardinality(Names)]

APITypes == /\ post \in [Handlers -> {"idle", "creating", "rejected", "counted"}]
            /\ counted \in Counts
            /\ counted["success"] + counted["failure"] + Cardinality(Open) <= MaxPosts
            /\ loaded \in 0..Cardinality(Names)
            /\ scrape \in [Scrapers -> Scrapes]

APIInv == APITypes /\ PostInv /\ DeadInv /\ ScrapeInv

USE MaxPostsAssumption

\* The counters stay within the bound on POSTs.
LEMMA CountsBounded ==
  ASSUME NEW c \in Counts, NEW k \in Nat, c["success"] + c["failure"] + k <= MaxPosts
  PROVE  c \in [{"success", "failure"} -> 0..MaxPosts]
<1>1. c["success"] \in Nat /\ c["failure"] \in Nat
  BY DEF Counts
<1>2. \A r \in {"success", "failure"} : c[r] \in 0..MaxPosts
  BY <1>1
<1>3. QED  BY <1>2 DEF Counts

\* The number of registered names.
LEMMA RegisteredFinite ==
  ASSUME IsFiniteSet(Names), NEW m \in Maps
  PROVE  /\ IsFiniteSet(Registered(m)) /\ Cardinality(Registered(m)) \in 0..Cardinality(Names)
         /\ Cardinality(Registered(m)) \in Nat
<1>1. Registered(m) \subseteq Names
  BY DEF Registered
<1>2. /\ IsFiniteSet(Registered(m)) /\ Cardinality(Registered(m)) <= Cardinality(Names)
      /\ Cardinality(Registered(m)) \in Nat /\ Cardinality(Names) \in Nat
  BY <1>1, FS_Subset, FS_CardinalityType
<1>3. QED  BY <1>2

\* POSTs not counted yet are finitely many, and among those being served.
LEMMA OpenFinite ==
  ASSUME IsFiniteSet(Handlers)
  PROVE  /\ IsFiniteSet(Open) /\ Cardinality(Open) \in Nat
         /\ Cardinality(Open) <= Served /\ Served \in Nat
<1> DEFINE Busy == {p \in Handlers : post[p] # "idle"}
<1>1. IsFiniteSet(Busy) /\ Cardinality(Busy) \in Nat
  BY FS_Subset, FS_CardinalityType
<1>2. Open \subseteq Busy
  BY DEF Open
<1>3. IsFiniteSet(Open) /\ Cardinality(Open) \in Nat /\ Cardinality(Open) <= Cardinality(Busy)
  BY <1>1, <1>2, FS_Subset, FS_CardinalityType
<1>4. QED  BY <1>1, <1>3 DEF Served

\* The first state.
LEMMA APIInvInit == 
  ASSUME IsFiniteSet(Names)
  PROVE  APIInit => APIInv
<1> SUFFICES ASSUME APIInit PROVE APIInv
  OBVIOUS
<1>1. Open = {}
  BY DEF APIInit, Open
<1>2. Cardinality(Open) = 0
  BY <1>1, FS_EmptySet
<1>3. counted \in Counts /\ counted["success"] = 0 /\ counted["failure"] = 0 /\ counted = ZeroCounts
  BY DEF APIInit, ZeroCounts, Counts
<1>4. Cardinality(Names) \in Nat
  BY FS_CardinalityType
<1>5. NoScrape \in Scrapes
  BY <1>4 DEF NoScrape, Scrapes
<1>6. APITypes
  <2>1. counted["success"] + counted["failure"] + Cardinality(Open) <= MaxPosts
    BY <1>2, <1>3
  <2>2. scrape \in [Scrapers -> Scrapes]
    BY <1>5 DEF APIInit
  <2>3. loaded \in 0..Cardinality(Names)
    BY <1>4 DEF APIInit
  <2>4. QED  BY <1>3, <2>1, <2>2, <2>3 DEF APIInit, APITypes
<1>7. PostInv /\ DeadInv /\ ScrapeInv
  BY <1>3 DEF APIInit, Init, PostInv, DeadInv, ScrapeInv, NoScrape
<1>8. QED  BY <1>6, <1>7 DEF APIInv

\* A POST that is accepted or rejected is open; the bound leaves room for it.
LEMMA OpenedStep ==
  ASSUME IsFiniteSet(Handlers), APIInv, NEW p \in Handlers, CanPost(p),
         NEW at \in {"creating", "rejected"}, PostTo(p, at), UNCHANGED <<counted, loaded, scrape>>
  PROVE  APITypes'
<1>1. post[p] = "idle" /\ counted["success"] + counted["failure"] + Served < MaxPosts
  BY DEF CanPost
<1>2. /\ post' = [post EXCEPT ![p] = at]
      /\ post \in [Handlers -> {"idle", "creating", "rejected", "counted"}]
  BY DEF PostTo, APIInv, APITypes
<1>3. Open' = Open \cup {p} /\ p \notin Open
  BY <1>1, <1>2 DEF Open
<1>4. /\ Cardinality(Open') = Cardinality(Open) + 1
      /\ Cardinality(Open) \in Nat /\ Cardinality(Open) <= Served /\ Served \in Nat
  BY <1>3, OpenFinite, FS_AddElement
<1>5. counted["success"] \in Nat /\ counted["failure"] \in Nat
  BY DEF APIInv, APITypes, Counts
<1>6. counted'["success"] + counted'["failure"] + Cardinality(Open') <= MaxPosts
  BY <1>1, <1>4, <1>5
<1>7. QED  BY <1>2, <1>6 DEF APIInv, APITypes

\* Counting turns an open POST into a count.
LEMMA RecordKeepsTypes ==
  ASSUME IsFiniteSet(Handlers), APIInv, NEW p \in Handlers, Record(p)
  PROVE  APITypes'
<1>1. PICK r \in {"success", "failure"} : counted' = [counted EXCEPT ![r] = @ + 1]
  BY DEF Record
<1>2. /\ post[p] \in {"creating", "rejected"} /\ post' = [post EXCEPT ![p] = "counted"]
      /\ UNCHANGED <<loaded, scrape>>
      /\ post \in [Handlers -> {"idle", "creating", "rejected", "counted"}]
  BY DEF Record, PostTo, APIInv, APITypes
<1>3. Open' = Open \ {p} /\ p \in Open
  BY <1>2 DEF Open
<1>4. Cardinality(Open') = Cardinality(Open) - 1 /\ Cardinality(Open) \in Nat /\ Cardinality(Open') \in Nat
  BY <1>3, OpenFinite, FS_RemoveElement, FS_CardinalityType
<1>5. counted \in Counts /\ counted["success"] \in Nat /\ counted["failure"] \in Nat
  BY DEF APIInv, APITypes, Counts
<1>6. /\ counted' \in Counts
      /\ counted'["success"] + counted'["failure"] = counted["success"] + counted["failure"] + 1
  <2>1. CASE r = "success"
    BY <1>1, <1>5, <2>1 DEF Counts
  <2>2. CASE r = "failure"
    BY <1>1, <1>5, <2>2 DEF Counts
  <2>3. QED  BY <2>1, <2>2
<1>7. counted'["success"] \in Nat /\ counted'["failure"] \in Nat
  BY <1>6 DEF Counts
<1>8. counted'["success"] + counted'["failure"] + Cardinality(Open') <= MaxPosts
  BY <1>4, <1>5, <1>6, <1>7 DEF APIInv, APITypes
<1>9. QED  BY <1>2, <1>6, <1>8 DEF APIInv, APITypes

\* A step of create() leaves a busy handler busy, and the others alone.
LEMMA CreateMoves ==
  ASSUME TypeOK, NEW p \in Handlers, Create(p)
  PROVE  /\ pc[p] # "idle" /\ pc'[p] # "idle" /\ pc[p] # "returned"
         /\ \A q \in Handlers : q # p => pc'[q] = pc[q]
         /\ running' = running
BY DEF TypeOK, Create, Write, Lock, Duplicate, Insert, KeepInMemory, Truncate, WritePart, WriteAll,
       Close, PrepareFails, WriteFails, CloseFails, Rollback, Return, Goto

\* A call in progress is one of a live process.
LEMMA ServerUp ==
  ASSUME IInv, NEW p \in Handlers, pc[p] # "idle"
  PROVE  running
BY DEF IInv, TypeInv, BusyInv

\* Every step keeps APIInv.
LEMMA APIInvStep ==
  ASSUME IsFiniteSet(Names), IsFiniteSet(Handlers)
  PROVE  IInv /\ IInv' /\ APIInv /\ [APINext]_allVars => APIInv'
<1> SUFFICES ASSUME IInv, IInv', APIInv, [APINext]_allVars PROVE APIInv'
  OBVIOUS
<1>0. /\ TypeOK /\ TypeOK' /\ APITypes /\ PostInv /\ DeadInv /\ ScrapeInv
      /\ services \in Maps /\ services' \in Maps
      /\ pc \in [Handlers -> Locations]
      /\ post \in [Handlers -> {"idle", "creating", "rejected", "counted"}]
      /\ scrape \in [Scrapers -> Scrapes]
  BY DEF IInv, TypeInv, TypeOK, APIInv, APITypes
<1>1. CASE UNCHANGED allVars
  <2>1. Open' = Open
    BY <1>1 DEF allVars, apiVars, Open
  <2>2. QED
    BY <1>0, <1>1, <2>1 DEF allVars, vars, apiVars, APIInv, APITypes, PostInv, DeadInv, ScrapeInv
<1>2. CASE StartAPI
  <2>1. /\ ~running /\ running' /\ UNCHANGED <<post, counted, scrape, pc>>
        /\ loaded' = Cardinality(Registered(services'))
    BY <1>2 DEF StartAPI, Start
  <2>2. loaded' \in 0..Cardinality(Names)
    BY <1>0, <2>1, RegisteredFinite
  <2>3. Open' = Open
    BY <2>1 DEF Open
  <2>4. QED
    BY <1>0, <2>1, <2>2, <2>3 DEF APIInv, APITypes, PostInv, DeadInv, ScrapeInv
<1>3. CASE CrashAPI
  <2>1. /\ post' = [p \in Handlers |-> "idle"] /\ pc' = [p \in Handlers |-> "idle"]
        /\ counted' = ZeroCounts /\ loaded' = 0 /\ scrape' = [s \in Scrapers |-> NoScrape]
        /\ services' = NoServices
    BY <1>3 DEF CrashAPI, Crash
  <2>2. Open' = {}
    BY <2>1 DEF Open
  <2>3. Cardinality(Open') = 0
    BY <2>2, FS_EmptySet
  <2>4. counted' \in Counts /\ counted'["success"] = 0 /\ counted'["failure"] = 0
    BY <2>1 DEF ZeroCounts, Counts
  <2>5. Cardinality(Names) \in Nat
    BY FS_CardinalityType
  <2>6. NoScrape \in Scrapes
    BY <2>5 DEF NoScrape, Scrapes
  <2>7. APITypes'
    <3>1. counted'["success"] + counted'["failure"] + Cardinality(Open') <= MaxPosts
      BY <2>3, <2>4
    <3>2. scrape' \in [Scrapers -> Scrapes]
      BY <2>1, <2>6
    <3>3. QED  BY <2>1, <2>4, <2>5, <3>1, <3>2 DEF APITypes
  <2>8. PostInv' /\ DeadInv' /\ ScrapeInv'
    BY <2>1 DEF PostInv, DeadInv, ScrapeInv, NoScrape
  <2>9. QED  BY <2>7, <2>8 DEF APIInv
<1>4. ASSUME NEW p \in Handlers, NEW r \in Requests, Accept(p, r) PROVE APIInv'
  <2>1. /\ CanPost(p) /\ PostTo(p, "creating") /\ UNCHANGED <<counted, loaded, scrape, running, services>>
        /\ running /\ pc' = [pc EXCEPT ![p] = "called"]
    BY <1>4 DEF Accept, Invoke, Goto
  <2>2. APITypes'
    BY <2>1, OpenedStep
  <2>3. post' = [post EXCEPT ![p] = "creating"]
    BY <2>1 DEF PostTo
  <2>4. PostInv' /\ DeadInv' /\ ScrapeInv'
    BY <1>0, <2>1, <2>3 DEF PostInv, DeadInv, ScrapeInv
  <2>5. QED  BY <2>2, <2>4 DEF APIInv
<1>5. ASSUME NEW p \in Handlers, Reject(p) PROVE APIInv'
  <2>1. /\ CanPost(p) /\ PostTo(p, "rejected") /\ UNCHANGED <<counted, loaded, scrape, pc>>
        /\ running /\ running' = running /\ post[p] = "idle"
    BY <1>5 DEF Reject, CanPost, vars
  <2>2. APITypes'
    BY <2>1, OpenedStep
  <2>3. post' = [post EXCEPT ![p] = "rejected"]
    BY <2>1 DEF PostTo
  <2>4. PostInv' /\ DeadInv' /\ ScrapeInv'
    BY <1>0, <2>1, <2>3 DEF PostInv, DeadInv, ScrapeInv
  <2>5. QED  BY <2>2, <2>4 DEF APIInv
<1>6. ASSUME NEW p \in Handlers, CreateStep(p) PROVE APIInv'
  <2>1. Create(p) /\ UNCHANGED <<post, counted, loaded, scrape>>
    BY <1>6 DEF CreateStep, apiVars
  <2>2. /\ pc[p] # "idle" /\ pc'[p] # "idle" /\ pc[p] # "returned"
        /\ \A q \in Handlers : q # p => pc'[q] = pc[q]
        /\ running' = running
    BY <1>0, <2>1, CreateMoves
  <2>3. Open' = Open
    BY <2>1 DEF Open
  <2>4. post[p] = "creating" /\ running
    BY <1>0, <2>2, ServerUp DEF PostInv
  <2>5. QED
    BY <1>0, <2>1, <2>2, <2>3, <2>4 DEF APIInv, APITypes, PostInv, DeadInv, ScrapeInv
<1>7. ASSUME NEW p \in Handlers, Record(p) PROVE APIInv'
  <2>1. /\ post' = [post EXCEPT ![p] = "counted"] /\ UNCHANGED <<vars, loaded, scrape>>
        /\ post[p] = "rejected" \/ (post[p] = "creating" /\ pc[p] = "returned")
        /\ \A s \in Scrapers : scrape[s].at # "counting"
    BY <1>7 DEF Record, PostTo, MetricsFree
  <2>2. APITypes'
    BY <1>7, RecordKeepsTypes
  <2>3. running /\ pc' = pc /\ running' = running
    BY <1>0, <2>1 DEF DeadInv, vars
  <2>4. PostInv'
    BY <1>0, <2>1, <2>3 DEF PostInv
  <2>5. DeadInv' /\ ScrapeInv'
    BY <2>1, <2>3 DEF DeadInv, ScrapeInv
  <2>6. QED  BY <2>2, <2>4, <2>5 DEF APIInv
<1>8. ASSUME NEW p \in Handlers, Answer(p) PROVE APIInv'
  <2>1. /\ post[p] = "counted" /\ post' = [post EXCEPT ![p] = "idle"]
        /\ UNCHANGED <<counted, loaded, scrape>>
    BY <1>8 DEF Answer, PostTo
  <2>2. Open' = Open
    BY <1>0, <2>1 DEF Open
  <2>3. APITypes'
    BY <1>0, <2>1, <2>2 DEF APITypes
  <2>4. running
    BY <1>0, <2>1 DEF DeadInv
  <2>5. running' = running /\ pc'[p] = "idle" /\ \A q \in Handlers : q # p => pc'[q] = pc[q]
    <3>1. CASE pc[p] = "returned"
      BY <1>0, <1>8, <3>1 DEF Answer, Respond, Goto
    <3>2. CASE pc[p] # "returned"
      BY <1>0, <1>8, <2>1, <3>2 DEF Answer, vars, PostInv
    <3>3. QED  BY <3>1, <3>2
  <2>6. PostInv' /\ DeadInv' /\ ScrapeInv'
    BY <1>0, <2>1, <2>4, <2>5 DEF PostInv, DeadInv, ScrapeInv
  <2>7. QED  BY <2>3, <2>6 DEF APIInv
<1>9. ASSUME NEW s \in Scrapers, NEW x \in Scrapes, scrape' = [scrape EXCEPT ![s] = x], running,
             UNCHANGED <<vars, post, counted, loaded>>,
             x.at = "counting" => x.success = counted["success"]
      PROVE  APIInv'
  <2>1. Open' = Open
    BY <1>9 DEF Open
  <2>2. scrape' \in [Scrapers -> Scrapes]
    BY <1>0, <1>9
  <2>3. APITypes'
    BY <1>0, <1>9, <2>1, <2>2 DEF APITypes
  <2>4. PostInv' /\ DeadInv'
    BY <1>0, <1>9 DEF PostInv, DeadInv, vars
  <2>5. ScrapeInv'
    BY <1>0, <1>9 DEF ScrapeInv
  <2>6. QED  BY <2>3, <2>4, <2>5 DEF APIInv
<1>10. counted["success"] \in 0..MaxPosts /\ Cardinality(Names) \in Nat
       /\ Cardinality(Registered(services)) \in 0..Cardinality(Names)
  <2>1. counted["success"] \in Nat /\ counted["failure"] \in Nat
    BY <1>0 DEF APITypes, Counts
  <2>2. Cardinality(Open) \in Nat /\ counted["success"] + counted["failure"] + Cardinality(Open) <= MaxPosts
    BY <1>0, OpenFinite DEF APITypes
  <2>3. counted["success"] \in 0..MaxPosts
    BY <2>1, <2>2
  <2>4. QED  BY <1>0, <2>3, RegisteredFinite, FS_CardinalityType
<1>11. ASSUME NEW s \in Scrapers, ReadCounters(s) PROVE APIInv'
  <2> DEFINE x == [at |-> "counting", success |-> counted["success"], managed |-> 0]
  <2>1. x \in Scrapes /\ x.at = "counting" /\ x.success = counted["success"]
    BY <1>10 DEF Scrapes
  <2>2. scrape' = [scrape EXCEPT ![s] = x] /\ running /\ UNCHANGED <<vars, post, counted, loaded>>
    BY <1>11 DEF ReadCounters
  <2> HIDE DEF x
  <2>3. PICK y \in Scrapes : y = x
    BY <2>1
  <2>4. QED  BY <1>9, <2>1, <2>2, <2>3
<1>12. ASSUME NEW s \in Scrapers, CountServices(s) PROVE APIInv'
  <2> DEFINE k == Cardinality(Registered(services))
  <2>1. /\ scrape' = [scrape EXCEPT ![s].at = "done", ![s].managed = k]
        /\ running /\ UNCHANGED <<vars, post, counted, loaded>>
    BY <1>12 DEF CountServices, CanRead
  <2>2. scrape' = [scrape EXCEPT ![s] = [scrape[s] EXCEPT !.at = "done", !.managed = k]]
    BY <1>0, <2>1
  <2>3. scrape' = [scrape EXCEPT ![s] = [at |-> "done", success |-> scrape[s].success, managed |-> k]]
    <3>1. [scrape[s] EXCEPT !.at = "done", !.managed = k]
            = [[scrape[s] EXCEPT !.at = "done"] EXCEPT !.managed = k]
      OBVIOUS
    <3>2. [scrape[s] EXCEPT !.at = "done"]
            = [at |-> "done", success |-> scrape[s].success, managed |-> scrape[s].managed]
      BY <1>0 DEF Scrapes
    <3>3. [scrape[s] EXCEPT !.at = "done", !.managed = k]
            = [at |-> "done", success |-> scrape[s].success, managed |-> k]
      <4>1. PICK b : b = [scrape[s] EXCEPT !.at = "done"]
        OBVIOUS
      <4>2. b = [at |-> "done", success |-> scrape[s].success, managed |-> scrape[s].managed]
        BY <3>2, <4>1
      <4>3. [scrape[s] EXCEPT !.at = "done", !.managed = k] = [b EXCEPT !.managed = k]
        BY <3>1, <4>1
      <4>4. [b EXCEPT !.managed = k] = [at |-> "done", success |-> scrape[s].success, managed |-> k]
        BY <4>2
      <4>5. QED  BY <4>3, <4>4
    <3>4. QED  BY <2>2, <3>3, Zenon
  <2>4. PICK y \in Scrapes : y = [at |-> "done", success |-> scrape[s].success, managed |-> k]
    BY <1>0, <1>10 DEF Scrapes
  <2>5. y.at = "done" /\ scrape' = [scrape EXCEPT ![s] = y]
    BY <2>3, <2>4
  <2>6. QED  BY <1>9, <2>1, <2>5
<1>13. ASSUME NEW s \in Scrapers, SendPage(s) PROVE APIInv'
  <2>1. scrape' = [scrape EXCEPT ![s] = NoScrape] /\ scrape[s].at = "done"
        /\ UNCHANGED <<vars, post, counted, loaded>>
    BY <1>13 DEF SendPage
  <2>2. NoScrape \in Scrapes /\ NoScrape.at = "idle"
    BY <1>10 DEF NoScrape, Scrapes
  <2>3. running
    BY <1>0, <2>1, <2>2 DEF DeadInv
  <2>4. QED  BY <1>9, <2>1, <2>2, <2>3
<1>14. QED
  BY <1>1, <1>2, <1>3, <1>4, <1>5, <1>6, <1>7, <1>8, <1>11, <1>12, <1>13 DEF APINext

-----------------------------------------------------------------------------
(* The sum that every step keeps. *)

\* Entries the map has and the counters do not: those being written, and those
\* whose handler is about to count them.
Pending == {p \in Handlers : \/ pc[p] \in Inserted
                             \/ outcome[p] = "created" /\ post[p] = "creating"}

CountInv == Cardinality(Registered(services)) = loaded + counted["success"] + Cardinality(Pending)

\* What is pending is finite.
LEMMA PendingFinite ==
  ASSUME IsFiniteSet(Handlers)
  PROVE  IsFiniteSet(Pending) /\ Cardinality(Pending) \in Nat
<1>1. Pending \subseteq Handlers
  BY DEF Pending
<1>2. QED  BY <1>1, FS_Subset, FS_CardinalityType

\* The first state: nothing anywhere.
LEMMA CountInvInit == APIInit => CountInv
<1> SUFFICES ASSUME APIInit PROVE CountInv
  OBVIOUS
<1>1. Pending = {} /\ Registered(services) = {}
  BY EmptyMap DEF APIInit, Init, Pending, Inserted
<1>2. Cardinality(Pending) = 0 /\ Cardinality(Registered(services)) = 0
  BY <1>1, FS_EmptySet
<1>3. loaded = 0 /\ counted["success"] = 0
  BY DEF APIInit, ZeroCounts
<1>4. QED  BY <1>2, <1>3 DEF CountInv

\* A step of create() adds an entry and a pending handler, removes both, or
\* leaves both sets alone.
LEMMA CreateCounts ==
  ASSUME IsFiniteSet(Names), IsFiniteSet(Handlers), IInv, APIInv, CountInv,
         NEW p \in Handlers, CreateStep(p)
  PROVE  CountInv'
<1> DEFINE R == Registered(services)
           name == req[p].name
<1>0. /\ Create(p) /\ UNCHANGED <<post, counted, loaded>>
      /\ TypeOK /\ pc[p] # "idle" /\ pc[p] # "returned"
      /\ services \in Maps /\ pc \in [Handlers -> Locations]
      /\ outcome \in [Handlers -> {"none", "created", "exists", "failed"}]
  <2>1. TypeOK /\ Create(p) /\ UNCHANGED <<post, counted, loaded>>
    BY DEF CreateStep, apiVars, IInv, TypeInv
  <2>2. QED  BY <2>1, CreateMoves DEF TypeOK
<1>1. /\ post[p] = "creating" /\ post'[p] = "creating" /\ outcome[p] = "none"
      /\ name \in Names /\ req[p].def \in Defs /\ req[p].def # NoDef
  BY <1>0, RequestType, NoDefAssumption DEF IInv, TypeInv, BusyInv, OutcomeInv, APIInv, PostInv, APITypes
<1>2. /\ IsFiniteSet(R) /\ Cardinality(R) \in Nat
      /\ IsFiniteSet(Pending) /\ Cardinality(Pending) \in Nat
  BY <1>0, RegisteredFinite, PendingFinite
<1>3. loaded \in Nat /\ counted["success"] \in Nat /\ loaded' = loaded /\ counted' = counted
  BY <1>0, FS_CardinalityType DEF APIInv, APITypes, Counts
<1>4. ASSUME services' = services, Pending' = Pending PROVE CountInv'
  BY <1>3, <1>4 DEF CountInv
<1>5. CASE Lock(p) \/ Duplicate(p)
  <2>1. Pending' = Pending
    BY <1>0, <1>1, <1>5 DEF Lock, Duplicate, Return, Goto, Pending, Inserted
  <2>2. QED  BY <1>4, <1>5, <2>1 DEF Lock, Duplicate
<1>6. CASE Insert(p)
  <2>1. /\ services[name] = NoDef /\ services' = [services EXCEPT ![name] = req[p].def]
        /\ pc[p] = "locked" /\ pc' = [pc EXCEPT ![p] = "persist"] /\ outcome' = outcome /\ post' = post
    BY <1>0, <1>6 DEF Insert, Goto
  <2>2. Registered(services') = R \cup {name} /\ name \notin R
    BY <1>0, <1>1, <2>1 DEF Registered, Maps
  <2>3. Pending' = Pending \cup {p} /\ p \notin Pending
    BY <1>0, <1>1, <2>1 DEF Pending, Inserted
  <2>4. /\ Cardinality(Registered(services')) = Cardinality(R) + 1
        /\ Cardinality(Pending') = Cardinality(Pending) + 1
    BY <1>2, <2>2, <2>3, FS_AddElement
  <2>5. QED  BY <1>2, <1>3, <2>4 DEF CountInv
<1>7. CASE KeepInMemory(p) \/ Close(p)
  <2>1. Pending' = Pending
    BY <1>0, <1>1, <1>7 DEF KeepInMemory, Close, Return, Goto, Pending, Inserted
  <2>2. QED  BY <1>4, <1>7, <2>1 DEF KeepInMemory, Close
<1>8. CASE Truncate(p) \/ WritePart(p) \/ WriteAll(p)
  <2>1. Pending' = Pending
    BY <1>0, <1>1, <1>8 DEF Truncate, WritePart, WriteAll, Goto, Pending, Inserted
  <2>2. QED  BY <1>4, <1>8, <2>1 DEF Truncate, WritePart, WriteAll
<1>9. CASE PrepareFails(p) \/ WriteFails(p) \/ CloseFails(p)
  <2>1. /\ pc[p] \in Inserted /\ services' = [services EXCEPT ![name] = NoDef]
        /\ pc' = [pc EXCEPT ![p] = "returned"] /\ outcome' = [outcome EXCEPT ![p] = "failed"]
        /\ post' = post
    BY <1>0, <1>9 DEF PrepareFails, WriteFails, CloseFails, Rollback, Return, Goto, Inserted
  <2>2. services[name] = req[p].def
    BY <2>1 DEF IInv, InsertedInv
  <2>3. Registered(services') = R \ {name} /\ name \in R
    BY <1>0, <1>1, <2>1, <2>2 DEF Registered, Maps
  <2>4. Pending' = Pending \ {p} /\ p \in Pending
    BY <1>0, <1>1, <2>1 DEF Pending, Inserted
  <2>5. Cardinality(R \ {name}) = Cardinality(R) - 1
    BY <1>2, <2>3, FS_RemoveElement
  <2>6. Cardinality(Pending \ {p}) = Cardinality(Pending) - 1
    BY <1>2, <2>4, FS_RemoveElement
  <2>7. /\ Cardinality(Registered(services')) = Cardinality(R) - 1
        /\ Cardinality(Pending') = Cardinality(Pending) - 1
    BY <2>3, <2>4, <2>5, <2>6
  <2>8. QED  BY <1>2, <1>3, <2>7 DEF CountInv
<1>10. QED
  BY <1>0, <1>5, <1>6, <1>7, <1>8, <1>9 DEF Create, Write

\* Counting a success takes the handler out of the pending ones.
LEMMA RecordCounts ==
  ASSUME IsFiniteSet(Handlers), IInv, APIInv, CountInv, NEW p \in Handlers, Record(p)
  PROVE  CountInv'
<1>1. /\ post[p] = "rejected" \/ (post[p] = "creating" /\ pc[p] = "returned")
      /\ post' = [post EXCEPT ![p] = "counted"] /\ UNCHANGED <<vars, loaded>>
      /\ counted' = [counted EXCEPT ![IF outcome[p] = "created" THEN "success" ELSE "failure"] = @ + 1]
  BY DEF Record, PostTo
<1>2. /\ post \in [Handlers -> {"idle", "creating", "rejected", "counted"}] /\ counted \in Counts
      /\ pc[p] \in {"idle", "returned"} /\ (outcome[p] = "created" => post[p] = "creating")
  BY <1>1 DEF IInv, OutcomeInv, APIInv, APITypes, PostInv
<1>3. /\ services' = services /\ pc' = pc /\ outcome' = outcome /\ loaded' = loaded
  BY <1>1 DEF vars
<1>4. counted["success"] \in Nat /\ loaded \in Nat
  BY <1>2 DEF Counts, APIInv, APITypes
<1>5. CASE outcome[p] = "created"
  <2>1. Pending' = Pending \ {p} /\ p \in Pending
    BY <1>1, <1>2, <1>3, <1>5 DEF Pending, Inserted
  <2>2. Cardinality(Pending') = Cardinality(Pending) - 1 /\ Cardinality(Pending) \in Nat
    BY <2>1, PendingFinite, FS_RemoveElement
  <2>3. counted'["success"] = counted["success"] + 1
    BY <1>1, <1>2, <1>5 DEF Counts
  <2>4. QED  BY <1>3, <1>4, <2>2, <2>3 DEF CountInv
<1>6. CASE outcome[p] # "created"
  <2>1. Pending' = Pending
    BY <1>1, <1>2, <1>3, <1>6 DEF Pending, Inserted
  <2>2. counted'["success"] = counted["success"]
    BY <1>1, <1>2, <1>6 DEF Counts
  <2>3. QED  BY <1>3, <2>1, <2>2 DEF CountInv
<1>7. QED  BY <1>5, <1>6

\* Every step keeps the sum.
LEMMA CountInvStep ==
  ASSUME IsFiniteSet(Names), IsFiniteSet(Handlers)
  PROVE  IInv /\ APIInv /\ CountInv /\ [APINext]_allVars => CountInv'
<1> SUFFICES ASSUME IInv, APIInv, CountInv, [APINext]_allVars PROVE CountInv'
  OBVIOUS
<1>0. /\ post \in [Handlers -> {"idle", "creating", "rejected", "counted"}]
      /\ pc \in [Handlers -> Locations]
      /\ outcome \in [Handlers -> {"none", "created", "exists", "failed"}]
  BY DEF IInv, TypeInv, TypeOK, APIInv, APITypes
<1>a. ASSUME UNCHANGED <<services, counted, loaded>>, Pending' = Pending PROVE CountInv'
  BY <1>a DEF CountInv
<1>1. CASE UNCHANGED allVars
  <2>1. Pending' = Pending
    BY <1>1 DEF allVars, vars, apiVars, Pending
  <2>2. QED  BY <1>1, <1>a, <2>1 DEF allVars, vars, apiVars
<1>2. CASE StartAPI
  <2>1. /\ ~running /\ UNCHANGED <<post, counted, pc, outcome>>
        /\ loaded' = Cardinality(Registered(services'))
    BY <1>2 DEF StartAPI, Start
  <2>2. /\ counted["success"] = 0
        /\ \A p \in Handlers : post[p] = "idle" /\ pc[p] = "idle"
    BY <2>1 DEF APIInv, DeadInv, ZeroCounts, IInv, TypeInv, BusyInv
  <2>3. Pending' = {}
    BY <2>1, <2>2 DEF Pending, Inserted
  <2>4. Cardinality(Pending') = 0
    BY <2>3, FS_EmptySet
  <2>5. services' \in Maps
    BY <1>2, EmptyMap DEF StartAPI, Start, Contents, IInv, TypeInv, TypeOK, Files
  <2>6. Cardinality(Registered(services')) \in Nat
    BY <2>5, RegisteredFinite
  <2>7. QED  BY <2>1, <2>2, <2>4, <2>6 DEF CountInv
<1>3. CASE CrashAPI
  <2>1. /\ pc' = [p \in Handlers |-> "idle"] /\ outcome' = [p \in Handlers |-> "none"]
        /\ counted'["success"] = 0 /\ loaded' = 0 /\ services' = NoServices
    BY <1>3 DEF CrashAPI, Crash, ZeroCounts
  <2>2. Pending' = {} /\ Registered(services') = {}
    BY <2>1, EmptyMap DEF Pending, Inserted
  <2>3. Cardinality(Pending') = 0 /\ Cardinality(Registered(services')) = 0
    BY <2>2, FS_EmptySet
  <2>4. QED  BY <2>1, <2>3 DEF CountInv
<1>4. ASSUME NEW p \in Handlers, NEW r \in Requests, Accept(p, r) PROVE CountInv'
  <2>1. /\ UNCHANGED <<services, counted, loaded, outcome>>
        /\ pc[p] = "idle" /\ pc' = [pc EXCEPT ![p] = "called"] /\ post' = [post EXCEPT ![p] = "creating"]
    BY <1>4 DEF Accept, Invoke, Goto, PostTo
  <2>2. outcome[p] = "none"
    BY <2>1 DEF IInv, OutcomeInv
  <2>3. Pending' = Pending
    BY <1>0, <2>1, <2>2 DEF Pending, Inserted
  <2>4. QED  BY <1>a, <2>1, <2>3
<1>5. ASSUME NEW p \in Handlers, Reject(p) PROVE CountInv'
  <2>1. /\ UNCHANGED <<services, counted, loaded, outcome, pc>>
        /\ post[p] = "idle" /\ post' = [post EXCEPT ![p] = "rejected"]
    BY <1>5 DEF Reject, CanPost, PostTo, vars
  <2>2. Pending' = Pending
    BY <1>0, <2>1 DEF Pending
  <2>3. QED  BY <1>a, <2>1, <2>2
<1>6. ASSUME NEW p \in Handlers, CreateStep(p) PROVE CountInv'
  BY <1>6, CreateCounts
<1>7. ASSUME NEW p \in Handlers, Record(p) PROVE CountInv'
  BY <1>7, RecordCounts
<1>8. ASSUME NEW p \in Handlers, Answer(p) PROVE CountInv'
  <2>1. /\ post[p] = "counted" /\ post' = [post EXCEPT ![p] = "idle"]
        /\ UNCHANGED <<services, counted, loaded>> /\ pc[p] \in {"idle", "returned"}
    BY <1>8 DEF Answer, PostTo, Respond, vars, APIInv, PostInv
  <2>2. /\ pc'[p] \in {"idle", "returned"}
        /\ \A q \in Handlers : q # p => pc'[q] = pc[q] /\ outcome'[q] = outcome[q]
    <3>1. CASE pc[p] = "returned"
      BY <1>0, <1>8, <3>1 DEF Answer, Respond, Goto
    <3>2. CASE pc[p] # "returned"
      BY <1>8, <2>1, <3>2 DEF Answer, vars
    <3>3. QED  BY <3>1, <3>2
  <2>3. Pending' = Pending
    BY <1>0, <2>1, <2>2 DEF Pending, Inserted
  <2>4. QED  BY <1>a, <2>1, <2>3
<1>9. ASSUME NEW s \in Scrapers, ReadCounters(s) \/ CountServices(s) \/ SendPage(s) PROVE CountInv'
  <2>1. UNCHANGED <<vars, post, counted, loaded>>
    BY <1>9 DEF ReadCounters, CountServices, SendPage
  <2>2. Pending' = Pending
    BY <2>1 DEF vars, Pending
  <2>3. QED  BY <1>a, <2>1, <2>2 DEF vars
<1>10. QED
  BY <1>1, <1>2, <1>3, <1>4, <1>5, <1>6, <1>7, <1>8, <1>9 DEF APINext

-----------------------------------------------------------------------------
(* The theorems. *)

\* All three invariants always hold.
LEMMA APIInvariance ==
  ASSUME IsFiniteSet(Names), IsFiniteSet(Handlers)
  PROVE  APISpec => [](IInv /\ APIInv /\ CountInv)
<1>1. APIInit => APIInv /\ CountInv
  BY APIInvInit, CountInvInit
<1>2. IInv /\ IInv' /\ APIInv /\ [APINext]_allVars => APIInv'
  BY APIInvStep
<1>3. IInv /\ APIInv /\ CountInv /\ [APINext]_allVars => CountInv'
  BY CountInvStep
<1>4. QED  BY <1>1, <1>2, <1>3, StoreInvariant, PTL DEF APISpec

\* Every variable of the API keeps its type: in particular the counters never
\* exceed the number of POSTs, so none is counted twice.  (metrics.go:61-69)
THEOREM APITypesHold ==
  ASSUME IsFiniteSet(Names), IsFiniteSet(Handlers)
  PROVE  APISpec => []APITypeOK
<1>1. IInv /\ APIInv => APITypeOK
  <2> SUFFICES ASSUME IInv, APIInv PROVE APITypeOK
    OBVIOUS
  <2>1. APITypes /\ TypeOK
    BY DEF APIInv, IInv, TypeInv
  <2>2. counted \in [{"success", "failure"} -> 0..MaxPosts]
    BY <2>1, CountsBounded, OpenFinite DEF APITypes
  <2>3. QED  BY <2>1, <2>2 DEF APITypes, Scrapes, APITypeOK
<1>2. QED  BY <1>1, APIInvariance, PTL

\* With nobody in the critical section, what is pending is what is uncounted.
LEMMA SumWhenReadable == IInv /\ CountInv => CountersAddUp
<1> SUFFICES ASSUME IInv, CountInv, CanRead
             PROVE  Cardinality(Registered(services)) = loaded + counted["success"] + Uncounted
  BY DEF CountersAddUp
<1>1. \A p \in Handlers : pc[p] \notin Inserted
  BY NobodyAssumption DEF IInv, LockInv, CanRead, Critical, Inserted
<1>2. Pending = {p \in Handlers : outcome[p] = "created" /\ post[p] = "creating"}
  BY <1>1 DEF Pending
<1>3. QED  BY <1>2 DEF CountInv, Uncounted

\* Whenever a reader can get in, the map holds what was loaded and one entry for
\* each success that was or is about to be counted.  (server.go:92-104)
THEOREM CountersHold ==
  ASSUME IsFiniteSet(Names), IsFiniteSet(Handlers)
  PROVE  APISpec => []CountersAddUp
BY APIInvariance, SumWhenReadable, PTL

\* The gauge and the counter on one page of metrics agree.  (metrics.go:71-97)
THEOREM ScrapesConsistent ==
  ASSUME IsFiniteSet(Names), IsFiniteSet(Handlers)
  PROVE  APISpec => ScrapeIsConsistent
<1>1. APIInv /\ CountersAddUp /\ [APINext]_allVars
        => [\A s \in Scrapers : scrape[s].at = "counting" /\ scrape'[s].at = "done"
              => scrape'[s].managed = loaded + scrape[s].success + Uncounted]_allVars
  <2> SUFFICES ASSUME APIInv, CountersAddUp, APINext, NEW s \in Scrapers,
                      scrape[s].at = "counting", scrape'[s].at = "done"
               PROVE  scrape'[s].managed = loaded + scrape[s].success + Uncounted
    OBVIOUS
  <2>0. scrape \in [Scrapers -> Scrapes] /\ scrape[s].success = counted["success"]
    BY DEF APIInv, APITypes, ScrapeInv
  <2>1. scrape' # scrape
    OBVIOUS
  <2>2. ~CrashAPI
    BY DEF CrashAPI, NoScrape
  <2>3. PICK t \in Scrapers : ReadCounters(t) \/ CountServices(t) \/ SendPage(t)
    BY <2>1, <2>2 DEF APINext, StartAPI, Accept, Reject, CreateStep, Record, Answer, apiVars
  <2>4. t = s /\ CountServices(s)
    BY <2>0, <2>3 DEF ReadCounters, CountServices, SendPage, NoScrape
  <2>5. CanRead /\ scrape'[s].managed = Cardinality(Registered(services))
    BY <2>0, <2>4 DEF CountServices, Scrapes
  <2>6. QED  BY <2>0, <2>5 DEF CountersAddUp
<1>2. QED
  BY <1>1, APIInvariance, CountersHold, PTL DEF APISpec, ScrapeIsConsistent

\* Of a group of goroutines one does not wait for the others: the holder of the
\* store's lock if it is in the group, else a writer that waits for that lock,
\* else a scrape, else anyone.
LEMMA SomebodyGoesOn == IInv /\ APIInv => NoDeadlock
<1> SUFFICES ASSUME IInv, APIInv, NEW S \in SUBSET (Handlers \cup Scrapers), S # {}
             PROVE  \E a \in S : \A b \in S : ~WaitsFor(a, b)
  BY DEF NoDeadlock
<1>1. ASSUME lock \in S PROVE \A b \in S : ~WaitsFor(lock, b)
  <2>1. lock \in Handlers /\ lock \notin Scrapers
    <3>1. lock \in Handlers \cup {Nobody}
      BY DEF IInv, TypeInv, TypeOK
    <3>2. QED  BY <1>1, <3>1, ScrapersAssumption, NobodyAssumption
  <2>2. pc[lock] \in Critical
    BY <2>1 DEF IInv, LockInv
  <2>3. pc[lock] \notin {"idle", "called", "returned"}
    BY <2>2 DEF Critical
  <2>4. post[lock] # "rejected"
    BY <2>1, <2>3 DEF APIInv, PostInv
  <2>5. QED  BY <2>1, <2>3, <2>4 DEF WaitsFor
<1>2. CASE lock \in S
  BY <1>1, <1>2
<1>3. ASSUME lock \notin S, NEW a \in S \cap Handlers, pc[a] = "called"
      PROVE  \A b \in S : ~WaitsFor(a, b)
  <2>1. a \notin Scrapers /\ post[a] # "rejected"
    BY <1>3, ScrapersAssumption DEF APIInv, PostInv
  <2>2. QED  BY <1>3, <2>1 DEF WaitsFor
<1>4. ASSUME lock \notin S, \A b \in S \cap Handlers : pc[b] # "called", NEW a \in S \cap Scrapers
      PROVE  \A b \in S : ~WaitsFor(a, b)
  BY <1>4, ScrapersAssumption DEF WaitsFor
<1>5. ASSUME S \cap Scrapers = {}, \A b \in S \cap Handlers : pc[b] # "called", NEW a \in S
      PROVE  \A b \in S : ~WaitsFor(a, b)
  BY <1>5 DEF WaitsFor
<1>6. QED  BY <1>2, <1>3, <1>4, <1>5

\* No set of handlers and scrapers waits in a circle at the two locks, however
\* many there are.  (metrics.go:72-94, store.go:37, server.go:92-104)
THEOREM NoCircularWait ==
  ASSUME IsFiniteSet(Names), IsFiniteSet(Handlers)
  PROVE  APISpec => []NoDeadlock
BY APIInvariance, SomebodyGoesOn, PTL

\* The API runs the store as ServiceStore describes it: what is proved of the store
\* alone holds under its handlers and scrapes.  (server.go:71-110)
THEOREM RunsTheStore == APISpec => Spec
<1>1. APIInit => Init
  BY DEF APIInit
<1>2. QED  BY <1>1, APIStepIsStoreStep, PTL DEF APISpec, Spec

\* So, whatever the disk does, what a client of the API is told is served, a 409
\* speaks of a registered service, one creator of a name wins, and the POSTs of
\* one life are those of the register-once map.  (server.go:92-104, store.go:36-84)
THEOREM ClientsSeeTheRegistry ==
  APISpec => [](ToldIsServed /\ ConflictIsReal /\ OneWinner) /\ ImplementsRegistryWhileAlive
BY RunsTheStore, StoreKeepsItsWord, ConflictsAreReal, OneCreatorWins, LifeIsRegistry, PTL
=============================================================================
