--------------------------- MODULE RegistrationAPI ---------------------------
(***************************************************************************)
(* POST /services and GET /metrics (server.go, metrics.go) on top of the   *)
(* service store.  A handler validates the body, calls create(), counts    *)
(* the result under the metrics lock and answers.  A scrape holds the      *)
(* metrics lock for reading while it asks the store for the number of      *)
(* services, which needs the store's lock: the only place where the two    *)
(* locks nest.                                                             *)
(*                                                                         *)
(* Reads of the store other than a scrape's are left to ServiceStore.      *)
(***************************************************************************)
EXTENDS ServiceStore, FiniteSets

CONSTANTS Scrapers,   \* goroutines that serve GET /metrics
          MaxPosts    \* bound: registrations served in one life of the process

ASSUME MaxPostsAssumption == MaxPosts \in Nat
ASSUME ScrapersAssumption == Scrapers \cap (Handlers \cup {Nobody}) = {}

VARIABLES
  post,      \* where each handler of POST /services stands
  counted,   \* serviceRegistrationsByResult
  loaded,    \* history: services the process had when it started
  scrape     \* what each scraper has read so far

apiVars == <<post, counted, loaded, scrape>>
allVars == <<vars, apiVars>>

NoScrape == [at |-> "idle", success |-> 0, managed |-> 0]

APITypeOK == /\ TypeOK
             /\ post \in [Handlers -> {"idle", "creating", "rejected", "counted"}]
             /\ counted \in [{"success", "failure"} -> 0..MaxPosts]
             /\ loaded \in 0..Cardinality(Names)
             /\ scrape \in [Scrapers -> [at : {"idle", "counting", "done"},
                                         success : 0..MaxPosts,
                                         managed : 0..Cardinality(Names)]]

Served == Cardinality({p \in Handlers : post[p] # "idle"})
ZeroCounts == [r \in {"success", "failure"} |-> 0]

APIInit == /\ Init
           /\ post = [p \in Handlers |-> "idle"]
           /\ counted = ZeroCounts
           /\ loaded = 0
           /\ scrape = [s \in Scrapers |-> NoScrape]

\* The store is loaded and the counters are made, all zero.
StartAPI == /\ Start
            /\ loaded' = Cardinality(Registered(services'))
            /\ UNCHANGED <<post, counted, scrape>>

\* The counters, like the requests in progress, die with the process.
CrashAPI == /\ Crash
            /\ post' = [p \in Handlers |-> "idle"]
            /\ counted' = ZeroCounts
            /\ loaded' = 0
            /\ scrape' = [s \in Scrapers |-> NoScrape]

-----------------------------------------------------------------------------
(* POST /services *)

PostTo(p, at) == post' = [post EXCEPT ![p] = at]

CanPost(p) == /\ running /\ post[p] = "idle"
              /\ counted["success"] + counted["failure"] + Served < MaxPosts

\* The body decodes and passes the policy.
Accept(p, r) == /\ CanPost(p)
                /\ Invoke(p, r)
                /\ PostTo(p, "creating")
                /\ UNCHANGED <<counted, loaded, scrape>>

\* It does not: create() is not called.
Reject(p) == /\ CanPost(p)
             /\ PostTo(p, "rejected")
             /\ UNCHANGED <<vars, counted, loaded, scrape>>

\* Faulty: the metrics lock is not taken.
MetricsUnlocked == TRUE

\* The metrics lock can be had for writing: no scrape is between its two reads.
MetricsFree == \A s \in Scrapers : scrape[s].at # "counting"

\* Faulty: create() takes the metrics lock before it lets go of the store's.
CreateStepNested(p) == /\ Create(p) /\ UNCHANGED apiVars
                       /\ pc'[p] = "returned" => MetricsFree

CreateStep(p) == Create(p) /\ UNCHANGED apiVars

\* Faulty: two paths count the same registration.
RecordTwice(p) == /\ MetricsFree
                  /\ \/ post[p] = "creating" /\ pc[p] = "returned"
                     \/ post[p] = "rejected"
                  /\ LET r == IF outcome[p] = "created" THEN "success" ELSE "failure"
                     IN  counted' = [counted EXCEPT ![r] = @ + 2]
                  /\ PostTo(p, "counted")
                  /\ UNCHANGED <<vars, loaded, scrape>>

\* recordServiceRegistration()
Record(p) == /\ MetricsFree
             /\ \/ post[p] = "creating" /\ pc[p] = "returned"
                \/ post[p] = "rejected"
             /\ LET r == IF outcome[p] = "created" THEN "success" ELSE "failure"
                IN  counted' = [counted EXCEPT ![r] = @ + 1]
             /\ PostTo(p, "counted")
             /\ UNCHANGED <<vars, loaded, scrape>>

\* 201, 409 or 500 after create(), 400 without it.
Answer(p) == /\ post[p] = "counted"
             /\ PostTo(p, "idle")
             /\ IF pc[p] = "returned" THEN Respond(p) ELSE UNCHANGED vars
             /\ UNCHANGED <<counted, loaded, scrape>>

-----------------------------------------------------------------------------
(* GET /metrics *)

\* render() takes the metrics lock for reading and prints the counters.
ReadCounters(s) == /\ running /\ scrape[s].at = "idle"
                   /\ scrape' = [scrape EXCEPT ![s] = [at |-> "counting",
                                                       success |-> counted["success"],
                                                       managed |-> 0]]
                   /\ UNCHANGED <<vars, post, counted, loaded>>

\* Still holding it, render() calls store.count() and returns.
CountServices(s) == /\ scrape[s].at = "counting" /\ CanRead
                    /\ scrape' = [scrape EXCEPT ![s].at = "done",
                                                ![s].managed = Cardinality(Registered(services))]
                    /\ UNCHANGED <<vars, post, counted, loaded>>

\* The page is written to the client.
SendPage(s) == /\ scrape[s].at = "done"
               /\ scrape' = [scrape EXCEPT ![s] = NoScrape]
               /\ UNCHANGED <<vars, post, counted, loaded>>

-----------------------------------------------------------------------------
APINext == \/ StartAPI
           \/ CrashAPI
           \/ \E p \in Handlers : \/ \E r \in Requests : Accept(p, r)
                                  \/ Reject(p)
                                  \/ CreateStep(p)
                                  \/ Record(p)
                                  \/ Answer(p)
           \/ \E s \in Scrapers : ReadCounters(s) \/ CountServices(s) \/ SendPage(s)

APISpec == APIInit /\ [][APINext]_allVars

\* Goroutines run, system calls return, and neither readers nor writers of a Go
\* RWMutex starve: a writer that waits keeps later readers out, and readers that
\* wait get in when the writer unlocks.
APIFairness == 
  /\ WF_allVars(StartAPI)
  /\ \A p \in Handlers : /\ WF_allVars(CreateStep(p) /\ pc[p] # "called")
                         /\ SF_allVars(CreateStep(p) /\ pc[p] = "called")
                         /\ SF_allVars(Record(p))
                         /\ WF_allVars(Answer(p))
  /\ \A s \in Scrapers : SF_allVars(CountServices(s)) /\ WF_allVars(SendPage(s))

APIFairSpec == APISpec /\ APIFairness

-----------------------------------------------------------------------------
(* Properties. *)

\* Registrations the process made that are not in the counters yet.
Uncounted == Cardinality({p \in Handlers : outcome[p] = "created" /\ post[p] = "creating"})

\* Whenever a reader can get in, the map holds the services loaded at the start,
\* one for each success counted, and those of handlers about to count theirs.
\* No failure path leaves an entry behind.  (server.go:92-104, store.go:47-50)
CountersAddUp == 
  CanRead => Cardinality(Registered(services)) = loaded + counted["success"] + Uncounted

\* The gauge and the counter on one page agree: they differ by what was loaded at
\* the start and by creations that had not been counted when the page was made.
\* Nothing is counted between the two reads.  (metrics.go:71-97)
ScrapeIsConsistent ==
  [][\A s \in Scrapers : scrape[s].at = "counting" /\ scrape'[s].at = "done"
       => scrape'[s].managed = loaded + scrape[s].success + Uncounted]_allVars

\* Goroutine a cannot go on before b does: at store.mu, where a waiting Lock()
\* also keeps later readers out, or at metrics.mu.
WaitsFor(a, b) ==
  \/ /\ a \in Handlers /\ pc[a] = "called"
     /\ lock = b
  \/ /\ a \in Scrapers /\ scrape[a].at = "counting"
     /\ lock = b \/ (b \in Handlers /\ pc[b] = "called")
  \/ /\ a \in Handlers
     /\ post[a] = "rejected" \/ (post[a] = "creating" /\ pc[a] = "returned")
     /\ b \in Scrapers /\ scrape[b].at = "counting"

\* Handlers and scrapers never wait for each other in a circle: in every group of
\* them one waits for nobody in the group, although scrapes nest the two locks
\* and every handler takes both.  (metrics.go:72-94, store.go:37, server.go:92-104)
NoDeadlock ==
  \A S \in SUBSET (Handlers \cup Scrapers) :
    S # {} => \E a \in S : \A b \in S : ~WaitsFor(a, b)

\* A scrape that has begun ends, although it waits for the store's lock while it
\* keeps handlers from counting: no handler waits for it with that lock held.
\* (metrics.go:72-94, server.go:92-104)
ScrapeEnds == \A s \in Scrapers : scrape[s].at = "counting" ~> scrape[s].at # "counting"

\* Every POST is answered, whatever scrapes and other POSTs do.  (server.go:77-107)
PostAnswered == \A p \in Handlers : post[p] # "idle" ~> post[p] = "idle"
=============================================================================
