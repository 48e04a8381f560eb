-------------------------- MODULE DeploymentsProofs --------------------------
(***************************************************************************)
(* What Deployments guarantees for any number of handlers, services,       *)
(* attempts and instants.  The handlers' deployer is LazyClient            *)
(* (RunsLazyClient), so its theorems hold here.  For the rest: the numbers *)
(* of attempts in progress and of those that ended are all different, and  *)
(* a handler that records has counted before.                              *)
(***************************************************************************)
EXTENDS Deployments, LazyClientProofs, FiniteSetTheorems

Ends == [attempt : 1..MaxAttempts, result : Results, duration : Durations]

\* Counters, but for their bounds, have their types.
JobTypes == /\ job \in [Handlers -> Jobs]
            /\ counted \in [Results -> Nat]
            /\ within \in [Results -> [1..Buckets -> Nat]]
            /\ bucket \subseteq Records
            /\ begun \in 0..MaxAttempts
            /\ asked \subseteq 1..MaxAttempts
            /\ ended \subseteq Ends
            /\ dropped \subseteq 1..MaxAttempts

\* A handler is in Apply() while it deploys, and has what its stage needs.
StageInv ==
  \A h \in Handlers :
    /\ at[h] # "idle" <=> job[h].stage = "deploying"
    /\ job[h].stage # "idle" => job[h].name \in Names /\ job[h].attempt \in 1..MaxAttempts
    /\ job[h].stage \in {"recording", "uploading"} => job[h].result \in Results
    /\ job[h].stage = "uploading" =>
         \E t \in Instants : job[h].object = ObjectName(job[h].name, t, job[h].result)

\* Attempts are numbered in turn.
NumberInv == /\ \A h \in Handlers : job[h].attempt <= begun
             /\ \A e \in ended : e.attempt <= begun
             /\ \A r \in bucket : r.attempt <= begun

\* An attempt is deploying or ended, and that once.
OnceInv == /\ \A g, h \in Served : job[g].attempt = job[h].attempt => g = h
           /\ \A h \in Served, e \in ended : e.attempt # job[h].attempt
           /\ \A d, e \in ended : d.attempt = e.attempt => d = e

\* Whoever writes a record has counted what it says.
CountedInv ==
  \A h \in Handlers : job[h].stage \in {"recording", "uploading"} =>
    \E e \in ended : e.attempt = job[h].attempt /\ e.result = job[h].result

\* ID and name of a record are made of the same.
NamedInv == \A r \in bucket : r.id = r.object

TrailInv == /\ TrailWithinCounters /\ RecordIDsUnique /\ AnswerNamesItsRecord
            /\ CountedInv /\ NamedInv

DInv == JobTypes /\ StageInv /\ NumberInv /\ OnceInv

-----------------------------------------------------------------------------
(* The deployer in it *)

\* Each step is one of LazyClient or changes nothing it speaks of.
LEMMA StepOfClient == [DNext]_allVars => [Next]_vars
<1> SUFFICES ASSUME [DNext]_allVars PROVE [Next]_vars
  OBVIOUS
<1> USE DEF Next
<1>1. CASE DRestart
  BY <1>1 DEF DRestart
<1>2. ASSUME NEW h \in Handlers, NEW n \in Names, Begin(h, n) \/ Reject(h, n) PROVE [Next]_vars
  BY <1>2 DEF Begin, Reject
<1>3. ASSUME NEW h \in Handlers, Deploying(h) \/ Return(h) \/ Drop(h) PROVE [Next]_vars
  BY <1>3 DEF Deploying, Return, Drop
<1>4. ASSUME NEW h \in Handlers, Stamp(h) \/ Upload(h) \/ UploadRefused(h) \/ UploadFails(h) \/ Answer(h)
      PROVE [Next]_vars
  BY <1>4 DEF Stamp, Upload, UploadRefused, UploadFails, ToAnswer, Answer
<1>5. CASE UNCHANGED allVars
  BY <1>5 DEF allVars
<1> QED
  BY <1>1, <1>2, <1>3, <1>4, <1>5 DEF DNext

\* Every run of the whole is a run of the lazily built client.
THEOREM RunsLazyClient == DSpec => Spec
<1>1. DInit => Init
  BY DEF DInit
<1> QED
  BY <1>1, StepOfClient, PTL DEF DSpec, Spec

\* Where the handlers stand after the steps of the deployer.
LEMMA Stands ==
  ASSUME TypeInv, NEW h \in Handlers
  PROVE /\ Apply(h) => at[h] = "idle" /\ at' = [at EXCEPT ![h] = "check client"]
        /\ Leave(h) => at[h] # "idle" /\ at' = [at EXCEPT ![h] = "idle"]
        /\ Working(h) => \E to \in {"check mapper"} \cup Building \cup Using \cup Over :
                           at[h] # "idle" /\ at' = [at EXCEPT ![h] = to]
BY DEF Apply, Leave, Working, CheckClient, CheckMapper, BuildFails, StoreClientType, StoreClientData,
       StoreMapperType, StoreMapperData, Resolve, Patch, ObjectFails, Panic, Move, Building, Using, Over

-----------------------------------------------------------------------------
(* Types *)

\* Entering gives h a new job and a new number.
LEMMA NewJob ==
  ASSUME NEW h \in Handlers, NEW n \in Names, NEW stage, NEW result, JobTypes, Enter(h, n, stage, result),
         stage \in {"deploying", "recording"}, result \in Results \cup {None}
  PROVE /\ job[h].stage = "idle"
        /\ job' = [job EXCEPT ![h] = [stage |-> stage, attempt |-> begun + 1, name |-> n,
                                      result |-> result, object |-> None]]
        /\ job' \in [Handlers -> Jobs]
        /\ begun' = begun + 1 /\ begun + 1 \in 1..MaxAttempts
        /\ asked' = asked \cup {begun + 1}
        /\ UNCHANGED <<bucket, dropped>>
<1>1. /\ job[h].stage = "idle" /\ begun < MaxAttempts /\ begun' = begun + 1
      /\ asked' = asked \cup {begun + 1} /\ UNCHANGED <<bucket, dropped>>
      /\ job' = [job EXCEPT ![h] = [stage |-> stage, attempt |-> begun + 1, name |-> n,
                                    result |-> result, object |-> None]]
  BY DEF Enter
<1>2. begun + 1 \in 1..MaxAttempts
  BY <1>1, BoundAssumption DEF JobTypes
<1>3. [stage |-> stage, attempt |-> begun + 1, name |-> n, result |-> result, object |-> None] \in Jobs
  BY <1>2, BoundAssumption DEF Jobs
<1> QED
  BY <1>1, <1>2, <1>3 DEF JobTypes

\* recordDeployment() keeps the types of the counters.
LEMMA RecordDeploymentTypes ==
  ASSUME NEW a \in 1..MaxAttempts, NEW r \in Results, NEW d \in Durations, JobTypes,
         RecordDeployment(a, r, d)
  PROVE /\ counted' \in [Results -> Nat]
        /\ within' \in [Results -> [1..Buckets -> Nat]]
        /\ ended' \subseteq Ends
<1>1. counted' \in [Results -> Nat]
  BY DEF RecordDeployment, JobTypes
<1>2. [i \in 1..Buckets |-> IF d <= i THEN within[r][i] + 1 ELSE within[r][i]] \in [1..Buckets -> Nat]
  <2>1. \A i \in 1..Buckets : within[r][i] \in Nat
    BY DEF JobTypes
  <2> QED
    BY <2>1
<1>3. within' = [within EXCEPT ![r] =
                   [i \in 1..Buckets |-> IF d <= i THEN within[r][i] + 1 ELSE within[r][i]]]
  BY DEF RecordDeployment, JobTypes
<1>4. [attempt |-> a, result |-> r, duration |-> d] \in Ends
  BY DEF Ends
<1> QED
  BY <1>1, <1>2, <1>3, <1>4 DEF RecordDeployment, JobTypes

\* The job of a handler that has none.
LEMMA IdleJob == Idle \in Jobs /\ Idle.stage = "idle" /\ Idle.attempt = 0
BY BoundAssumption DEF Idle, Jobs

\* What Stored() puts into the bucket
LEMMA NewRecord ==
  ASSUME NEW h \in Handlers, JobTypes, StageInv, job[h].stage = "uploading", Stored(h)
  PROVE /\ Record(h) \in Records
        /\ Record(h).id = job[h].object /\ Record(h).object = job[h].object
        /\ Record(h).attempt = job[h].attempt /\ Record(h).result = job[h].result
        /\ \A r \in bucket : r.object # Record(h).object
        /\ bucket' = bucket \cup {Record(h)}
<1>1. PICK t \in Instants : job[h].object = ObjectName(job[h].name, t, job[h].result)
  BY DEF StageInv
<1>2. job[h].name \in Names /\ job[h].attempt \in 1..MaxAttempts /\ job[h].result \in Results
  BY DEF StageInv
<1>3. job[h].object \in ObjectNames
  BY <1>1, <1>2 DEF ObjectNames, Results
<1>4. RecordID(job[h].name, job[h].object[1], job[h].result) = job[h].object
  BY <1>1 DEF ObjectName, RecordID
<1> QED
  BY <1>2, <1>3, <1>4 DEF Record, Records, Stored, Under

-----------------------------------------------------------------------------
(* What every step makes of the jobs *)

Others(h) == /\ job' \in [Handlers -> Jobs]
             /\ \A g \in Handlers \ {h} : job'[g] = job[g]

\* What a handler knows after Apply() returned and was counted.
LEMMA ReturnJob ==
  ASSUME NEW h \in Handlers, JobTypes, StageInv, Return(h)
  PROVE \E r \in Results, d \in Durations :
          /\ job[h].stage = "deploying"
          /\ job'[h].stage = "recording" /\ job'[h].result = r
          /\ job'[h].attempt = job[h].attempt /\ job'[h].name = job[h].name
          /\ RecordDeployment(job[h].attempt, r, d)
          /\ Others(h)
<1>1. job \in [Handlers -> Jobs] /\ job[h] \in Jobs
  BY DEF JobTypes
<1>2. job[h].stage = "deploying"
  BY DEF Return, StageInv
<1>3. PICK r \in Results, d \in Durations :
        /\ job' = [job EXCEPT ![h].stage = "recording", ![h].result = r]
        /\ RecordDeployment(job[h].attempt, r, d)
  BY DEF Return, Results
<1>4. [job[h] EXCEPT !.stage = "recording", !.result = r] \in Jobs
  BY <1>1 DEF Jobs
<1> QED
  BY <1>1, <1>2, <1>3, <1>4 DEF Others, Jobs

\* ... after the object was named.
LEMMA StampJob ==
  ASSUME NEW h \in Handlers, JobTypes, StageInv, Stamp(h)
  PROVE \E t \in Instants :
          /\ job[h].stage = "recording" /\ job'[h].stage = "uploading"
          /\ job'[h].result = job[h].result
          /\ job'[h].attempt = job[h].attempt /\ job'[h].name = job[h].name
          /\ job'[h].object = ObjectName(job[h].name, t, job[h].result)
          /\ Others(h)
<1>1. job \in [Handlers -> Jobs] /\ job[h] \in Jobs
  BY DEF JobTypes
<1>2. PICK t \in Instants :
        job' = [job EXCEPT ![h].stage = "uploading",
                           ![h].object = ObjectName(job[h].name, t, job[h].result)]
  BY DEF Stamp
<1>3. job[h].stage = "recording" /\ ObjectName(job[h].name, t, job[h].result) \in ObjectNames
  BY DEF Stamp, StageInv, ObjectNames, Results
<1>4. [job[h] EXCEPT !.stage = "uploading", !.object = ObjectName(job[h].name, t, job[h].result)] \in Jobs
  BY <1>1, <1>3 DEF Jobs
<1> QED
  BY <1>1, <1>2, <1>3, <1>4 DEF Others, Jobs

\* ... after the upload ended.
LEMMA ToAnswerJob ==
  ASSUME NEW h \in Handlers, NEW object \in {job[h].object, None}, JobTypes, ToAnswer(h, object)
  PROVE /\ job[h].stage = "uploading" /\ job'[h].stage = "answering"
        /\ job'[h].attempt = job[h].attempt /\ job'[h].name = job[h].name
        /\ job'[h].object = object
        /\ Others(h)
<1>1. job \in [Handlers -> Jobs] /\ job[h] \in Jobs
  BY DEF JobTypes
<1>2. [job[h] EXCEPT !.stage = "answering", !.object = object] \in Jobs
  BY <1>1 DEF Jobs
<1> QED
  BY <1>1, <1>2 DEF ToAnswer, Others, Jobs

\* ... and after the answer, or the panic.
LEMMA IdleAgain ==
  ASSUME NEW h \in Handlers, JobTypes, Drop(h) \/ Answer(h)
  PROVE job'[h] = Idle /\ Others(h)
BY IdleJob DEF JobTypes, Drop, Answer, Others

-----------------------------------------------------------------------------
\* Every step keeps the types of jobs, counters and records.
LEMMA JobTypesStep == JobTypes /\ StageInv /\ [DNext]_allVars => JobTypes'
<1> SUFFICES ASSUME JobTypes, StageInv, [DNext]_allVars PROVE JobTypes'
  OBVIOUS
<1> USE DEF JobTypes
<1>1. CASE DRestart
  BY <1>1, IdleJob, BoundAssumption DEF DRestart, NoCounts, NoBuckets
<1>2. ASSUME NEW h \in Handlers, NEW n \in Names, Begin(h, n) PROVE JobTypes'
  <2>1. begun + 1 \in 1..MaxAttempts /\ job' \in [Handlers -> Jobs] /\ begun' = begun + 1
        /\ asked' = asked \cup {begun + 1} /\ UNCHANGED <<bucket, dropped>>
    BY <1>2, NewJob DEF Begin
  <2> QED
    BY <1>2, <2>1, BoundAssumption DEF Begin, metrics
<1>3. ASSUME NEW h \in Handlers, NEW n \in Names, Reject(h, n) PROVE JobTypes'
  <2>1. "failure" \in Results /\ 0 \in Durations
    BY BoundAssumption DEF Results, Durations
  <2>2. begun + 1 \in 1..MaxAttempts /\ job' \in [Handlers -> Jobs] /\ begun' = begun + 1
        /\ asked' = asked \cup {begun + 1} /\ UNCHANGED <<bucket, dropped>>
    BY <1>3, <2>1, NewJob DEF Reject
  <2>3. /\ counted' \in [Results -> Nat] /\ ended' \subseteq Ends
        /\ within' \in [Results -> [1..Buckets -> Nat]]
    BY <1>3, <2>1, <2>2, RecordDeploymentTypes DEF Reject
  <2> QED
    BY <2>2, <2>3, BoundAssumption
<1>4. ASSUME NEW h \in Handlers, Deploying(h) PROVE JobTypes'
  BY <1>4 DEF Deploying, metrics, history
<1>5. ASSUME NEW h \in Handlers, Return(h) PROVE JobTypes'
  <2>1. PICK r \in Results, d \in Durations : RecordDeployment(job[h].attempt, r, d) /\ Others(h)
    BY <1>5, ReturnJob
  <2>2. job[h].attempt \in 1..MaxAttempts
    BY <1>5, ReturnJob DEF StageInv
  <2> QED
    BY <1>5, <2>1, <2>2, RecordDeploymentTypes DEF Return, history, Others
<1>6. ASSUME NEW h \in Handlers, Drop(h) PROVE JobTypes'
  <2>1. job[h].attempt \in 1..MaxAttempts
    BY <1>6 DEF Drop, Leave, StageInv, Over
  <2> QED
    BY <1>6, <2>1, IdleAgain DEF Drop, metrics, Others
<1>7. ASSUME NEW h \in Handlers, Stamp(h) PROVE JobTypes'
  BY <1>7, StampJob DEF Stamp, metrics, history, Others
<1>8. ASSUME NEW h \in Handlers, Upload(h) \/ UploadRefused(h) \/ UploadFails(h) PROVE JobTypes'
  <2>1. PICK object \in {job[h].object, None} : ToAnswer(h, object)
    BY <1>8 DEF Upload, UploadRefused, UploadFails
  <2>2. Stored(h) \/ UNCHANGED bucket
    BY <1>8 DEF Upload, UploadRefused, UploadFails
  <2>3. job[h].stage = "uploading"
    BY <2>1 DEF ToAnswer
  <2>4. ASSUME Stored(h) PROVE bucket' \subseteq Records
    <3>1. Record(h) \in Records /\ bucket' = bucket \cup {Record(h)}
      BY <2>3, <2>4, NewRecord
    <3> QED
      BY <3>1
  <2>5. bucket' \subseteq Records
    BY <2>2, <2>4
  <2> QED
    BY <2>1, <2>5, ToAnswerJob DEF ToAnswer, metrics, history, Others
<1>9. ASSUME NEW h \in Handlers, Answer(h) PROVE JobTypes'
  BY <1>9, IdleAgain DEF Answer, metrics, history, Others
<1>10. CASE UNCHANGED allVars
  BY <1>10 DEF allVars, metrics, history
<1> QED
  BY <1>1, <1>2, <1>3, <1>4, <1>5, <1>6, <1>7, <1>8, <1>9, <1>10 DEF DNext

\* Every step keeps what a stage needs.
LEMMA StageStep ==
  TypeInv /\ JobTypes /\ JobTypes' /\ StageInv /\ [DNext]_allVars => StageInv'
<1> SUFFICES ASSUME TypeInv, JobTypes, JobTypes', StageInv, [DNext]_allVars PROVE StageInv'
  OBVIOUS
<1>0. at \in [Handlers -> {"idle", "check client", "check mapper"} \cup Building \cup Using \cup Over]
  BY DEF TypeInv, TypeOK
<1> DEFINE Fine(h) ==
      /\ at'[h] # "idle" <=> job'[h].stage = "deploying"
      /\ job'[h].stage # "idle" => job'[h].name \in Names /\ job'[h].attempt \in 1..MaxAttempts
      /\ job'[h].stage \in {"recording", "uploading"} => job'[h].result \in Results
      /\ job'[h].stage = "uploading" =>
           \E t \in Instants : job'[h].object = ObjectName(job'[h].name, t, job'[h].result)
<1>a. ASSUME NEW g \in Handlers, at'[g] = at[g], job'[g] = job[g] PROVE Fine(g)
  BY <1>a DEF StageInv
<1>1. CASE DRestart
  BY <1>1, IdleJob DEF DRestart, Restart, StageInv
<1>2. ASSUME NEW h \in Handlers, NEW n \in Names, Begin(h, n) PROVE StageInv'
  <2>1. /\ job' = [job EXCEPT ![h] = [stage |-> "deploying", attempt |-> begun + 1, name |-> n,
                                      result |-> None, object |-> None]]
        /\ begun + 1 \in 1..MaxAttempts
    BY <1>2, NewJob DEF Begin
  <2>2. at' = [at EXCEPT ![h] = "check client"]
    BY <1>2, Stands DEF Begin
  <2>3. Fine(h)
    BY <1>0, <2>1, <2>2 DEF JobTypes
  <2>4. \A g \in Handlers \ {h} : Fine(g)
    BY <1>a, <1>0, <2>1, <2>2 DEF JobTypes
  <2> QED
    BY <2>3, <2>4 DEF StageInv
<1>3. ASSUME NEW h \in Handlers, NEW n \in Names, Reject(h, n) PROVE StageInv'
  <2>1. /\ job' = [job EXCEPT ![h] = [stage |-> "recording", attempt |-> begun + 1, name |-> n,
                                      result |-> "failure", object |-> None]]
        /\ begun + 1 \in 1..MaxAttempts /\ job[h].stage = "idle"
    BY <1>3, NewJob DEF Reject, Results
  <2>2. at' = at
    BY <1>3 DEF Reject, vars
  <2>3. Fine(h)
    BY <2>1, <2>2 DEF JobTypes, Results, StageInv
  <2>4. \A g \in Handlers \ {h} : Fine(g)
    BY <1>a, <2>1, <2>2 DEF JobTypes
  <2> QED
    BY <2>3, <2>4 DEF StageInv
<1>4. ASSUME NEW h \in Handlers, Deploying(h) PROVE StageInv'
  <2>1. PICK to \in {"check mapper"} \cup Building \cup Using \cup Over :
          at[h] # "idle" /\ at' = [at EXCEPT ![h] = to]
    BY <1>4, Stands DEF Deploying
  <2>2. job' = job
    BY <1>4 DEF Deploying
  <2>3. to # "idle"
    BY DEF Building, Using, Over
  <2>4. Fine(h)
    BY <1>0, <2>1, <2>2, <2>3 DEF StageInv
  <2>5. \A g \in Handlers \ {h} : Fine(g)
    BY <1>a, <1>0, <2>1, <2>2
  <2> QED
    BY <2>4, <2>5 DEF StageInv
<1>5. ASSUME NEW h \in Handlers, Return(h) PROVE StageInv'
  <2>1. at' = [at EXCEPT ![h] = "idle"]
    BY <1>5, Stands DEF Return
  <2>2. Fine(h)
    BY <1>0, <1>5, <2>1, ReturnJob DEF StageInv
  <2>3. \A g \in Handlers \ {h} : Fine(g)
    BY <1>a, <1>0, <1>5, <2>1, ReturnJob DEF Others
  <2> QED
    BY <2>2, <2>3 DEF StageInv
<1>6. ASSUME NEW h \in Handlers, Drop(h) PROVE StageInv'
  <2>1. at' = [at EXCEPT ![h] = "idle"]
    BY <1>6, Stands DEF Drop
  <2>2. Fine(h)
    BY <1>0, <1>6, <2>1, IdleAgain, IdleJob
  <2>3. \A g \in Handlers \ {h} : Fine(g)
    BY <1>a, <1>0, <1>6, <2>1, IdleAgain DEF Others
  <2> QED
    BY <2>2, <2>3 DEF StageInv
<1>7. ASSUME NEW h \in Handlers, Stamp(h) PROVE StageInv'
  <2>1. at' = at
    BY <1>7 DEF Stamp, vars
  <2>2. Fine(h)
    BY <1>7, <2>1, StampJob DEF StageInv
  <2>3. \A g \in Handlers \ {h} : Fine(g)
    BY <1>a, <1>7, <2>1, StampJob DEF Others
  <2> QED
    BY <2>2, <2>3 DEF StageInv
<1>8. ASSUME NEW h \in Handlers, Upload(h) \/ UploadRefused(h) \/ UploadFails(h) PROVE StageInv'
  <2>1. PICK object \in {job[h].object, None} : ToAnswer(h, object)
    BY <1>8 DEF Upload, UploadRefused, UploadFails
  <2>2. at' = at
    BY <2>1 DEF ToAnswer, vars
  <2>3. Fine(h)
    BY <2>1, <2>2, ToAnswerJob DEF StageInv
  <2>4. \A g \in Handlers \ {h} : Fine(g)
    BY <1>a, <2>1, <2>2, ToAnswerJob DEF Others
  <2> QED
    BY <2>3, <2>4 DEF StageInv
<1>9. ASSUME NEW h \in Handlers, Answer(h) PROVE StageInv'
  <2>1. at' = at /\ job[h].stage = "answering"
    BY <1>9 DEF Answer, vars
  <2>2. Fine(h)
    BY <1>9, <2>1, IdleAgain, IdleJob DEF StageInv
  <2>3. \A g \in Handlers \ {h} : Fine(g)
    BY <1>a, <1>9, <2>1, IdleAgain DEF Others
  <2> QED
    BY <2>2, <2>3 DEF StageInv
<1>10. CASE UNCHANGED allVars
  BY <1>10, <1>a DEF allVars, vars, StageInv
<1> QED
  BY <1>1, <1>2, <1>3, <1>4, <1>5, <1>6, <1>7, <1>8, <1>9, <1>10 DEF DNext

-----------------------------------------------------------------------------
(* What every step makes of the results, the records and the numbers *)

\* A handler's step after Enter() keeps the numbers and at most ends its attempt.
LEMMA OwnStep ==
  ASSUME NEW h \in Handlers, JobTypes, StageInv,
         Deploying(h) \/ Return(h) \/ Drop(h) \/ Stamp(h) \/ Upload(h) \/ UploadRefused(h)
         \/ UploadFails(h) \/ Answer(h)
  PROVE /\ begun' = begun
        /\ \A g \in Handlers \ {h} : job'[g] = job[g]
        /\ job'[h].attempt \in {job[h].attempt, 0}
        /\ job'[h].stage = "deploying" => job[h].stage = "deploying" /\ job'[h] = job[h]
        /\ \/ ended' = ended
           \/ /\ job[h].stage = "deploying" /\ job'[h].stage # "deploying"
              /\ \E r \in Results, d \in Durations :
                   ended' = ended \cup {[attempt |-> job[h].attempt, result |-> r, duration |-> d]}
<1>1. CASE Deploying(h)
  BY <1>1 DEF Deploying, metrics, history
<1>2. CASE Return(h)
  <2>1. begun' = begun
    BY <1>2 DEF Return, history
  <2> QED
    BY <1>2, <2>1, ReturnJob DEF RecordDeployment, Others
<1>3. CASE Drop(h) \/ Answer(h)
  BY <1>3, IdleAgain, IdleJob DEF Drop, Answer, metrics, history, Others
<1>4. CASE Stamp(h)
  <2>1. begun' = begun /\ ended' = ended
    BY <1>4 DEF Stamp, metrics, history
  <2> QED
    BY <1>4, <2>1, StampJob DEF Others
<1>5. CASE Upload(h) \/ UploadRefused(h) \/ UploadFails(h)
  <2>1. PICK object \in {job[h].object, None} : ToAnswer(h, object)
    BY <1>5 DEF Upload, UploadRefused, UploadFails
  <2>2. begun' = begun /\ ended' = ended
    BY <2>1 DEF ToAnswer, metrics, history
  <2> QED
    BY <2>1, <2>2, ToAnswerJob DEF Others
<1> QED
  BY <1>1, <1>2, <1>3, <1>4, <1>5

\* The bucket only grows, by one record of the handler whose step it is.
LEMMA BucketStep ==
  ASSUME JobTypes, StageInv, [DNext]_allVars
  PROVE \/ bucket' = bucket
        \/ \E h \in Handlers : /\ job[h].stage = "uploading" /\ Stored(h) /\ UNCHANGED <<metrics, history>>
                               /\ \E object \in {job[h].object, None} : ToAnswer(h, object)
<1>1. CASE DRestart
  BY <1>1 DEF DRestart
<1>2. ASSUME NEW h \in Handlers, NEW n \in Names, Begin(h, n) \/ Reject(h, n) PROVE bucket' = bucket
  BY <1>2 DEF Begin, Reject, Enter
<1>3. ASSUME NEW h \in Handlers,
             Deploying(h) \/ Return(h) \/ Drop(h) \/ Stamp(h) \/ UploadRefused(h) \/ Answer(h)
      PROVE bucket' = bucket
  BY <1>3 DEF Deploying, Return, Drop, Stamp, UploadRefused, Answer
<1>4. ASSUME NEW h \in Handlers, Upload(h) \/ UploadFails(h)
      PROVE \/ bucket' = bucket
            \/ /\ job[h].stage = "uploading" /\ Stored(h) /\ UNCHANGED <<metrics, history>>
               /\ \E object \in {job[h].object, None} : ToAnswer(h, object)
  BY <1>4 DEF Upload, UploadFails, ToAnswer
<1>5. CASE UNCHANGED allVars
  BY <1>5 DEF allVars
<1> QED
  BY <1>1, <1>2, <1>3, <1>4, <1>5 DEF DNext

\* Entering, with or without a result
LEMMA EnterStep ==
  ASSUME NEW h \in Handlers, NEW n \in Names, JobTypes, Begin(h, n) \/ Reject(h, n)
  PROVE /\ begun' = begun + 1 /\ begun \in Nat
        /\ \A g \in Handlers \ {h} : job'[g] = job[g]
        /\ job'[h].attempt = begun + 1
        /\ \/ ended' = ended
           \/ /\ job'[h].stage # "deploying"
              /\ ended' = ended \cup {[attempt |-> begun + 1, result |-> "failure", duration |-> 0]}
<1>1. begun \in Nat
  BY BoundAssumption DEF JobTypes
<1>2. CASE Begin(h, n)
  <2>1. job' = [job EXCEPT ![h] = [stage |-> "deploying", attempt |-> begun + 1, name |-> n,
                                   result |-> None, object |-> None]] /\ begun' = begun + 1
    BY <1>2, NewJob DEF Begin
  <2> QED
    BY <1>1, <1>2, <2>1 DEF Begin, metrics, JobTypes
<1>3. CASE Reject(h, n)
  <2>1. job' = [job EXCEPT ![h] = [stage |-> "recording", attempt |-> begun + 1, name |-> n,
                                   result |-> "failure", object |-> None]] /\ begun' = begun + 1
    BY <1>3, NewJob DEF Reject, Results
  <2> QED
    BY <1>1, <1>3, <2>1 DEF Reject, RecordDeployment, JobTypes
<1> QED
  BY <1>2, <1>3

\* No number of an attempt is used before it is given.
LEMMA NumberStep == JobTypes /\ StageInv /\ NumberInv /\ [DNext]_allVars => NumberInv'
<1> SUFFICES ASSUME JobTypes, StageInv, NumberInv, [DNext]_allVars PROVE NumberInv'
  OBVIOUS
<1>0. /\ begun \in Nat
      /\ \A h \in Handlers : job[h].attempt \in Nat
      /\ \A e \in ended : e.attempt \in Nat
      /\ \A r \in bucket : r.attempt \in Nat
  BY BoundAssumption DEF JobTypes, Jobs, Ends, Records
<1>1. begun' \in Nat /\ begun <= begun'
  <2>1. CASE DRestart \/ UNCHANGED allVars
    BY <1>0, <2>1 DEF DRestart, allVars, history
  <2>2. ASSUME NEW h \in Handlers, NEW n \in Names, Begin(h, n) \/ Reject(h, n)
        PROVE begun' \in Nat /\ begun <= begun'
    BY <1>0, <2>2, EnterStep
  <2>3. ASSUME NEW h \in Handlers, ~\E n \in Names : Begin(h, n) \/ Reject(h, n),
               Deploying(h) \/ Return(h) \/ Drop(h) \/ Stamp(h) \/ Upload(h) \/ UploadRefused(h)
               \/ UploadFails(h) \/ Answer(h)
        PROVE begun' \in Nat /\ begun <= begun'
    BY <1>0, <2>3, OwnStep
  <2> QED
    BY <2>1, <2>2, <2>3 DEF DNext
<1>2. /\ \A h \in Handlers : job'[h].attempt <= begun'
      /\ \A e \in ended' : e.attempt <= begun'
  <2>1. CASE DRestart
    BY <1>0, <1>1, <2>1, IdleJob DEF DRestart
  <2>2. ASSUME NEW h \in Handlers, NEW n \in Names, Begin(h, n) \/ Reject(h, n)
        PROVE <1>2!1 /\ <1>2!2
    BY <1>0, <1>1, <2>2, EnterStep DEF NumberInv
  <2>3. ASSUME NEW h \in Handlers,
               Deploying(h) \/ Return(h) \/ Drop(h) \/ Stamp(h) \/ Upload(h) \/ UploadRefused(h)
               \/ UploadFails(h) \/ Answer(h)
        PROVE <1>2!1 /\ <1>2!2
    BY <1>0, <1>1, <2>3, OwnStep DEF NumberInv
  <2>4. CASE UNCHANGED allVars
    BY <2>4 DEF allVars, metrics, history, NumberInv
  <2> QED
    BY <2>1, <2>2, <2>3, <2>4 DEF DNext
<1>3. \A r \in bucket' : r.attempt <= begun'
  BY <1>0, <1>1, BucketStep, NewRecord DEF NumberInv
<1> QED
  BY <1>2, <1>3 DEF NumberInv

\* An attempt that ended left its handler.
LEMMA OnceStep == JobTypes /\ StageInv /\ NumberInv /\ OnceInv /\ [DNext]_allVars => OnceInv'
<1> SUFFICES ASSUME JobTypes, StageInv, NumberInv, OnceInv, [DNext]_allVars PROVE OnceInv'
  OBVIOUS
<1>0. /\ begun \in Nat
      /\ \A h \in Handlers : job[h].attempt \in Nat /\ job[h].attempt <= begun
      /\ \A e \in ended : e.attempt \in Nat /\ e.attempt <= begun
  BY BoundAssumption DEF JobTypes, Jobs, Ends, NumberInv
<1>1. CASE DRestart
  BY <1>1, IdleJob DEF DRestart, OnceInv, Served
<1>2. ASSUME NEW h \in Handlers, NEW n \in Names, Begin(h, n) \/ Reject(h, n) PROVE OnceInv'
  <2>1. /\ \A g \in Handlers \ {h} : job'[g] = job[g]
        /\ job'[h].attempt = begun + 1
        /\ \/ ended' = ended
           \/ /\ job'[h].stage # "deploying"
              /\ ended' = ended \cup {[attempt |-> begun + 1, result |-> "failure", duration |-> 0]}
    BY <1>2, EnterStep
  <2>2. /\ \A g \in Handlers \ {h} : job[g].attempt # begun + 1
        /\ \A e \in ended : e.attempt # begun + 1
    BY <1>0
  <2> QED
    BY <2>1, <2>2 DEF OnceInv, Served
<1>3. ASSUME NEW h \in Handlers,
             Deploying(h) \/ Return(h) \/ Drop(h) \/ Stamp(h) \/ Upload(h) \/ UploadRefused(h)
             \/ UploadFails(h) \/ Answer(h)
      PROVE OnceInv'
  BY <1>3, OwnStep DEF OnceInv, Served
<1>4. CASE UNCHANGED allVars
  BY <1>4 DEF allVars, metrics, OnceInv, Served
<1> QED
  BY <1>1, <1>2, <1>3, <1>4 DEF DNext

\* The first state.
LEMMA DInitially == DInit => DInv
<1> SUFFICES ASSUME DInit PROVE DInv
  OBVIOUS
<1>1. JobTypes
  BY IdleJob, BoundAssumption DEF DInit, JobTypes, NoCounts, NoBuckets
<1>2. StageInv
  BY IdleJob DEF DInit, Init, StageInv
<1>3. NumberInv
  BY IdleJob DEF DInit, NumberInv
<1>4. OnceInv
  BY IdleJob DEF DInit, OnceInv, Served
<1> QED
  BY <1>1, <1>2, <1>3, <1>4 DEF DInv

\* DInv always holds.
LEMMA DInvariance == DSpec => []DInv
<1>1. TypeInv /\ DInv /\ [DNext]_allVars => DInv'
  BY JobTypesStep, StageStep, NumberStep, OnceStep DEF DInv
<1>2. IInv => TypeInv
  BY DEF IInv
<1> QED
  BY <1>1, <1>2, DInitially, RunsLazyClient, Invariance, PTL DEF DSpec

-----------------------------------------------------------------------------
(* The audit trail *)

\* The attempts that ended are those that a step ends.
LEMMA EndedGrows ==
  ASSUME JobTypes, StageInv, [DNext]_allVars
  PROVE \/ DRestart
        \/ /\ ended \subseteq ended'
           /\ \A r \in bucket : r.attempt \in asked' =>
                r.attempt \in asked \/ r.attempt = begun + 1
<1>1. ASSUME NEW h \in Handlers, NEW n \in Names, Begin(h, n) \/ Reject(h, n)
      PROVE ended \subseteq ended' /\ asked' = asked \cup {begun + 1}
  <2>1. asked' = asked \cup {begun + 1}
    BY <1>1 DEF Begin, Reject, Enter
  <2> QED
    BY <1>1, <2>1, EnterStep
<1>2. ASSUME NEW h \in Handlers,
             Deploying(h) \/ Return(h) \/ Drop(h) \/ Stamp(h) \/ Upload(h) \/ UploadRefused(h)
             \/ UploadFails(h) \/ Answer(h)
      PROVE ended \subseteq ended' /\ asked' = asked
  <2>1. asked' = asked
    BY <1>2 DEF Deploying, Return, Drop, Stamp, Upload, UploadRefused, UploadFails, ToAnswer, Answer, history
  <2> QED
    BY <1>2, <2>1, OwnStep
<1>3. CASE UNCHANGED allVars
  BY <1>3 DEF allVars, metrics, history
<1> QED
  BY <1>1, <1>2, <1>3 DEF DNext

\* recordDeployment() counts in the counter and in each bucket it belongs to.
LEMMA CountedStep == JobTypes /\ StageInv /\ CountedInv /\ [DNext]_allVars => CountedInv'
<1> SUFFICES ASSUME JobTypes, StageInv, CountedInv, [DNext]_allVars PROVE CountedInv'
  OBVIOUS
<1> DEFINE Fine(h) == job'[h].stage \in {"recording", "uploading"} =>
                        \E e \in ended' : e.attempt = job'[h].attempt /\ e.result = job'[h].result
<1>a. ASSUME ~DRestart, NEW g \in Handlers, job'[g] = job[g] PROVE Fine(g)
  BY <1>a, EndedGrows DEF CountedInv
<1>1. CASE DRestart
  BY <1>1, IdleJob DEF DRestart, CountedInv
<1>2. ASSUME ~DRestart, NEW h \in Handlers, NEW n \in Names, Begin(h, n) PROVE CountedInv'
  <2>1. job' = [job EXCEPT ![h] = [stage |-> "deploying", attempt |-> begun + 1, name |-> n,
                                   result |-> None, object |-> None]]
    BY <1>2, NewJob DEF Begin
  <2> QED
    BY <1>a, <1>2, <2>1 DEF CountedInv, JobTypes
<1>3. ASSUME ~DRestart, NEW h \in Handlers, NEW n \in Names, Reject(h, n) PROVE CountedInv'
  <2>1. job' = [job EXCEPT ![h] = [stage |-> "recording", attempt |-> begun + 1, name |-> n,
                                   result |-> "failure", object |-> None]]
    BY <1>3, NewJob DEF Reject, Results
  <2>2. [attempt |-> begun + 1, result |-> "failure", duration |-> 0] \in ended'
    BY <1>3 DEF Reject, RecordDeployment
  <2>3. Fine(h)
    BY <2>1, <2>2 DEF JobTypes
  <2> QED
    BY <1>a, <1>3, <2>1, <2>3 DEF CountedInv, JobTypes
<1>4. ASSUME ~DRestart, NEW h \in Handlers, Return(h) PROVE CountedInv'
  <2>1. PICK r \in Results, d \in Durations :
          /\ job'[h].attempt = job[h].attempt /\ job'[h].result = r
          /\ RecordDeployment(job[h].attempt, r, d) /\ Others(h)
    BY <1>4, ReturnJob
  <2>2. [attempt |-> job[h].attempt, result |-> r, duration |-> d] \in ended'
    BY <2>1 DEF RecordDeployment
  <2>3. Fine(h)
    BY <2>1, <2>2
  <2> QED
    BY <1>a, <1>4, <2>1, <2>3 DEF CountedInv, Others
<1>5. ASSUME ~DRestart, NEW h \in Handlers, Stamp(h) PROVE CountedInv'
  <2>1. Fine(h)
    BY <1>5, StampJob, EndedGrows DEF CountedInv
  <2> QED
    BY <1>a, <1>5, <2>1, StampJob DEF CountedInv, Others
<1>6. ASSUME ~DRestart, NEW h \in Handlers,
             Deploying(h) \/ Drop(h) \/ Upload(h) \/ UploadRefused(h) \/ UploadFails(h) \/ Answer(h)
      PROVE CountedInv'
  <2>1. \A g \in Handlers \ {h} : job'[g] = job[g]
    BY <1>6, OwnStep
  <2>2. job'[h] = job[h] \/ job'[h].stage \notin {"recording", "uploading"}
    BY <1>6, IdleAgain, IdleJob, ToAnswerJob DEF Deploying, Upload, UploadRefused, UploadFails
  <2> QED
    BY <1>a, <1>6, <2>1, <2>2 DEF CountedInv
<1>7. CASE UNCHANGED allVars
  BY <1>7 DEF allVars, metrics, CountedInv
<1> QED
  BY <1>1, <1>2, <1>3, <1>4, <1>5, <1>6, <1>7 DEF DNext

\* What is being uploaded was counted.
LEMMA TrailStep == DInv /\ TrailInv /\ [DNext]_allVars => TrailInv'
<1> SUFFICES ASSUME JobTypes, StageInv, NumberInv, TrailInv, [DNext]_allVars PROVE TrailInv'
  BY DEF DInv
<1>1. CountedInv'
  BY CountedStep DEF TrailInv
<1>2. NamedInv' /\ RecordIDsUnique'
  BY BucketStep, NewRecord DEF TrailInv, NamedInv, RecordIDsUnique
<1>3. TrailWithinCounters'
  <2>1. begun + 1 \in Nat /\ \A r \in bucket : r.attempt # begun + 1
    BY BoundAssumption DEF NumberInv, JobTypes, Records
  <2>2. CASE DRestart
    BY <2>2 DEF DRestart, TrailWithinCounters
  <2>3. CASE ~DRestart /\ bucket' = bucket
    BY <2>1, <2>3, EndedGrows DEF TrailInv, TrailWithinCounters
  <2>4. ASSUME NEW h \in Handlers, job[h].stage = "uploading", Stored(h), UNCHANGED <<metrics, history>>
        PROVE TrailWithinCounters'
    <3>1. \E e \in ended : e.attempt = Record(h).attempt /\ e.result = Record(h).result
      BY <2>4, NewRecord DEF TrailInv, CountedInv
    <3>2. bucket' = bucket \cup {Record(h)} /\ ended' = ended /\ asked' = asked
      BY <2>4, NewRecord DEF metrics, history
    <3> QED
      BY <3>1, <3>2 DEF TrailInv, TrailWithinCounters
  <2> QED
    BY <2>2, <2>3, <2>4, BucketStep
<1>4. AnswerNamesItsRecord'
  <2>0. bucket \subseteq bucket'
    BY BucketStep DEF Stored
  <2>1. CASE DRestart
    BY <2>1, IdleJob DEF DRestart, AnswerNamesItsRecord
  <2>2. ASSUME NEW h \in Handlers, NEW n \in Names, Begin(h, n) \/ Reject(h, n)
        PROVE AnswerNamesItsRecord'
    <3>1. \A g \in Handlers \ {h} : job'[g] = job[g]
      BY <2>2, EnterStep
    <3>2. job'[h].stage # "answering"
      <4>1. PICK stage \in {"deploying", "recording"}, result \in Results \cup {None} :
              Enter(h, n, stage, result)
        BY <2>2 DEF Begin, Reject, Results
      <4> QED
        BY <4>1, NewJob DEF JobTypes
    <3> QED
      BY <2>0, <3>1, <3>2 DEF TrailInv, AnswerNamesItsRecord
  <2>3. ASSUME NEW h \in Handlers, Deploying(h) \/ Return(h) \/ Drop(h) \/ Stamp(h) \/ Answer(h)
        PROVE AnswerNamesItsRecord'
    <3>1. \A g \in Handlers \ {h} : job'[g] = job[g]
      BY <2>3, OwnStep
    <3>2. job'[h] = job[h] \/ job'[h].stage # "answering"
      BY <2>3, IdleAgain, IdleJob, ReturnJob, StampJob DEF Deploying
    <3> QED
      BY <2>0, <3>1, <3>2 DEF TrailInv, AnswerNamesItsRecord
  <2>4. ASSUME NEW h \in Handlers, Upload(h) PROVE AnswerNamesItsRecord'
    <3>1. ToAnswer(h, job[h].object) /\ Stored(h)
      BY <2>4 DEF Upload
    <3>2. /\ job[h].stage = "uploading" /\ job'[h].object = job[h].object
          /\ job'[h].attempt = job[h].attempt /\ Others(h)
      BY <3>1, ToAnswerJob
    <3>3. \E r \in bucket' : r.object = job'[h].object /\ r.attempt = job'[h].attempt
      BY <3>1, <3>2, NewRecord
    <3> QED
      BY <2>0, <3>2, <3>3 DEF TrailInv, AnswerNamesItsRecord, Others
  <2>5. ASSUME NEW h \in Handlers, UploadRefused(h) \/ UploadFails(h) PROVE AnswerNamesItsRecord'
    <3>1. ToAnswer(h, None)
      BY <2>5 DEF UploadRefused, UploadFails
    <3>2. job'[h].object = None /\ Others(h)
      BY <3>1, ToAnswerJob
    <3> QED
      BY <2>0, <3>2 DEF TrailInv, AnswerNamesItsRecord, Others
  <2>6. CASE UNCHANGED allVars
    BY <2>6 DEF allVars, TrailInv, AnswerNamesItsRecord
  <2> QED
    BY <2>1, <2>2, <2>3, <2>4, <2>5, <2>6 DEF DNext
<1> QED
  BY <1>1, <1>2, <1>3, <1>4 DEF TrailInv

\* TrailInv always holds.
LEMMA TrailInvariance == DSpec => []TrailInv
<1>1. DInit => TrailInv
  BY IdleJob DEF DInit, TrailInv, TrailWithinCounters, RecordIDsUnique, AnswerNamesItsRecord,
                 CountedInv, NamedInv
<1> QED
  BY <1>1, TrailStep, DInvariance, PTL DEF DSpec

\* However many deployments end at one instant, and whatever two names sanitize
\* to, an ID occurs once in the bucket.  (audit.go:129-180)
THEOREM IDsAreUnique == DSpec => []RecordIDsUnique
<1>1. TrailInv => RecordIDsUnique
  BY DEF TrailInv
<1> QED
  BY <1>1, TrailInvariance, PTL

\* The object an answer names holds the record of that deployment.
\* (audit.go:100-127)
THEOREM AnswersNameTheirRecords == DSpec => []AnswerNamesItsRecord
<1>1. TrailInv => AnswerNamesItsRecord
  BY DEF TrailInv
<1> QED
  BY <1>1, TrailInvariance, PTL

\* The bucket and the counters never disagree about a deployment of the running
\* process.  (server.go:173-229)
THEOREM TrailIsCounted == DSpec => []TrailWithinCounters
<1>1. TrailInv => TrailWithinCounters
  BY DEF TrailInv
<1> QED
  BY <1>1, TrailInvariance, PTL

-----------------------------------------------------------------------------
(* The counters *)

Ended(r) == {e \in ended : e.result = r}
EndedWithin(r, i) == {e \in ended : e.result = r /\ e.duration <= i}
CountsInv == IsFiniteSet(ended) /\ HistogramIsTrue

\* recordDeployment() counts a new end where it belongs.
LEMMA CountsEnd ==
  ASSUME NEW a \in 1..MaxAttempts, NEW r \in Results, NEW d \in Durations, JobTypes, CountsInv,
         \A e \in ended : e.attempt # a, RecordDeployment(a, r, d)
  PROVE CountsInv'
<1> DEFINE x == [attempt |-> a, result |-> r, duration |-> d]
<1>1. ended' = ended \cup {x} /\ x \notin ended /\ x.result = r /\ x.duration = d
  BY DEF RecordDeployment
<1>2. IsFiniteSet(ended')
  BY <1>1, FS_AddElement DEF CountsInv
<1>3. ASSUME NEW q \in Results PROVE counted'[q] = Cardinality(Ended(q)')
  <2>1. counted[q] = Cardinality(Ended(q)) /\ IsFiniteSet(Ended(q)) /\ x \notin Ended(q)
    BY <1>1, FS_Subset DEF CountsInv, HistogramIsTrue, Ended
  <2>2. CASE q = r
    <3>1. Ended(q)' = Ended(q) \cup {x}
      BY <1>1, <2>2 DEF Ended
    <3>2. counted'[q] = counted[q] + 1
      BY <2>2 DEF RecordDeployment, JobTypes
    <3> QED
      BY <2>1, <3>1, <3>2, FS_AddElement
  <2>3. CASE q # r
    <3>1. Ended(q)' = Ended(q)
      BY <1>1, <2>3 DEF Ended
    <3>2. counted'[q] = counted[q]
      BY <2>3 DEF RecordDeployment, JobTypes
    <3> QED
      BY <2>1, <3>1, <3>2
  <2> QED
    BY <2>2, <2>3
<1>4. ASSUME NEW q \in Results, NEW i \in 1..Buckets
      PROVE within'[q][i] = Cardinality(EndedWithin(q, i)')
  <2>1. within[q][i] = Cardinality(EndedWithin(q, i)) /\ IsFiniteSet(EndedWithin(q, i))
        /\ x \notin EndedWithin(q, i)
    BY <1>1, FS_Subset DEF CountsInv, HistogramIsTrue, EndedWithin
  <2>2. within' = [within EXCEPT ![r] =
                     [j \in 1..Buckets |-> IF d <= j THEN within[r][j] + 1 ELSE within[r][j]]]
    BY DEF RecordDeployment, JobTypes
  <2>3. CASE q = r /\ d <= i
    <3>1. EndedWithin(q, i)' = EndedWithin(q, i) \cup {x}
      BY <1>1, <2>3 DEF EndedWithin
    <3>2. within'[q][i] = within[q][i] + 1
      BY <2>2, <2>3 DEF JobTypes
    <3> QED
      BY <2>1, <3>1, <3>2, FS_AddElement
  <2>4. CASE ~(q = r /\ d <= i)
    <3>1. EndedWithin(q, i)' = EndedWithin(q, i)
      BY <1>1, <2>4 DEF EndedWithin
    <3>2. within'[q][i] = within[q][i]
      BY <2>2, <2>4 DEF JobTypes
    <3> QED
      BY <2>1, <3>1, <3>2
  <2> QED
    BY <2>3, <2>4
<1> QED
  BY <1>2, <1>3, <1>4 DEF CountsInv, HistogramIsTrue, Ended, EndedWithin

\* The counters are the numbers of attempts that ended.
LEMMA CountsStep == DInv /\ CountsInv /\ [DNext]_allVars => CountsInv'
<1> SUFFICES ASSUME JobTypes, StageInv, NumberInv, OnceInv, CountsInv, [DNext]_allVars PROVE CountsInv'
  BY DEF DInv
<1>1. CASE DRestart
  BY <1>1, FS_EmptySet DEF DRestart, NoCounts, NoBuckets, CountsInv, HistogramIsTrue
<1>2. CASE UNCHANGED metrics
  BY <1>2 DEF metrics, CountsInv, HistogramIsTrue
<1>3. ASSUME NEW h \in Handlers, NEW n \in Names, Reject(h, n) PROVE CountsInv'
  <2>1. begun + 1 \in 1..MaxAttempts /\ RecordDeployment(begun + 1, "failure", 0)
    BY <1>3, NewJob DEF Reject, Results
  <2>2. \A e \in ended : e.attempt # begun + 1
    BY BoundAssumption DEF NumberInv, JobTypes, Ends
  <2>3. "failure" \in Results /\ 0 \in Durations
    BY BoundAssumption DEF Results, Durations
  <2> QED
    BY <2>1, <2>2, <2>3, CountsEnd
<1>4. ASSUME NEW h \in Handlers, Return(h) PROVE CountsInv'
  <2>1. PICK r \in Results, d \in Durations :
          job[h].stage = "deploying" /\ RecordDeployment(job[h].attempt, r, d)
    BY <1>4, ReturnJob
  <2>2. job[h].attempt \in 1..MaxAttempts /\ \A e \in ended : e.attempt # job[h].attempt
    BY <2>1 DEF StageInv, OnceInv, Served
  <2> QED
    BY <2>1, <2>2, CountsEnd
<1>5. ASSUME NEW h \in Handlers, NEW n \in Names, Begin(h, n) PROVE UNCHANGED metrics
  BY <1>5 DEF Begin
<1>6. ASSUME NEW h \in Handlers, Deploying(h) \/ Drop(h) \/ Stamp(h) \/ Answer(h) PROVE UNCHANGED metrics
  BY <1>6 DEF Deploying, Drop, Stamp, Answer
<1>7. ASSUME NEW h \in Handlers, Upload(h) \/ UploadRefused(h) \/ UploadFails(h) PROVE UNCHANGED metrics
  BY <1>7 DEF Upload, UploadRefused, UploadFails, ToAnswer
<1>8. CASE UNCHANGED allVars
  BY <1>2, <1>8 DEF allVars
<1> QED
  BY <1>1, <1>2, <1>3, <1>4, <1>5, <1>6, <1>7, <1>8 DEF DNext

\* CountsInv always holds.
LEMMA CountsInvariance == DSpec => []CountsInv
<1>1. DInit => CountsInv
  BY FS_EmptySet DEF DInit, NoCounts, NoBuckets, CountsInv, HistogramIsTrue
<1> QED
  BY <1>1, CountsStep, DInvariance, PTL DEF DSpec

\* For any number of buckets and deployments the histogram is that of the
\* deployments that ended, with no end counted twice.  (metrics.go:49-64)
THEOREM HistogramHolds == DSpec => []HistogramIsTrue
<1>1. CountsInv => HistogramIsTrue
  BY DEF CountsInv
<1> QED
  BY <1>1, CountsInvariance, PTL

\* An attempt ends once, so no counter exceeds the number of attempts.
LEMMA AtMostAll ==
  ASSUME JobTypes, OnceInv, IsFiniteSet(ended), NEW S \in SUBSET ended
  PROVE Cardinality(S) \in 0..MaxAttempts
<1>1. IsFiniteSet(S) /\ Cardinality(S) \in Nat
  BY FS_Subset, FS_CardinalityType
<1>2. IsFiniteSet(1..MaxAttempts) /\ Cardinality(1..MaxAttempts) = MaxAttempts
  BY FS_Interval, BoundAssumption
<1>3. ~ Cardinality(1..MaxAttempts) < Cardinality(S)
  <2> DEFINE f == [e \in S |-> e.attempt]
  <2>1. f \in [S -> 1..MaxAttempts]
    BY DEF JobTypes, Ends
  <2>2. ~\E d, e \in S : d # e /\ f[d] = f[e]
    BY DEF OnceInv
  <2> HIDE DEF f
  <2> QED
    BY <1>1, <1>2, <2>1, <2>2, FS_PigeonHole
<1> QED
  BY <1>1, <1>2, <1>3, BoundAssumption

\* Counters, buckets, records and histories keep their types: no attempt is
\* counted twice, whichever way it ended.  (metrics.go:49-64, server.go:160-229)
THEOREM DeploymentTypes == DSpec => []DTypeOK
<1>1. TypeOK /\ DInv /\ CountsInv => DTypeOK
  <2> SUFFICES ASSUME TypeOK, JobTypes, OnceInv, CountsInv PROVE DTypeOK
    BY DEF DInv
  <2>1. \A r \in Results : counted[r] \in 0..MaxAttempts
    BY AtMostAll DEF CountsInv, HistogramIsTrue
  <2>2. \A r \in Results, i \in 1..Buckets : within[r][i] \in 0..MaxAttempts
    BY AtMostAll DEF CountsInv, HistogramIsTrue
  <2>3. \A r \in Results : within[r] \in [1..Buckets -> 0..MaxAttempts]
    BY <2>2 DEF JobTypes
  <2>4. counted \in [Results -> 0..MaxAttempts]
    BY <2>1 DEF JobTypes
  <2>5. within \in [Results -> [1..Buckets -> 0..MaxAttempts]]
    BY <2>3 DEF JobTypes
  <2> QED
    BY <2>4, <2>5 DEF JobTypes, DTypeOK, Ends
<1> QED
  BY <1>1, RunsLazyClient, TypeCorrect, DInvariance, CountsInvariance, PTL

-----------------------------------------------------------------------------
(* Nothing but a panic goes uncounted *)

\* The attempts that ended, after one more.
LEMMA OneMoreAttempt ==
  ASSUME NEW a, NEW r, NEW d, ended' = ended \cup {[attempt |-> a, result |-> r, duration |-> d]}
  PROVE {e.attempt : e \in ended'} = {e.attempt : e \in ended} \cup {a}
<1> DEFINE x == [attempt |-> a, result |-> r, duration |-> d]
<1>1. ended' = ended \cup {x} /\ x.attempt = a
  OBVIOUS
<1> HIDE DEF x
<1> QED
  BY <1>1

\* An attempt is given a number, and loses its handler, only in these ways.
LEMMA UncountedStep ==
  DInv /\ TypeInv /\ OnlyPanicsGoUncounted /\ [DNext]_allVars => OnlyPanicsGoUncounted'
<1> SUFFICES ASSUME JobTypes, StageInv, OnlyPanicsGoUncounted, [DNext]_allVars
             PROVE OnlyPanicsGoUncounted'
  BY DEF DInv
<1> USE DEF OnlyPanicsGoUncounted, Served
<1>1. CASE DRestart
  BY <1>1, IdleJob DEF DRestart
<1>2. ASSUME NEW h \in Handlers, NEW n \in Names, Begin(h, n) PROVE OnlyPanicsGoUncounted'
  <2>1. /\ job' = [job EXCEPT ![h] = [stage |-> "deploying", attempt |-> begun + 1, name |-> n,
                                      result |-> None, object |-> None]]
        /\ job[h].stage = "idle" /\ asked' = asked \cup {begun + 1} /\ dropped' = dropped
    BY <1>2, NewJob DEF Begin
  <2>2. ended' = ended
    BY <1>2 DEF Begin, metrics
  <2>3. Served' = Served \cup {h}
    BY <2>1 DEF JobTypes
  <2>4. job'[h].attempt = begun + 1 /\ \A g \in Served : job'[g].attempt = job[g].attempt
    BY <2>1 DEF JobTypes
  <2> HIDE DEF Served
  <2>5. {job'[g].attempt : g \in Served'} = {job[g].attempt : g \in Served} \cup {begun + 1}
    BY <2>3, <2>4
  <2> QED
    BY <2>1, <2>2, <2>5
<1>3. ASSUME NEW h \in Handlers, NEW n \in Names, Reject(h, n) PROVE OnlyPanicsGoUncounted'
  <2>1. /\ job' = [job EXCEPT ![h] = [stage |-> "recording", attempt |-> begun + 1, name |-> n,
                                      result |-> "failure", object |-> None]]
        /\ job[h].stage = "idle" /\ asked' = asked \cup {begun + 1} /\ dropped' = dropped
    BY <1>3, NewJob DEF Reject, Results
  <2>2. ended' = ended \cup {[attempt |-> begun + 1, result |-> "failure", duration |-> 0]}
    BY <1>3 DEF Reject, RecordDeployment
  <2>3. {e.attempt : e \in ended'} = {e.attempt : e \in ended} \cup {begun + 1}
    BY <2>2, OneMoreAttempt
  <2>4. {job'[g].attempt : g \in Served'} = {job[g].attempt : g \in Served}
    BY <2>1 DEF JobTypes
  <2> QED
    BY <2>1, <2>3, <2>4
<1>4. ASSUME NEW h \in Handlers, Return(h) PROVE OnlyPanicsGoUncounted'
  <2>1. PICK r \in Results, d \in Durations :
          /\ job[h].stage = "deploying" /\ job'[h].stage = "recording"
          /\ RecordDeployment(job[h].attempt, r, d) /\ Others(h)
    BY <1>4, ReturnJob
  <2>2. {e.attempt : e \in ended'} = {e.attempt : e \in ended} \cup {job[h].attempt}
    BY <2>1, OneMoreAttempt DEF RecordDeployment
  <2>3. {job[g].attempt : g \in Served} = {job'[g].attempt : g \in Served'} \cup {job[h].attempt}
    BY <2>1 DEF Others
  <2>4. asked' = asked /\ dropped' = dropped
    BY <1>4 DEF Return, history
  <2> QED
    BY <2>2, <2>3, <2>4
<1>5. ASSUME NEW h \in Handlers, Drop(h) PROVE OnlyPanicsGoUncounted'
  <2>1. job[h].stage = "deploying"
    BY <1>5 DEF Drop, Leave, Over, StageInv
  <2>2. asked' = asked /\ ended' = ended /\ dropped' = dropped \cup {job[h].attempt}
    BY <1>5 DEF Drop, metrics
  <2>3. {job[g].attempt : g \in Served} = {job'[g].attempt : g \in Served'} \cup {job[h].attempt}
    BY <1>5, <2>1, IdleAgain, IdleJob DEF Others
  <2> QED
    BY <2>2, <2>3
<1>6. ASSUME NEW h \in Handlers,
             Deploying(h) \/ Stamp(h) \/ Upload(h) \/ UploadRefused(h) \/ UploadFails(h) \/ Answer(h)
      PROVE OnlyPanicsGoUncounted'
  <2>1. asked' = asked /\ dropped' = dropped /\ ended' = ended
    BY <1>6 DEF Deploying, Stamp, Upload, UploadRefused, UploadFails, ToAnswer, Answer, metrics, history
  <2>2. \A g \in Handlers \ {h} : job'[g] = job[g]
    BY <1>6, OwnStep
  <2>3. job'[h] = job[h] \/ (job[h].stage # "deploying" /\ job'[h].stage # "deploying")
    BY <1>6, StampJob, ToAnswerJob, IdleAgain, IdleJob
       DEF Deploying, Upload, UploadRefused, UploadFails, Answer
  <2>4. {job'[g].attempt : g \in Served'} = {job[g].attempt : g \in Served}
    BY <2>2, <2>3
  <2> QED
    BY <2>1, <2>4
<1>7. CASE UNCHANGED allVars
  BY <1>7 DEF allVars, metrics, history
<1> QED
  BY <1>1, <1>2, <1>3, <1>4, <1>5, <1>6, <1>7 DEF DNext

\* However the deployments of a process interleave, those that are over are the
\* counted ones and those that panicked.  (server.go:160-229)
THEOREM PanicsAloneGoUncounted == DSpec => []OnlyPanicsGoUncounted
<1>1. DInit => OnlyPanicsGoUncounted
  BY IdleJob DEF DInit, OnlyPanicsGoUncounted, Served
<1>2. IInv => TypeInv
  BY DEF IInv
<1> QED
  BY <1>1, <1>2, UncountedStep, DInvariance, RunsLazyClient, Invariance, PTL DEF DSpec

\* The deployments of the whole process have the properties of LazyClient: late
\* ones are safe, and what panics has applied nothing.  (clientgo_deployer.go:39-107)
THEOREM ClientTheoremsHold == DSpec => [](LateOnesAreSafe /\ PanicAppliesNothing)
BY RunsLazyClient, LateDeploymentsAreSafe, PanicsApplyNothing, PTL
=============================================================================
