----------------------------- MODULE Deployments -----------------------------
(***************************************************************************)
(* What a process has to show for the deployments it was asked for: the    *)
(* answers, the counters and the histogram (metrics.go), and the records   *)
(* in the audit bucket (audit.go).  The deployer is the client-go one with *)
(* its lazily built client: LazyClient.  DeployPath has the cluster, the   *)
(* other deployer and clients that go away; here a handler may panic, two  *)
(* records may want one name, and deployments take time.                   *)
(*                                                                         *)
(* Time is in units: the histogram's upper bounds are 1..Buckets and the   *)
(* bucket of +Inf is the counter.  The wall clock may stand still or be    *)
(* set back between two records.                                           *)
(***************************************************************************)
EXTENDS LazyClient, AuditTrail, FiniteSets

CONSTANTS Buckets,       \* upper bounds of the histogram
          MaxAttempts,   \* bound: deployments asked for
          None

ASSUME BoundAssumption == Buckets \in Nat /\ MaxAttempts \in Nat

VARIABLES
  job,      \* the request each handler serves
  counted,  \* deploymentsByResult, and deploymentDurationCount
  within,   \* deploymentDurationBuckets
  bucket,   \* audit records
  begun,    \* history: deployments ever asked for; numbers them
  asked,    \* history: those this process was asked for
  ended,    \* history: those that came to a result in this process
  dropped   \* history: those that panicked in it

metrics == <<counted, within, ended>>
history == <<begun, asked, dropped>>
allVars == <<vars, job, metrics, bucket, history>>

Results == {"success", "failure"}
Durations == 0..Buckets + 1
Idle == [stage |-> "idle", attempt |-> 0, name |-> None, result |-> None, object |-> None]
Jobs == [stage : {"idle", "deploying", "recording", "uploading", "answering"},
         attempt : 0..MaxAttempts, name : Names \cup {None}, result : Results \cup {None},
         object : ObjectNames \cup {None}]
Records == [object : ObjectNames, id : ObjectNames, attempt : 1..MaxAttempts, result : Results]

DTypeOK == /\ TypeOK
           /\ job \in [Handlers -> Jobs]
           /\ counted \in [Results -> 0..MaxAttempts]
           /\ within \in [Results -> [1..Buckets -> 0..MaxAttempts]]
           /\ bucket \subseteq Records
           /\ begun \in 0..MaxAttempts
           /\ asked \subseteq 1..MaxAttempts
           /\ ended \subseteq [attempt : 1..MaxAttempts, result : Results, duration : Durations]
           /\ dropped \subseteq 1..MaxAttempts

NoCounts == [r \in Results |-> 0]
NoBuckets == [r \in Results |-> [i \in 1..Buckets |-> 0]]

DInit == /\ Init
         /\ job = [h \in Handlers |-> Idle]
         /\ counted = NoCounts /\ within = NoBuckets
         /\ bucket = {}
         /\ begun = 0 /\ asked = {} /\ ended = {} /\ dropped = {}

\* The process dies and another takes over; the bucket stays.
DRestart == /\ Restart
            /\ job' = [h \in Handlers |-> Idle]
            /\ counted' = NoCounts /\ within' = NoBuckets
            /\ asked' = {} /\ ended' = {} /\ dropped' = {}
            /\ UNCHANGED <<bucket, begun>>

-----------------------------------------------------------------------------
(* metrics.go *)

\* Faulty: a duration equal to a bound is left out of its bucket.
RecordDeploymentBelow(attempt, result, duration) ==
  /\ counted' = [counted EXCEPT ![result] = @ + 1]
  /\ within' = [within EXCEPT ![result] =
                  [i \in 1..Buckets |-> IF duration < i THEN @[i] + 1 ELSE @[i]]]
  /\ ended' = ended \cup {[attempt |-> attempt, result |-> result, duration |-> duration]}

RecordDeployment(attempt, result, duration) ==
  /\ counted' = [counted EXCEPT ![result] = @ + 1]
  /\ within' = [within EXCEPT ![result] =
                  [i \in 1..Buckets |-> IF duration <= i THEN @[i] + 1 ELSE @[i]]]
  /\ ended' = ended \cup {[attempt |-> attempt, result |-> result, duration |-> duration]}

-----------------------------------------------------------------------------
(* handleServiceDeploy() *)

Enter(h, n, stage, result) ==
  /\ job[h].stage = "idle" /\ begun < MaxAttempts
  /\ begun' = begun + 1
  /\ asked' = asked \cup {begun + 1}
  /\ job' = [job EXCEPT ![h] = [stage |-> stage, attempt |-> begun + 1, name |-> n,
                                result |-> result, object |-> None]]
  /\ UNCHANGED <<bucket, dropped>>

Begin(h, n) == /\ Enter(h, n, "deploying", None)
               /\ Apply(h)
               /\ UNCHANGED metrics

\* Faulty: what the policy refuses is audited and not counted.
RejectUncounted(h, n) == /\ Enter(h, n, "recording", "failure")
                         /\ UNCHANGED <<vars, metrics>>

\* The policy refuses the definition: a failure that took no time.
Reject(h, n) == /\ Enter(h, n, "recording", "failure")
                /\ RecordDeployment(begun + 1, "failure", 0)
                /\ UNCHANGED vars

Deploying(h) == Working(h) /\ UNCHANGED <<job, metrics, bucket, history>>

\* Faulty: the counter of successes is the one of results.
ReturnCountsSuccess(h) ==
  /\ at[h] \in {"applied", "failed"} /\ Leave(h)
  /\ \E d \in Durations : RecordDeployment(job[h].attempt, "success", d)
  /\ job' = [job EXCEPT ![h].stage = "recording",
                        ![h].result = IF at[h] = "applied" THEN "success" ELSE "failure"]
  /\ UNCHANGED <<bucket, history>>

\* Apply() returned: the attempt is counted, and then recorded.
Return(h) ==
  /\ at[h] \in {"applied", "failed"} /\ Leave(h)
  /\ LET result == IF at[h] = "applied" THEN "success" ELSE "failure"
     IN /\ \E d \in Durations : RecordDeployment(job[h].attempt, result, d)
        /\ job' = [job EXCEPT ![h].stage = "recording", ![h].result = result]
  /\ UNCHANGED <<bucket, history>>

\* Apply() panicked: net/http closes the connection, and that is all.
Drop(h) == /\ at[h] = "panicked" /\ Leave(h)
           /\ job' = [job EXCEPT ![h] = Idle]
           /\ dropped' = dropped \cup {job[h].attempt}
           /\ UNCHANGED <<metrics, bucket, begun, asked>>

-----------------------------------------------------------------------------
(* RecordDeployment() of audit.go *)

\* recordDeploymentAudit() reads the clock, which names the record.
Stamp(h) == /\ job[h].stage = "recording"
            /\ \E t \in Instants :
                 job' = [job EXCEPT ![h].stage = "uploading",
                                    ![h].object = ObjectName(job[h].name, t, job[h].result)]
            /\ UNCHANGED <<vars, metrics, bucket, history>>

Record(h) == [object |-> job[h].object, attempt |-> job[h].attempt, result |-> job[h].result,
              id |-> RecordID(job[h].name, job[h].object[1], job[h].result)]

Stored(h) == Under(bucket, job[h].object) = {} /\ bucket' = bucket \cup {Record(h)}

\* h answers with the name of its record, or with none.
ToAnswer(h, object) ==
  /\ job[h].stage = "uploading"
  /\ job' = [job EXCEPT ![h].stage = "answering", ![h].object = object]
  /\ UNCHANGED <<vars, metrics, history>>

Upload(h) == ToAnswer(h, job[h].object) /\ Stored(h)

\* Faulty: the status of the answer is not looked at.
UploadRefusedUnseen(h) == /\ ToAnswer(h, job[h].object)
                          /\ Under(bucket, job[h].object) # {}
                          /\ UNCHANGED bucket

UploadRefused(h) == /\ ToAnswer(h, None)
                    /\ Under(bucket, job[h].object) # {}
                    /\ UNCHANGED bucket

\* No token, no connection, or 10 s without the answer to an upload that may
\* have been executed: the error is logged.
UploadFails(h) == ToAnswer(h, None) /\ (Stored(h) \/ UNCHANGED bucket)

Answer(h) == /\ job[h].stage = "answering"
             /\ job' = [job EXCEPT ![h] = Idle]
             /\ UNCHANGED <<vars, metrics, bucket, history>>

-----------------------------------------------------------------------------
DNext == \/ DRestart
         \/ \E h \in Handlers :
              \/ \E n \in Names : Begin(h, n) \/ Reject(h, n)
              \/ Deploying(h) \/ Return(h) \/ Drop(h)
              \/ Stamp(h) \/ Upload(h) \/ UploadRefused(h) \/ UploadFails(h) \/ Answer(h)

DSpec == DInit /\ [][DNext]_allVars
-----------------------------------------------------------------------------
Served == {h \in Handlers : job[h].stage = "deploying"}

\* The histogram Prometheus scrapes is the one of the deployments that ended:
\* every bucket holds those that took at most its bound, the bound included,
\* and the count, which is also the +Inf bucket, is the counter of that result,
\* on every path that ends a deployment.  (metrics.go:49-64, 111-118)
HistogramIsTrue ==
  \A r \in Results :
    /\ counted[r] = Cardinality({e \in ended : e.result = r})
    /\ \A i \in 1..Buckets :
         within[r][i] = Cardinality({e \in ended : e.result = r /\ e.duration <= i})

\* Of the deployments a process was asked for, one that is over is counted
\* unless it panicked: no error path forgets to count, none counts for another.
\* (server.go:160-229, clientgo_deployer.go:56)
OnlyPanicsGoUncounted ==
  asked = {e.attempt : e \in ended} \cup {job[h].attempt : h \in Served} \cup dropped

\* What the bucket says of a deployment of this process is what the counters
\* say: no record of one that is not counted, or is counted as the other result.
\* (server.go:181-206, 214-223)
TrailWithinCounters ==
  \A r \in bucket : r.attempt \in asked
                      => \E e \in ended : e.attempt = r.attempt /\ e.result = r.result

\* An ID occurs once in the bucket, although the clock may stand still and two
\* services may sanitize to one segment: of two records with one ID the second
\* finds its name taken.  (audit.go:129-180)
RecordIDsUnique == \A r, s \in bucket : r.id = s.id => r = s

\* The object an answer names holds the record of that very deployment, although
\* another may have wanted the name.  (audit.go:113-126, server.go:189-191, 206-208)
AnswerNamesItsRecord ==
  \A h \in Handlers : job[h].stage = "answering" /\ job[h].object # None
    => \E r \in bucket : r.object = job[h].object /\ r.attempt = job[h].attempt
=============================================================================
