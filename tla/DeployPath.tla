----------------------------- MODULE DeployPath -----------------------------
(***************************************************************************)
(* POST /services/{name}/deploy: the handler (server.go), the two          *)
(* deployers (clientgo_deployer.go, deploy.go), the deployment counters    *)
(* (metrics.go) and the audit recorder (audit.go), against a Kubernetes    *)
(* API server and a bucket that are not part of the program.               *)
(*                                                                         *)
(* Several handlers deploy at once, of the same service or of different    *)
(* ones.  A client may go away at any time, which cancels r.Context(); the *)
(* API server may refuse a patch, and the answer to a patch may be lost.   *)
(* A patch whose sender has given up or died may still be executed later:  *)
(* it stays on the wire.                                                   *)
(*                                                                         *)
(* The registry is a durable one, as Registry has it with a store path:    *)
(* ServiceStore and RegistrationAPI model how it is filled and kept.  Here *)
(* any client-go deployment may panic over its first object, and any       *)
(* record may find its name taken: LazyClient shows which deployments do,  *)
(* Deployments which records.                                              *)
(***************************************************************************)
EXTENDS Naturals, Sequences, FiniteSets

CONSTANTS
  Handlers,       \* goroutines that serve deployments
  Names,          \* names of services
  Defs,           \* definitions, up to what the path tells apart
  NoDef,          \* the map has no such key, the cluster no such object
  WithConfigMap,  \* names whose bundle has a ConfigMap: "fastapi-service"
  Autoscaled,     \* definitions with autoscaling enabled
  Deployers,      \* values of CONTROL_PLANE_DEPLOYER_MODE the process is started with
  AuditEnabled,   \* CONTROL_PLANE_AUDIT_BUCKET is set
  AuditFaults,    \* the bucket or the token service may fail
  MaxDeploys      \* bound: deployments begun in one life of the process

ASSUME NoDefAssumption == NoDef \notin Defs /\ NoDef \notin Names
ASSUME BundleAssumption == WithConfigMap \subseteq Names /\ Autoscaled \subseteq Defs
ASSUME DeployerAssumption == Deployers \subseteq {"client-go", "kubectl", "disabled"}
ASSUME ModeAssumption == {AuditEnabled, AuditFaults} \subseteq BOOLEAN
ASSUME MaxDeploysAssumption == MaxDeploys \in Nat

VARIABLES
  running,    \* the process serves requests
  reg,        \* its registry
  policy,     \* definitions its deployment policy admits
  deployer,   \* its deployer, "none" while no process runs
  pc,         \* where each handler stands
  att,        \* the deployment it is making
  counted,    \* deploymentsByResult
  begun,      \* history: deployments this process was asked for
  dropped,    \* history: those of them that panicked
  namespace,  \* the target namespace exists
  cluster,    \* the other objects of each service, by kind
  wire,       \* patches whose sender no longer waits for them
  audit,      \* records in the bucket
  succeeded   \* history: deployments reported as applied

process == <<running, reg, policy, deployer>>
external == <<namespace, cluster, wire>>
vars == <<process, pc, att, counted, begun, dropped, external, audit, succeeded>>

\* The namespaced kinds; the Namespace itself is shared by all services.
Kinds == {"ConfigMap", "Deployment", "Service", "HPA"}

\* The objects of a bundle in the order in which they are applied.
Resources(n, d) == (IF n \in WithConfigMap THEN <<"ConfigMap">> ELSE <<>>)
                     \o <<"Deployment", "Service">>
                     \o (IF d \in Autoscaled THEN <<"HPA">> ELSE <<>>)
Bundle(n, d) == <<"Namespace">> \o Resources(n, d)

Results == {"none", "success", "failure"}
Trails == {"no", "stored", "taken"}   \* of the record of a deployment
Idle == [name |-> NoDef, def |-> NoDef, next |-> 1, erred |-> FALSE,
         result |-> "none", gone |-> FALSE, audited |-> "no"]
Attempts == [name : Names \cup {NoDef}, def : Defs \cup {NoDef}, next : 1..6,
             erred : BOOLEAN, result : Results, gone : BOOLEAN, audited : Trails]
Patches == [name : Names, kind : Kinds \cup {"Namespace"}, def : Defs]
Records == [name : Names, def : Defs, result : Results, applied : 0..5]

TypeOK == /\ running \in BOOLEAN
          /\ reg \in [Names -> Defs \cup {NoDef}]
          /\ policy \subseteq Defs
          /\ deployer \in Deployers \cup {"none"}
          /\ pc \in [Handlers -> {"idle", "apply", "sent", "landed", "refused", "audit", "answer"}]
          /\ att \in [Handlers -> Attempts]
          /\ counted \in [{"success", "failure"} -> 0..MaxDeploys]
          /\ begun \in 0..MaxDeploys /\ dropped \in 0..MaxDeploys
          /\ namespace \in BOOLEAN
          /\ cluster \in [Names -> [Kinds -> Defs \cup {NoDef}]]
          /\ wire \subseteq Patches
          /\ audit \subseteq Records
          /\ succeeded \subseteq Names \X Defs

Init == /\ running = FALSE
        /\ reg = [n \in Names |-> NoDef]
        /\ policy = {}
        /\ deployer = "none"
        /\ pc = [h \in Handlers |-> "idle"]
        /\ att = [h \in Handlers |-> Idle]
        /\ counted = [r \in {"success", "failure"} |-> 0]
        /\ begun = 0 /\ dropped = 0
        /\ namespace \in BOOLEAN
        /\ cluster = [n \in Names |-> [k \in Kinds |-> NoDef]]
        /\ wire = {}
        /\ audit = {}
        /\ succeeded = {}

-----------------------------------------------------------------------------
(* The process and its registry. *)

\* main(): policy and deployer are what the environment says this time.
Start == /\ ~running
         /\ running' = TRUE
         /\ policy' \in SUBSET Defs
         /\ deployer' \in Deployers
         /\ UNCHANGED <<reg, pc, att, counted, begun, dropped, external, audit, succeeded>>

\* The patch handler h waits for, if the API server has not executed it yet.
Pending(h) == IF pc[h] = "sent" 
                THEN {[name |-> att[h].name, def |-> att[h].def,
                       kind |-> Bundle(att[h].name, att[h].def)[att[h].next]]}
                ELSE {}

Crash == /\ running
         /\ running' = FALSE
         /\ policy' = {}
         /\ deployer' = "none"
         /\ pc' = [h \in Handlers |-> "idle"]
         /\ att' = [h \in Handlers |-> Idle]
         /\ counted' = [r \in {"success", "failure"} |-> 0]
         /\ begun' = 0 /\ dropped' = 0
         /\ wire' = wire \cup UNION {Pending(h) : h \in Handlers}
         /\ UNCHANGED <<reg, namespace, cluster, audit, succeeded>>

\* POST /services: the policy admits the definition and the name is free.
Register(n, d) == /\ running /\ d \in policy /\ reg[n] = NoDef
                  /\ reg' = [reg EXCEPT ![n] = d]
                  /\ UNCHANGED <<running, policy, deployer, pc, att, counted, begun, dropped, external, audit, succeeded>>

-----------------------------------------------------------------------------
(* The handler. *)

\* h moves to l and its deployment becomes a.
Step(h, l, a) == pc' = [pc EXCEPT ![h] = l] /\ att' = [att EXCEPT ![h] = a]

\* Faulty: the failed ones are counted on two paths.
FinishTwice(h, a, r) == 
  /\ Step(h, "audit", [a EXCEPT !.result = r])
  /\ counted' = [counted EXCEPT ![r] = @ + (IF r = "failure" THEN 2 ELSE 1)]
  /\ succeeded' = IF r = "success" THEN succeeded \cup {<<a.name, a.def>>} ELSE succeeded

\* Faulty: a failed deployment is answered without a record.
FinishUnaudited(h, a, r) == 
  /\ Step(h, IF r = "success" THEN "audit" ELSE "answer", [a EXCEPT !.result = r])
  /\ counted' = [counted EXCEPT ![r] = @ + 1]
  /\ succeeded' = IF r = "success" THEN succeeded \cup {<<a.name, a.def>>} ELSE succeeded

\* The deployment of h is over, after a.next - 1 objects, with result r:
\* recordDeployment(), then the audit record.
Finish(h, a, r) == /\ Step(h, "audit", [a EXCEPT !.result = r])
                   /\ counted' = [counted EXCEPT ![r] = @ + 1]
                   /\ succeeded' = IF r = "success" THEN succeeded \cup {<<a.name, a.def>>}
                                                    ELSE succeeded

\* Faulty: what was registered is not checked again.
AdmitsRegistered(d) == TRUE

\* policy.validateServiceDefinition() and validateManifestBundle().
Admits(d) == d \in policy

\* store.get() finds the service; the deployer is there; the bundle is rendered
\* and the policy is asked again.
Begin(h, n) == 
  /\ running /\ pc[h] = "idle" /\ reg[n] # NoDef /\ begun < MaxDeploys
  /\ begun' = begun + 1
  /\ LET a == [Idle EXCEPT !.name = n, !.def = reg[n]]
     IN  \/ /\ deployer = "disabled"       \* 501, counted but not audited
            /\ Step(h, "answer", [a EXCEPT !.result = "failure"])
            /\ counted' = [counted EXCEPT !["failure"] = @ + 1]
            /\ UNCHANGED succeeded
         \/ /\ deployer # "disabled" /\ ~Admits(reg[n])
            /\ Finish(h, a, "failure")
         \/ /\ deployer # "disabled" /\ Admits(reg[n])
            /\ Step(h, "apply", a)
            /\ UNCHANGED <<counted, succeeded>>
  /\ UNCHANGED <<process, dropped, external, audit>>

\* The client goes away: r.Context() is cancelled.  Nobody looks at it once the
\* record is uploaded.
Disconnect(h) == /\ pc[h] \notin {"idle", "answer"} /\ ~att[h].gone
                 /\ att' = [att EXCEPT ![h].gone = TRUE]
                 /\ UNCHANGED <<process, pc, counted, begun, dropped, external, audit, succeeded>>

-----------------------------------------------------------------------------
(* Apply(). *)

\* Faulty: the last object is forgotten.
MoreShort(h) == att[h].next < Len(Bundle(att[h].name, att[h].def))

Waiting == {"sent", "landed", "refused"}
More(h) == att[h].next <= Len(Bundle(att[h].name, att[h].def))

\* A client-go handler at "apply" is in ensureClient() or RESTMapping(), which
\* may ask the API server for its kinds, without r.Context().
Resolving(h) == deployer = "client-go" /\ pc[h] = "apply" /\ More(h)

\* The mapping is there, or kubectl is started: the next object is patched.
Send(h) == /\ pc[h] = "apply" /\ More(h) /\ ~att[h].gone
           /\ Step(h, "sent", att[h])
           /\ UNCHANGED <<process, counted, begun, dropped, external, audit, succeeded>>

\* Faulty: the object is listed before its patch was answered.
AppliedEarly(h) == /\ pc[h] \in {"sent", "landed"}
                   /\ Step(h, "apply", [att[h] EXCEPT !.next = @ + 1])
                   /\ UNCHANGED <<process, counted, begun, dropped, external, audit, succeeded>>

\* The patch succeeded: the object joins the list of applied ones.
Applied(h) == /\ pc[h] = "landed"
              /\ Step(h, "apply", [att[h] EXCEPT !.next = @ + 1])
              /\ UNCHANGED <<process, counted, begun, dropped, external, audit, succeeded>>

\* Faulty: client-go goes on after an error, too.
GoesOnAlways(h) == att[h].next > 1

\* "kubectl apply -f -" of the documents after the Namespace goes on after an
\* error and fails at the end; every other error ends Apply() at once.
GoesOn(h) == deployer = "kubectl" /\ att[h].next > 1

\* A refusal arrives, or the connection breaks before the answer does.
PatchFails(h) == /\ pc[h] \in Waiting
                 /\ wire' = wire \cup Pending(h)
                 /\ IF GoesOn(h)
                      THEN /\ Step(h, "apply", [att[h] EXCEPT !.next = @ + 1, !.erred = TRUE])
                           /\ UNCHANGED <<counted, succeeded>>
                      ELSE Finish(h, att[h], "failure")
                 /\ UNCHANGED <<process, begun, dropped, namespace, cluster, audit>>

\* Another handler stores the client at the same time: RESTMapping() panics, which
\* has applied nothing (PanicAppliesNothing of LazyClient), and net/http closes
\* the connection.
Panic(h) == /\ Resolving(h) /\ att[h].next = 1
            /\ Step(h, "idle", Idle)
            /\ dropped' = dropped + 1
            /\ UNCHANGED <<process, counted, begun, external, audit, succeeded>>

\* No client, no mapping for the kind, no kubectl binary: nothing is sent.
CannotSend(h) == /\ pc[h] = "apply" /\ More(h)
                 /\ Finish(h, att[h], "failure")
                 /\ UNCHANGED <<process, begun, dropped, external, audit>>

\* Faulty: the patch is sent with a context of its own.
CancelledBetween(h) == /\ att[h].gone
                       /\ pc[h] = "apply" /\ More(h)
                       /\ Finish(h, att[h], "failure")
                       /\ UNCHANGED <<process, begun, dropped, external, audit>>

\* The context is cancelled while a patch is awaited or before one is sent.
Cancelled(h) == /\ att[h].gone
                /\ pc[h] \in Waiting \/ (pc[h] = "apply" /\ More(h))
                /\ wire' = wire \cup Pending(h)
                /\ Finish(h, att[h], "failure")
                /\ UNCHANGED <<process, begun, dropped, namespace, cluster, audit>>

\* Faulty: the exit status is not looked at.
AllTriedFine(h) == /\ pc[h] = "apply" /\ ~More(h)
                   /\ Finish(h, att[h], "success")
                   /\ UNCHANGED <<process, begun, dropped, external, audit>>

\* All objects were tried: kubectl's exit status tells whether one failed.
AllTried(h) == /\ pc[h] = "apply" /\ ~More(h)
               /\ Finish(h, att[h], IF att[h].erred THEN "failure" ELSE "success")
               /\ UNCHANGED <<process, begun, dropped, external, audit>>

-----------------------------------------------------------------------------
(* recordDeploymentAudit() and the answer. *)

\* Faulty: an object is listed before the error of its patch is looked at.
RecordAhead(a) == [name |-> a.name, def |-> a.def, result |-> a.result,
                   applied |-> IF deployer = "client-go" /\ a.result = "failure"
                                 THEN a.next ELSE a.next - 1]

\* What the record says: kubectl's result lists no objects.
Record(a) == [name |-> a.name, def |-> a.def, result |-> a.result,
              applied |-> IF deployer = "client-go" THEN a.next - 1 ELSE 0]

Audited(h) == /\ pc[h] = "audit" /\ AuditEnabled /\ ~att[h].gone
              /\ audit' = audit \cup {Record(att[h])}
              /\ Step(h, "answer", [att[h] EXCEPT !.audited = "stored"])
              /\ UNCHANGED <<process, counted, begun, dropped, external, succeeded>>

\* The upload fails, or its answer is lost: the error is logged and no more.
AuditFails(h) == /\ pc[h] = "audit" /\ AuditEnabled
                 /\ AuditFaults \/ att[h].gone
                 /\ audit' \in {audit, audit \cup {Record(att[h])}}
                 /\ Step(h, "answer", att[h])
                 /\ UNCHANGED <<process, counted, begun, dropped, external, succeeded>>

\* Another record was made in the same instant for a name that sanitizes alike:
\* the bucket refuses this one, and the error is logged.  (audit.go:119-121)
NameTaken(h) == /\ pc[h] = "audit" /\ AuditEnabled /\ ~att[h].gone
                /\ \E r \in audit : r.result = att[h].result
                /\ Step(h, "answer", [att[h] EXCEPT !.audited = "taken"])
                /\ UNCHANGED <<process, counted, begun, dropped, external, audit, succeeded>>

NoAudit(h) == /\ pc[h] = "audit" /\ ~AuditEnabled
              /\ Step(h, "answer", att[h])
              /\ UNCHANGED <<process, counted, begun, dropped, external, audit, succeeded>>

\* 200, 502, 400 or 501.
Answer(h) == /\ pc[h] = "answer"
             /\ Step(h, "idle", Idle)
             /\ UNCHANGED <<process, counted, begun, dropped, external, audit, succeeded>>

-----------------------------------------------------------------------------
(* The API server: an object in a namespace that does not exist is refused. *)

Execute(p) == IF p.kind = "Namespace"
                THEN namespace' = TRUE /\ UNCHANGED cluster
                ELSE /\ namespace
                     /\ cluster' = [cluster EXCEPT ![p.name][p.kind] = p.def]
                     /\ UNCHANGED namespace

Land(h) == \E p \in Pending(h) :
             /\ Execute(p)
             /\ pc' = [pc EXCEPT ![h] = "landed"]
             /\ UNCHANGED <<process, att, counted, begun, dropped, wire, audit, succeeded>>

Refuse(h) == /\ pc[h] = "sent"
             /\ pc' = [pc EXCEPT ![h] = "refused"]
             /\ UNCHANGED <<process, att, counted, begun, dropped, external, audit, succeeded>>

\* A patch nobody waits for is executed, or never is.
LandLate(p) == /\ p \in wire
               /\ Execute(p)
               /\ wire' = wire \ {p}
               /\ UNCHANGED <<process, pc, att, counted, begun, dropped, audit, succeeded>>

Vanish(p) == /\ p \in wire
             /\ wire' = wire \ {p}
             /\ UNCHANGED <<process, pc, att, counted, begun, dropped, namespace, cluster, audit, succeeded>>

-----------------------------------------------------------------------------
Server(h) == Land(h) \/ Refuse(h)

Local(h) == \/ Send(h) \/ Applied(h) \/ AllTried(h) \/ Cancelled(h)
            \/ Audited(h) \/ AuditFails(h) \/ NameTaken(h) \/ NoAudit(h) \/ Answer(h)

Next == \/ Start
        \/ Crash
        \/ \E n \in Names, d \in Defs : Register(n, d)
        \/ \E h \in Handlers : \/ \E n \in Names : Begin(h, n)
                               \/ Disconnect(h)
                               \/ PatchFails(h) \/ CannotSend(h) \/ Panic(h)
                               \/ Local(h) \/ Server(h)
        \/ \E p \in Patches : LandLate(p) \/ Vanish(p)

Spec == Init /\ [][Next]_vars

\* Goroutines run.  Nothing is assumed of the API server here, neither that it
\* answers a patch nor that it answers RESTMapping(): the deployers and http.Server
\* put no deadline on a deployment.
Fairness == \A h \in Handlers :
              WF_vars(\/ ~Resolving(h) /\ Local(h)
                      \/ pc[h] = "refused" /\ PatchFails(h))

FairSpec == Spec /\ Fairness

-----------------------------------------------------------------------------
(* Properties. *)

InCluster(n, d, k) == IF k = "Namespace" THEN namespace ELSE cluster[n][k] = d
UpTo(n, d, j) == \A i \in 1..j : InCluster(n, d, Bundle(n, d)[i])

\* A deployment that was reported as applied has every object of its bundle in
\* the cluster and keeps it there, whatever patches of other, failed or cancelled
\* deployments land later.  (clientgo_deployer.go:50-81, deploy.go:40-58)
AppliedMeansComplete == \A s \in succeeded : UpTo(s[1], s[2], Len(Bundle(s[1], s[2])))

\* The objects an audit record lists are in the cluster, also those of a
\* deployment that failed half way or whose process died after the upload.
\* (clientgo_deployer.go:49-76, server.go:189-206)
AuditIsTruthful == 
  \A r \in audit : /\ UpTo(r.name, r.def, r.applied)
                   /\ r.result = "success" => <<r.name, r.def>> \in succeeded

\* No object is in the cluster without those before it in its bundle: a failed
\* deployment leaves a prefix, the Deployment never lacks its ConfigMap.
\* (clientgo_deployer.go:68-75, 109-118)
PrefixOnly == 
  \A n \in Names : reg[n] # NoDef => 
    LET b == Bundle(n, reg[n])
    IN  \A j \in 2..Len(b) : InCluster(n, reg[n], b[j]) => InCluster(n, reg[n], b[j - 1])

\* Every deployment is counted once, on whichever path it ends, unless it panics.
\* (server.go:160-229, clientgo_deployer.go:56)
CountedOnce == 
  begun = counted["success"] + counted["failure"] + dropped
            + Cardinality({h \in Handlers : pc[h] \in Waiting \cup {"apply"}})

\* A definition that was registered under another policy is not deployed under
\* this one, although loading the store does not check it.  (server.go:168, store.go:108)
DeploysAdmitted == \A h \in Handlers : pc[h] \in Waiting \cup {"apply"} => att[h].def \in policy

\* The deployment of h has its own record, or there is a reason why not.
Accounted(h) == \/ att[h].audited = "stored" /\ Record(att[h]) \in audit
                \/ att[h].audited = "taken" /\ \E r \in audit : r.result = att[h].result
                \/ att[h].gone
                \/ deployer = "disabled"

\* While the bucket works, every deployment that comes to an answer has its own
\* record in it, unless its client is gone, another record has the name, or there is
\* no deployer to try it with.  One that panics has neither answer nor record.
\* (server.go:161-165, 189, 206, 223, audit.go:119-121, clientgo_deployer.go:56)
AuditedUnlessGone == \A h \in Handlers : pc[h] = "answer" => Accounted(h)

\* "Every successful or failed deploy attempt writes a JSON audit artifact"
\* (control-plane README.md:173), here of the successful ones while the bucket
\* works: no deployment is reported as applied without a record.
EverySuccessAudited == 
  \A h \in Handlers : pc[h] = "answer" /\ att[h].result = "success" => att[h].audited = "stored"

\* A client that goes away frees its handler, even if the API server answers no
\* patch; only RESTMapping() of the client-go deployer, which does not take the
\* context, can keep it.  (server.go:178, clientgo_deployer.go:56, 68, deploy.go:67)
CancelledEnds == \A h \in Handlers : att[h].gone ~> (pc[h] = "idle" \/ Resolving(h))

\* Apply() of the client-go deployer sends no object before those ahead of it in
\* the bundle have arrived; kubectl goes on after an error.
InOrder == "kubectl" \notin Deployers

Abs == INSTANCE Rollout WITH Bundle <- Resources, Ordered <- InOrder,
                             succeeded <- {s[1] : s \in succeeded}

\* With either deployer a deployment is a rollout of what is registered: nothing
\* but registered objects arrives, with client-go in order, and it is reported as
\* applied only when all are there.  (clientgo_deployer.go:39-82, deploy.go:25-76)
ImplementsRollout == Abs!Spec
=============================================================================
