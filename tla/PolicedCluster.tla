--------------------------- MODULE PolicedCluster ---------------------------
(***************************************************************************)
(* The policy over the life of a cluster.  Definitions are admitted once,  *)
(* at registration, by the policy of that day; the process restarts with   *)
(* other settings; deploys are checked by the policy in force then; and    *)
(* what was applied stays in the cluster, where Kubernetes' autoscaler     *)
(* moves the replica counts between deploys.                               *)
(*                                                                         *)
(* A deploy is one step here and lands any part of its bundle, all of it   *)
(* included: DeployPath has the steps.  The registry is the register-once  *)
(* map that ServiceStore implements; with Durable it outlives the process. *)
(* Bounds: the definitions and settings tried, CONSTANTS of the instance.  *)
(***************************************************************************)
EXTENDS Policy

CONSTANTS Definitions,     \* the definitions clients post
          Environments,    \* the settings operators start the process with
          Durable,         \* CONTROL_PLANE_STORE_PATH is set
          None

ASSUME DefinitionAssumption == Definitions \subseteq ServiceDefinitions
ASSUME EnvironmentAssumption == Environments \subseteq Settings
ASSUME DurableAssumption == Durable \in BOOLEAN

VARIABLES
  policy,      \* the policy in force; None when no process runs
  services,    \* what is registered under each name; None when nothing is
  deployed,    \* the Deployment in the cluster, by name
  autoscaler,  \* the autoscaler in the cluster, by name
  replicas,    \* the replicas the Deployment has now
  granted      \* history: the policy that admitted the last deploy of the name

process == <<policy, services>>
cluster == <<deployed, autoscaler, replicas, granted>>
vars == <<process, cluster>>

Autoscaled == {d \in Definitions : d.autoscaling.enabled}

TypeOK == /\ policy \in Policies \cup {None}
          /\ services \in [Names -> Definitions \cup {None}]
          /\ deployed \in [Names -> {RenderDeployment(d) : d \in Definitions} \cup {None}]
          /\ autoscaler \in [Names -> {RenderHPA(d)[1] : d \in Autoscaled} \cup {None}]
          /\ replicas \in [Names -> Nat]
          /\ granted \in [Names -> Policies \cup {None}]

Nothing == [n \in Names |-> None]

Init == /\ policy = None /\ services = Nothing
        /\ deployed = Nothing /\ autoscaler = Nothing
        /\ replicas = [n \in Names |-> 0] /\ granted = Nothing

\* Faulty: the registry comes back empty although it has a file.
StartEmpty(s) == /\ policy = None /\ Loads(s)
                 /\ policy' = PolicyOf(s)
                 /\ services' = Nothing
                 /\ UNCHANGED cluster

\* main: the settings load or the process exits.  A registry without a file
\* starts empty; one with a file holds what it held.
Start(s) == /\ policy = None /\ Loads(s)
            /\ policy' = PolicyOf(s)
            /\ services' = IF Durable THEN services ELSE Nothing
            /\ UNCHANGED cluster

Stop == /\ policy # None
        /\ policy' = None
        /\ UNCHANGED <<services, cluster>>

\* POST /services that answers 201.  The other answers change nothing.
Register(d) == /\ policy # None
               /\ AdmitsDefinition(policy, d) /\ services[d.name] = None
               /\ services' = [services EXCEPT ![d.name] = d]
               /\ UNCHANGED <<policy, cluster>>

\* Faulty: what was admitted at registration is deployed unchecked.
DeployableUnchecked(d) == TRUE

Deployable(d) == AdmitsDefinition(policy, d) /\ AdmitsBundle(policy, RenderBundle(d))

\* Applying a Deployment sets the replica count of the definition.  Nothing is
\* ever deleted: a bundle with no autoscaler leaves the one in the cluster.
Deploy(n, landed) ==
  LET bundle == RenderBundle(services[n])
  IN /\ policy # None /\ services[n] # None /\ Deployable(services[n])
     /\ granted' = [granted EXCEPT ![n] = policy]
     /\ IF "Deployment" \in landed
        THEN /\ deployed' = [deployed EXCEPT ![n] = bundle.deployment]
             /\ replicas' = [replicas EXCEPT ![n] = bundle.deployment.spec.replicas]
        ELSE UNCHANGED <<deployed, replicas>>
     /\ IF "HPA" \in landed /\ bundle.hpa # <<>>
        THEN autoscaler' = [autoscaler EXCEPT ![n] = bundle.hpa[1]]
        ELSE UNCHANGED autoscaler
     /\ UNCHANGED process

\* External: Kubernetes' autoscaler sets any count within its bounds.
Scale(n) == /\ deployed[n] # None /\ autoscaler[n] # None
            /\ \E r \in autoscaler[n].spec.minReplicas..autoscaler[n].spec.maxReplicas :
                 replicas' = [replicas EXCEPT ![n] = r]
            /\ UNCHANGED <<process, deployed, autoscaler, granted>>

Next == \/ \E s \in Environments : Start(s)
        \/ Stop
        \/ \E d \in Definitions : Register(d)
        \/ \E n \in Names, landed \in SUBSET {"Deployment", "HPA"} : Deploy(n, landed)
        \/ \E n \in Names : Scale(n)

Spec == Init /\ [][Next]_vars
-----------------------------------------------------------------------------
Deployments == {n \in Names : deployed[n] # None}
Autoscalers == {n \in Names : autoscaler[n] # None}

\* A service the policy in force still admits is never turned down by the
\* second check, the one over the rendered manifests: the two hand-written
\* checks and the renderer between them agree on every bound.
SecondCheckAgrees ==
  \A n \in Names : (policy # None /\ services[n] # None)
                     => (AdmitsDefinition(policy, services[n])
                           => AdmitsBundle(policy, RenderBundle(services[n])))

\* Whatever is in the cluster keeps to the policy that admitted the last deploy
\* of the service, also when the service was registered under another one, that
\* deploy landed in part, and what is there comes from an earlier deploy.
DeployedWithinPolicy ==
  /\ \A n \in Deployments :
       LET spec == deployed[n].spec
       IN /\ spec.replicas <= granted[n].maxReplicas
          /\ spec.containers[1].image.under \cap granted[n].prefixes # {}
  /\ \A n \in Autoscalers :
       /\ autoscaler[n].spec.maxReplicas <= granted[n].maxAutoscaling
       /\ autoscaler[n].spec.metrics \subseteq 1..90

\* However Kubernetes scales it between deploys, a service never has more
\* replicas than the autoscaling bound its last deploy was checked against:
\* that bound is the one number that caps a service.
RunningCapped == \A n \in Deployments : replicas[n] <= granted[n].maxAutoscaling

\* The cluster holds what the registry's definition renders to and nothing
\* else: no autoscaler is left behind for a service that has autoscaling off,
\* although no deploy deletes anything.  It is a definition that never changes
\* that makes this so, and it takes a registry that outlives the process.
ClusterMatchesRegistry ==
  /\ \A n \in Deployments : /\ services[n] # None
                            /\ deployed[n] = RenderDeployment(services[n])
  /\ \A n \in Autoscalers : /\ services[n] # None
                            /\ RenderHPA(services[n]) = <<autoscaler[n]>>

\* The image error of the policy (deployment_policy.go:192) says an image must be
\* a reference "without whitespace": then none that is registered has any.
ImagesHaveNoWhitespace == \A n \in Names : services[n] # None => services[n].image.padding = "none"
=============================================================================
