------------------------ MODULE PolicedClusterProofs ------------------------
(***************************************************************************)
(* Proofs about the policy, about the cluster it guards, and about the     *)
(* text of a bundle, for every set of names, prefixes, definitions and     *)
(* settings, and every order in which the keys of maps may be visited.     *)
(***************************************************************************)
EXTENDS BundleYAML, FiniteSetTheorems, FunctionTheorems, TLAPS

\* The manifest checks over one rendered resource: kind, namespace, name and
\* labels of a namespaced manifest are always what the checks ask for.
LEMMA RenderedNamespaced ==
  ASSUME NEW b, b.namespace = Namespace, NEW n \in Names, NEW spec,
         NEW kind, kind # "ConfigMap"
  PROVE  Namespaced(b, Manifest(kind, n, Namespace, n, spec), kind)
BY UnsetAssumption DEF Namespaced, Manifest, Labels, ProjectLabels

LEMMA AdmittedImageAgain ==
  ASSUME NEW p, NEW i \in Images, AdmitsImage(p, i)
  PROVE  AdmitsImage(p, Trimmed(i))
BY DEF AdmitsImage, Trimmed, Images

\* What the admission of a definition says of its name and its numbers.
LEMMA AdmittedBounds ==
  ASSUME NEW p, NEW d, AdmitsDefinition(p, d)
  PROVE  /\ d.name \in SafeNames /\ AdmitsImage(p, d.image)
         /\ d.replicas >= 1 /\ d.replicas <= p.maxReplicas
BY Zenon DEF AdmitsDefinition, WellFormed

LEMMA AdmittedAutoscaling ==
  ASSUME NEW p, NEW d, AdmitsDefinition(p, d), d.autoscaling.enabled
  PROVE  /\ d.autoscaling.minReplicas >= 1
         /\ d.autoscaling.maxReplicas >= d.autoscaling.minReplicas
         /\ d.autoscaling.maxReplicas <= p.maxAutoscaling
         /\ d.autoscaling.targetCPU \in MinCPU..MaxCPU
BY Zenon DEF AdmitsDefinition, WellFormed

\* For every policy that loads and every definition: what validateServiceDefinition
\* admits renders to a bundle that validateManifestBundle admits.
THEOREM AdmittedRendersAdmitted ==
  ASSUME NEW p \in Policies, NEW d \in ServiceDefinitions, AdmitsDefinition(p, d)
  PROVE  AdmitsBundle(p, RenderBundle(d))
<1> DEFINE b == RenderBundle(d)
<1>0. /\ d.name \in SafeNames /\ d.name \in Names /\ d.image \in Images
      /\ d.replicas \in Int /\ d.replicas >= 1 /\ d.replicas <= p.maxReplicas
  BY AdmittedBounds, NameAssumption DEF ServiceDefinitions
<1>1. /\ b.namespace = Namespace /\ b.namespaceManifest = RenderNamespace
      /\ b.configMap = RenderConfigMap(d) /\ b.deployment = RenderDeployment(d)
      /\ b.service = RenderService(d) /\ b.hpa = RenderHPA(d)
      /\ b.yaml = RenderConfigMap(d) \o <<RenderDeployment(d), RenderService(d)>> \o RenderHPA(d)
  BY DEF RenderBundle
<1> HIDE DEF b
<1>2. b.namespace # Unset
  BY <1>1, UnsetAssumption
<1>3. AdmitsNamespace(b)
  BY <1>1 DEF AdmitsNamespace, RenderNamespace, Manifest, Labels, ProjectLabels
<1>4. ASSUME NEW i \in DOMAIN b.configMap
      PROVE  Namespaced(b, b.configMap[i], "ConfigMap")
  <2>1. b.configMap[i] = Manifest("ConfigMap", ConfigMapName, Namespace, d.name, <<>>)
    BY <1>1, <1>4 DEF RenderConfigMap
  <2> QED BY <1>1, <2>1, UnsetAssumption DEF Namespaced, Manifest, Labels, ProjectLabels
<1>5. AdmitsDeployment(p, b)
  <2> DEFINE m == b.deployment
             c == m.spec.containers[1]
  <2>1. Namespaced(b, m, "Deployment")
    BY <1>0, <1>1, RenderedNamespaced DEF RenderDeployment
  <2>2. /\ m.spec.replicas = d.replicas /\ m.spec.templateLabels = Labels(d.name)
        /\ m.spec.privileges = {} /\ m.annotations = {} /\ Len(m.spec.containers) = 1
        /\ c = [name |-> d.name, image |-> d.image, probes |-> Probes,
                requests |-> Requests, limits |-> Limits]
    BY <1>1 DEF RenderDeployment, Manifest
  <2>3. m.spec.replicas \in 1..p.maxReplicas
    BY <1>0, <2>2 DEF Policies
  <2>4. ProjectLabels(m, m.spec.templateLabels, Unset)
    BY <2>2 DEF ProjectLabels, Labels
  <2>5. AdmitsContainer(p, c)
    BY <1>0, <2>2, AdmittedBounds, AdmittedImageAgain DEF AdmitsContainer
  <2> QED BY <2>1, <2>2, <2>3, <2>4, <2>5 DEF AdmitsDeployment
<1>6. AdmitsService(b)
  <2>1. Namespaced(b, b.service, "Service")
    BY <1>0, <1>1, RenderedNamespaced DEF RenderService
  <2> QED BY <1>1, <2>1 DEF AdmitsService, RenderService, Manifest
<1>7. ASSUME NEW i \in DOMAIN b.hpa
      PROVE  AdmitsHPA(p, b, b.hpa[i])
  <2> DEFINE spec == [minReplicas |-> d.autoscaling.minReplicas,
                      maxReplicas |-> d.autoscaling.maxReplicas,
                      metrics |-> {d.autoscaling.targetCPU}]
  <2>1. /\ d.autoscaling.enabled
        /\ b.hpa[i] = Manifest("HorizontalPodAutoscaler", d.name, Namespace, d.name, spec)
    BY <1>1, <1>7 DEF RenderHPA
  <2>2. b.hpa[i].spec = spec
    BY <2>1 DEF Manifest
  <2>3. Namespaced(b, b.hpa[i], "HorizontalPodAutoscaler")
    BY <1>0, <1>1, <2>1, RenderedNamespaced
  <2>4. /\ spec.minReplicas >= 1
        /\ spec.maxReplicas \in spec.minReplicas..p.maxAutoscaling
        /\ spec.metrics # {}
    BY <2>1, AdmittedAutoscaling DEF Policies, ServiceDefinitions, Autoscaling
  <2> QED BY <2>2, <2>3, <2>4 DEF AdmitsHPA
<1>8. b.yaml = b.configMap \o <<b.deployment, b.service>> \o b.hpa
  BY <1>1
<1> QED BY <1>2, <1>3, <1>4, <1>5, <1>6, <1>7, <1>8 DEF AdmitsBundle, b

\* The other way round: what the check over the manifests makes sure of.
LEMMA AdmittedFromBundle ==
  ASSUME NEW p \in Policies, NEW d \in ServiceDefinitions, AdmitsBundle(p, RenderBundle(d))
  PROVE  /\ d.replicas >= 1 /\ d.replicas <= p.maxReplicas
         /\ AdmitsImage(p, d.image) /\ d.image.form # "blank"
         /\ d.autoscaling.enabled => /\ d.autoscaling.minReplicas >= 1
                                     /\ d.autoscaling.maxReplicas >= d.autoscaling.minReplicas
                                     /\ d.autoscaling.maxReplicas <= p.maxAutoscaling
<1> DEFINE b == RenderBundle(d)
<1>0. /\ d.image \in Images /\ d.replicas \in Int
      /\ d.autoscaling.minReplicas \in Int /\ d.autoscaling.maxReplicas \in Int
      /\ p.maxReplicas \in Int /\ p.maxAutoscaling \in Int
  BY DEF ServiceDefinitions, Autoscaling, Policies
<1>1. b.deployment = RenderDeployment(d) /\ b.hpa = RenderHPA(d)
  BY DEF RenderBundle
<1>2. AdmitsDeployment(p, b) /\ \A i \in DOMAIN b.hpa : AdmitsHPA(p, b, b.hpa[i])
  BY DEF AdmitsBundle
<1> HIDE DEF b
<1>3. /\ RenderDeployment(d).spec.replicas = d.replicas
      /\ RenderDeployment(d).spec.containers[1].image = d.image
  BY DEF RenderDeployment, Manifest
<1>4. d.replicas \in 1..p.maxReplicas /\ AdmitsImage(p, Trimmed(d.image))
  BY <1>1, <1>2, <1>3 DEF AdmitsDeployment, AdmitsContainer
<1>5. AdmitsImage(p, d.image) /\ d.image.form # "blank"
  BY <1>0, <1>4 DEF AdmitsImage, Trimmed, Images
<1>6. ASSUME d.autoscaling.enabled
      PROVE  /\ d.autoscaling.minReplicas >= 1
             /\ d.autoscaling.maxReplicas \in d.autoscaling.minReplicas..p.maxAutoscaling
  <2> DEFINE spec == [minReplicas |-> d.autoscaling.minReplicas,
                      maxReplicas |-> d.autoscaling.maxReplicas,
                      metrics |-> {d.autoscaling.targetCPU}]
             m == Manifest("HorizontalPodAutoscaler", d.name, Namespace, d.name, spec)
  <2>1. RenderHPA(d) = <<m>>
    BY <1>6 DEF RenderHPA
  <2>2. m.spec = spec
    BY DEF Manifest
  <2> HIDE DEF m
  <2>3. 1 \in DOMAIN b.hpa /\ b.hpa[1] = m
    BY <1>1, <2>1
  <2>4. AdmitsHPA(p, b, m)
    BY <1>2, <2>3
  <2> QED BY <2>2, <2>4 DEF AdmitsHPA
<1> QED BY <1>0, <1>4, <1>5, <1>6

\* The two checks ask the same of a definition, but for its port, the target of
\* its autoscaler and blanks around its name: these the check over the manifests
\* leaves to the one at registration, everything else it repeats.
\* (deployment_policy.go:117-187, 239-381, validation.go:11-41)
THEOREM ChecksCompared ==
  ASSUME NEW p \in Policies, NEW d \in ServiceDefinitions
  PROVE  AdmitsDefinition(p, d) <=>
           /\ AdmitsBundle(p, RenderBundle(d))
           /\ d.name \in SafeNames
           /\ d.port \in 1..MaxPort
           /\ d.autoscaling.enabled => d.autoscaling.targetCPU \in MinCPU..MaxCPU
<1>1. ASSUME AdmitsDefinition(p, d)
      PROVE  /\ AdmitsBundle(p, RenderBundle(d))
             /\ d.name \in SafeNames /\ d.port \in 1..MaxPort
             /\ d.autoscaling.enabled => d.autoscaling.targetCPU \in MinCPU..MaxCPU
  <2>1. d.port \in 1..MaxPort
    BY <1>1, Zenon DEF AdmitsDefinition, WellFormed
  <2> QED BY <1>1, <2>1, AdmittedRendersAdmitted, AdmittedBounds, AdmittedAutoscaling
<1>2. ASSUME AdmitsBundle(p, RenderBundle(d)), d.name \in SafeNames, d.port \in 1..MaxPort,
             d.autoscaling.enabled => d.autoscaling.targetCPU \in MinCPU..MaxCPU
      PROVE  AdmitsDefinition(p, d)
  <2>1. d.autoscaling.enabled => d.autoscaling.targetCPU \in 1..100
    BY <1>2 DEF MinCPU, MaxCPU
  <2>2. WellFormed(d)
    BY <1>2, <2>1, AdmittedFromBundle, Zenon DEF WellFormed
  <2> QED BY <1>2, <2>2, AdmittedFromBundle, Zenon DEF AdmitsDefinition
<1> QED BY <1>1, <1>2

-----------------------------------------------------------------------------
(* The inductive invariant.  Every autoscaler in the cluster came from an  *)
(* admitted definition, so it keeps at least one replica; and with a       *)
(* registry that outlives the process, the policy that admitted the last   *)
(* deploy of a name admits the definition the name still has.              *)

FloorInv == \A n \in Autoscalers : autoscaler[n].spec.minReplicas >= 1

PolicyInv == policy # None => policy.maxReplicas <= policy.maxAutoscaling

GrantInv ==
  \A n \in Names :
    /\ n \in Deployments \cup Autoscalers => granted[n] # None
    /\ granted[n] # None => /\ services[n] # None
                            /\ AdmitsDefinition(granted[n], services[n])
                            /\ granted[n].maxReplicas <= granted[n].maxAutoscaling

\* Each replica count is the definition's, or one its autoscaler could pick.
SpreadInv ==
  \A n \in Deployments :
    \/ replicas[n] = services[n].replicas
    \/ /\ services[n].autoscaling.enabled
       /\ replicas[n] <= services[n].autoscaling.maxReplicas

DurableInv == PolicyInv /\ GrantInv /\ ClusterMatchesRegistry /\ SpreadInv

TypeInv == TypeOK /\ FloorInv

IInv == TypeInv /\ (Durable => DurableInv)

LEMMA LoadedPolicy ==
  ASSUME NEW s \in Environments, Loads(s)
  PROVE  PolicyOf(s) \in Policies /\ PolicyOf(s).maxReplicas <= PolicyOf(s).maxAutoscaling
<1>1. /\ s.prefixes \in {Unset} \cup SUBSET Prefixes
      /\ s.maxReplicas \in {Unset} \cup Int /\ s.maxAutoscaling \in {Unset} \cup Int
  BY EnvironmentAssumption DEF Settings
<1>2. /\ Or(s.prefixes, {LocalPrefix}) \in SUBSET Prefixes
      /\ Or(s.maxReplicas, DefaultMaxReplicas) \in Int
      /\ Or(s.maxAutoscaling, DefaultMaxAutoscaling) \in Int
  BY <1>1, PrefixAssumption DEF Or, DefaultMaxReplicas, DefaultMaxAutoscaling
<1> QED BY <1>2 DEF Loads, PolicyOf, Policies

\* The one autoscaler a definition renders to, when it renders to one.
LEMMA RenderedHPA ==
  ASSUME NEW d \in ServiceDefinitions, RenderHPA(d) # <<>>
  PROVE  /\ d.autoscaling.enabled
         /\ RenderHPA(d) = <<RenderHPA(d)[1]>>
         /\ 1 \in DOMAIN RenderHPA(d)
         /\ RenderHPA(d)[1].spec.minReplicas = d.autoscaling.minReplicas
         /\ RenderHPA(d)[1].spec.maxReplicas = d.autoscaling.maxReplicas
         /\ RenderHPA(d)[1].spec.metrics = {d.autoscaling.targetCPU}
<1> DEFINE spec == [minReplicas |-> d.autoscaling.minReplicas,
                    maxReplicas |-> d.autoscaling.maxReplicas,
                    metrics |-> {d.autoscaling.targetCPU}]
           m == Manifest("HorizontalPodAutoscaler", d.name, Namespace, d.name, spec)
<1>1. d.autoscaling.enabled /\ RenderHPA(d) = <<m>>
  BY DEF RenderHPA
<1>2. m.spec = spec
  BY DEF Manifest
<1> HIDE DEF m
<1> QED BY <1>1, <1>2

LEMMA RenderedReplicas ==
  ASSUME NEW d
  PROVE  /\ RenderDeployment(d).spec.replicas = d.replicas
         /\ RenderDeployment(d).spec.containers[1].image = d.image
BY DEF RenderDeployment, Manifest

LEMMA Bundle ==
  ASSUME NEW d
  PROVE  /\ RenderBundle(d).deployment = RenderDeployment(d)
         /\ RenderBundle(d).hpa = RenderHPA(d)
BY DEF RenderBundle

\* Every autoscaler the type invariant allows has integer bounds.
LEMMA AutoscalerBounds ==
  ASSUME TypeOK, NEW n \in Autoscalers
  PROVE  /\ autoscaler[n].spec.minReplicas \in Int
         /\ autoscaler[n].spec.maxReplicas \in Int
<1>1. PICK d \in Autoscaled : autoscaler[n] = RenderHPA(d)[1]
  BY DEF TypeOK, Autoscalers
<1>2. /\ d \in ServiceDefinitions /\ d.autoscaling.enabled
      /\ d.autoscaling.minReplicas \in Int /\ d.autoscaling.maxReplicas \in Int
  BY DefinitionAssumption DEF Autoscaled, ServiceDefinitions, Autoscaling
<1>3. RenderHPA(d) # <<>>
  BY <1>2 DEF RenderHPA
<1> QED BY <1>1, <1>2, <1>3, RenderedHPA

\* What a deploy takes for granted of the definition it renders.
LEMMA DeployTakes ==
  ASSUME TypeOK, NEW n \in Names, NEW landed, Deploy(n, landed)
  PROVE  /\ policy # None /\ policy \in Policies
         /\ services[n] # None /\ services[n] \in Definitions
         /\ services[n] \in ServiceDefinitions
         /\ AdmitsDefinition(policy, services[n])
         /\ services[n].replicas \in Nat /\ services[n].replicas <= policy.maxReplicas
<1>1. /\ policy # None /\ services[n] # None /\ AdmitsDefinition(policy, services[n])
  BY DEF Deploy, Deployable
<1>2. /\ policy \in Policies /\ services[n] \in Definitions /\ services[n] \in ServiceDefinitions
  BY <1>1, DefinitionAssumption DEF TypeOK
<1>3. services[n].replicas \in Int
  BY <1>2 DEF ServiceDefinitions
<1> QED BY <1>1, <1>2, <1>3, AdmittedBounds

\* A deploy leaves the other names alone; for its own it grants the policy in
\* force and installs what the definition renders to, or part of it.
LEMMA DeployEffect ==
  ASSUME TypeOK, NEW n \in Names, NEW landed, Deploy(n, landed)
  PROVE  /\ UNCHANGED process
         /\ granted' = [granted EXCEPT ![n] = policy]
         /\ \/ UNCHANGED <<deployed, replicas>>
            \/ /\ deployed' = [deployed EXCEPT ![n] = RenderDeployment(services[n])]
               /\ replicas' = [replicas EXCEPT ![n] = services[n].replicas]
         /\ \/ UNCHANGED autoscaler
            \/ /\ services[n].autoscaling.enabled
               /\ RenderHPA(services[n]) = <<RenderHPA(services[n])[1]>>
               /\ autoscaler' = [autoscaler EXCEPT ![n] = RenderHPA(services[n])[1]]
<1>1. /\ UNCHANGED process /\ granted' = [granted EXCEPT ![n] = policy]
  BY DEF Deploy
<1>2. \/ UNCHANGED <<deployed, replicas>>
      \/ /\ deployed' = [deployed EXCEPT ![n] = RenderDeployment(services[n])]
         /\ replicas' = [replicas EXCEPT ![n] = services[n].replicas]
  BY Bundle, RenderedReplicas DEF Deploy
<1>3. \/ UNCHANGED autoscaler
      \/ /\ RenderHPA(services[n]) # <<>>
         /\ autoscaler' = [autoscaler EXCEPT ![n] = RenderHPA(services[n])[1]]
  BY Bundle DEF Deploy
<1> QED BY <1>1, <1>2, <1>3, DeployTakes, RenderedHPA

LEMMA TypeInit == Init => TypeInv
BY DEF Init, TypeInv, TypeOK, FloorInv, Autoscalers, Nothing

\* Types and the autoscaler's floor follow action by action.
LEMMA TypeStep == TypeInv /\ [Next]_vars => TypeInv'
<1> SUFFICES ASSUME TypeInv, [Next]_vars PROVE TypeInv'
  OBVIOUS
<1> USE DEF TypeInv
<1>1. ASSUME NEW s \in Environments, Start(s) PROVE TypeInv'
  <2>1. PolicyOf(s) \in Policies
    BY <1>1, LoadedPolicy DEF Start
  <2>2. services' \in [Names -> Definitions \cup {None}]
    BY <1>1 DEF Start, TypeOK, Nothing
  <2> QED BY <1>1, <2>1, <2>2 DEF Start, TypeOK, FloorInv, Autoscalers, cluster
<1>2. CASE Stop
  BY <1>2 DEF Stop, TypeOK, FloorInv, Autoscalers, cluster
<1>3. ASSUME NEW d \in Definitions, Register(d) PROVE TypeInv'
  BY <1>3 DEF Register, TypeOK, FloorInv, Autoscalers, cluster
<1>4. ASSUME NEW n \in Names, NEW landed, Deploy(n, landed) PROVE TypeInv'
  <2> DEFINE d == services[n]
  <2>1. /\ policy \in Policies /\ d \in Definitions /\ d \in ServiceDefinitions
        /\ d.replicas \in Nat /\ AdmitsDefinition(policy, d)
    BY <1>4, DeployTakes
  <2>2. /\ policy' \in Policies \cup {None} /\ services' \in [Names -> Definitions \cup {None}]
        /\ granted' \in [Names -> Policies \cup {None}]
    BY <1>4, <2>1, DeployEffect DEF TypeOK, process
  <2>3. /\ deployed' \in [Names -> {RenderDeployment(e) : e \in Definitions} \cup {None}]
        /\ replicas' \in [Names -> Nat]
    BY <1>4, <2>1, DeployEffect DEF TypeOK
  <2>4. CASE UNCHANGED autoscaler
    BY <2>2, <2>3, <2>4 DEF TypeOK, FloorInv, Autoscalers
  <2>5. CASE /\ d.autoscaling.enabled /\ RenderHPA(d) = <<RenderHPA(d)[1]>>
             /\ autoscaler' = [autoscaler EXCEPT ![n] = RenderHPA(d)[1]]
    <3>1. RenderHPA(d)[1] \in {RenderHPA(e)[1] : e \in Autoscaled}
      BY <2>1, <2>5 DEF Autoscaled
    <3>2. RenderHPA(d)[1].spec.minReplicas >= 1
      BY <2>1, <2>5, AdmittedAutoscaling, RenderedHPA
    <3>3. autoscaler' \in [Names -> {RenderHPA(e)[1] : e \in Autoscaled} \cup {None}]
      BY <2>5, <3>1 DEF TypeOK
    <3>4. FloorInv'
      BY <2>5, <3>2 DEF TypeOK, FloorInv, Autoscalers
    <3> QED BY <2>2, <2>3, <3>3, <3>4 DEF TypeOK
  <2> QED BY <1>4, <2>4, <2>5, DeployEffect
<1>5. ASSUME NEW n \in Names, Scale(n) PROVE TypeInv'
  <2>1. n \in Autoscalers
    BY <1>5 DEF Scale, Autoscalers
  <2>2. PICK r \in autoscaler[n].spec.minReplicas..autoscaler[n].spec.maxReplicas :
          replicas' = [replicas EXCEPT ![n] = r]
    BY <1>5 DEF Scale
  <2>3. r \in Nat
    BY <2>1, <2>2, AutoscalerBounds DEF FloorInv
  <2> QED BY <1>5, <2>2, <2>3 DEF Scale, TypeOK, FloorInv, Autoscalers, process
<1>6. CASE UNCHANGED vars
  BY <1>6 DEF vars, process, cluster, TypeOK, FloorInv, Autoscalers
<1> QED BY <1>1, <1>2, <1>3, <1>4, <1>5, <1>6 DEF Next

LEMMA DurableInit == Init => DurableInv
BY DEF Init, Nothing, DurableInv, PolicyInv, GrantInv, ClusterMatchesRegistry, SpreadInv,
       Deployments, Autoscalers

\* With a durable registry a definition never changes under a name, so what an
\* earlier deploy left behind is still what the definition renders to.
LEMMA DurableStep ==
  ASSUME Durable, TypeInv, DurableInv, [Next]_vars
  PROVE  DurableInv'
<1> USE DEF DurableInv
<1>1. ASSUME NEW s \in Environments, Start(s) PROVE DurableInv'
  <2>1. PolicyInv'
    BY <1>1, LoadedPolicy DEF Start, PolicyInv
  <2> QED BY <1>1, <2>1 DEF Start, cluster, GrantInv, ClusterMatchesRegistry, SpreadInv,
                            Deployments, Autoscalers
<1>2. CASE Stop
  BY <1>2 DEF Stop, cluster, PolicyInv, GrantInv, ClusterMatchesRegistry, SpreadInv,
              Deployments, Autoscalers
<1>3. ASSUME NEW d \in Definitions, Register(d) PROVE DurableInv'
  <2>1. /\ services[d.name] = None /\ services' = [services EXCEPT ![d.name] = d]
        /\ UNCHANGED <<policy, deployed, autoscaler, replicas, granted>>
    BY <1>3 DEF Register, cluster
  <2>2. ASSUME NEW n \in Names, granted[n] # None
        PROVE  services[n] # None /\ services'[n] = services[n]
    BY <2>1, <2>2 DEF GrantInv, TypeInv, TypeOK
  <2>3. PolicyInv' /\ GrantInv' /\ SpreadInv'
    BY <2>1, <2>2 DEF PolicyInv, GrantInv, SpreadInv, Deployments, Autoscalers
  <2>4. ClusterMatchesRegistry'
    BY <2>1, <2>2 DEF GrantInv, ClusterMatchesRegistry, Deployments, Autoscalers
  <2> QED BY <2>3, <2>4
<1>4. ASSUME NEW n \in Names, NEW landed, Deploy(n, landed) PROVE DurableInv'
  <2> DEFINE d == services[n]
  <2>1. /\ policy # None /\ policy \in Policies /\ policy.maxReplicas <= policy.maxAutoscaling
        /\ d # None /\ d.replicas \in Nat /\ AdmitsDefinition(policy, d)
        /\ d.replicas <= policy.maxReplicas /\ d \in ServiceDefinitions
    BY <1>4, DeployTakes DEF PolicyInv, TypeInv
  <2>2. /\ policy' = policy /\ services' = services
        /\ granted' = [granted EXCEPT ![n] = policy]
        /\ \/ UNCHANGED <<deployed, replicas>>
           \/ /\ deployed' = [deployed EXCEPT ![n] = RenderDeployment(d)]
              /\ replicas' = [replicas EXCEPT ![n] = d.replicas]
        /\ \/ UNCHANGED autoscaler
           \/ /\ d.autoscaling.enabled /\ RenderHPA(d) = <<RenderHPA(d)[1]>>
              /\ autoscaler' = [autoscaler EXCEPT ![n] = RenderHPA(d)[1]]
    BY <1>4, DeployEffect DEF process, TypeInv
  <2>3. PolicyInv'
    BY <2>2 DEF PolicyInv
  <2>4. GrantInv'
    BY <2>1, <2>2 DEF GrantInv, Deployments, Autoscalers, TypeInv, TypeOK
  <2>5. ClusterMatchesRegistry'
    BY <2>1, <2>2 DEF ClusterMatchesRegistry, Deployments, Autoscalers, TypeInv, TypeOK
  <2>6. SpreadInv'
    BY <2>2 DEF SpreadInv, Deployments, TypeInv, TypeOK
  <2> QED BY <2>3, <2>4, <2>5, <2>6
<1>5. ASSUME NEW n \in Names, Scale(n) PROVE DurableInv'
  <2>1. /\ n \in Autoscalers /\ UNCHANGED <<policy, services, deployed, autoscaler, granted>>
    BY <1>5 DEF Scale, Autoscalers, process
  <2>2. PICK r \in autoscaler[n].spec.minReplicas..autoscaler[n].spec.maxReplicas :
          replicas' = [replicas EXCEPT ![n] = r]
    BY <1>5 DEF Scale
  <2>3. services[n] \in ServiceDefinitions /\ RenderHPA(services[n]) = <<autoscaler[n]>>
    BY <2>1, DefinitionAssumption DEF ClusterMatchesRegistry, Autoscalers, TypeInv, TypeOK
  <2>4. /\ services[n].autoscaling.enabled
        /\ autoscaler[n].spec.maxReplicas = services[n].autoscaling.maxReplicas
    BY <2>3, RenderedHPA
  <2>5. r <= services[n].autoscaling.maxReplicas
    BY <2>1, <2>2, <2>4, AutoscalerBounds DEF TypeInv
  <2>6. SpreadInv'
    BY <2>1, <2>2, <2>4, <2>5 DEF SpreadInv, Deployments, TypeInv, TypeOK
  <2> QED BY <2>1, <2>6 DEF PolicyInv, GrantInv, ClusterMatchesRegistry, Deployments, Autoscalers
<1>6. CASE UNCHANGED vars
  BY <1>6 DEF vars, process, cluster, PolicyInv, GrantInv, ClusterMatchesRegistry, SpreadInv,
              Deployments, Autoscalers
<1> QED BY <1>1, <1>2, <1>3, <1>4, <1>5, <1>6 DEF Next

LEMMA Invariance == Spec => []IInv
<1>1. Init => IInv
  BY TypeInit, DurableInit DEF IInv
<1>2. IInv /\ [Next]_vars => IInv'
  BY TypeStep, DurableStep DEF IInv
<1> QED BY <1>1, <1>2, PTL DEF Spec

-----------------------------------------------------------------------------
\* Every variable keeps its type: in particular the policy in force is one that
\* could be loaded, and what is in the cluster was rendered from a definition.
THEOREM TypeCorrect == Spec => []TypeOK
<1>1. IInv => TypeOK
  BY DEF IInv, TypeInv
<1> QED BY <1>1, Invariance, PTL

\* At deployment, a definition the policy in force admits is never refused by
\* the check over its rendered manifests, whatever the process was restarted with.
THEOREM ChecksAgree == Spec => []SecondCheckAgrees
<1>1. TypeOK => SecondCheckAgrees
  BY AdmittedRendersAdmitted, DefinitionAssumption DEF TypeOK, SecondCheckAgrees
<1> QED BY <1>1, TypeCorrect, PTL

\* With a durable registry the cluster holds what the registry's definitions
\* render to, through restarts, changes of policy and deploys that land in part.
THEOREM NothingLeftBehind == Spec => [](Durable => ClusterMatchesRegistry)
<1>1. IInv => (Durable => ClusterMatchesRegistry)
  BY DEF IInv, DurableInv
<1> QED BY <1>1, Invariance, PTL

\* With a durable registry no service ever runs more replicas than the bound its
\* last deploy was checked against, whatever the autoscaler does in between.
THEOREM ReplicasCapped == Spec => [](Durable => RunningCapped)
<1>1. ASSUME IInv, Durable, NEW n \in Deployments
      PROVE  replicas[n] <= granted[n].maxAutoscaling
  <2> DEFINE d == services[n]
             g == granted[n]
  <2>1. /\ n \in Names /\ d # None /\ g # None
        /\ AdmitsDefinition(g, d) /\ g.maxReplicas <= g.maxAutoscaling
    BY <1>1 DEF IInv, DurableInv, GrantInv, Deployments
  <2>2. /\ d \in ServiceDefinitions /\ g \in Policies /\ replicas[n] \in Nat
    BY <1>1, <2>1, DefinitionAssumption DEF IInv, TypeInv, TypeOK
  <2>3. /\ d.replicas \in Int /\ d.autoscaling.maxReplicas \in Int
        /\ g.maxReplicas \in Int /\ g.maxAutoscaling \in Int
    BY <2>2 DEF ServiceDefinitions, Autoscaling, Policies
  <2>4. d.replicas <= g.maxReplicas
    BY <2>1, AdmittedBounds
  <2>5. d.autoscaling.enabled => d.autoscaling.maxReplicas <= g.maxAutoscaling
    BY <2>1, AdmittedAutoscaling
  <2>6. \/ replicas[n] = d.replicas
        \/ d.autoscaling.enabled /\ replicas[n] <= d.autoscaling.maxReplicas
    BY <1>1 DEF IInv, DurableInv, SpreadInv
  <2>7. CASE replicas[n] = d.replicas
    BY <2>1, <2>3, <2>4, <2>7
  <2>8. CASE d.autoscaling.enabled /\ replicas[n] <= d.autoscaling.maxReplicas
    BY <2>2, <2>3, <2>5, <2>8
  <2> QED BY <2>6, <2>7, <2>8
<1>2. IInv => (Durable => RunningCapped)
  BY <1>1 DEF RunningCapped
<1> QED BY <1>2, Invariance, PTL

\* With a durable registry, images, replica counts and autoscalers in the cluster
\* all keep to the policy that admitted the service's last deploy.
THEOREM NothingOutOfPolicy == Spec => [](Durable => DeployedWithinPolicy)
<1>1. ASSUME IInv, Durable, NEW n \in Deployments \cup Autoscalers
      PROVE  /\ services[n] \in ServiceDefinitions /\ services[n].image \in Images
             /\ AdmitsDefinition(granted[n], services[n])
  <2>1. n \in Names /\ granted[n] # None /\ services[n] # None
    BY <1>1 DEF IInv, DurableInv, GrantInv, Deployments, Autoscalers
  <2> QED BY <1>1, <2>1, DefinitionAssumption
          DEF IInv, TypeInv, TypeOK, DurableInv, GrantInv, ServiceDefinitions
<1>2. ASSUME IInv, Durable, NEW n \in Deployments
      PROVE  /\ deployed[n].spec.replicas <= granted[n].maxReplicas
             /\ deployed[n].spec.containers[1].image.under \cap granted[n].prefixes # {}
  <2>1. deployed[n] = RenderDeployment(services[n])
    BY <1>2 DEF IInv, DurableInv, ClusterMatchesRegistry
  <2>2. /\ deployed[n].spec.replicas = services[n].replicas
        /\ deployed[n].spec.containers[1].image = services[n].image
    BY <2>1, RenderedReplicas
  <2>3. /\ services[n].replicas <= granted[n].maxReplicas
        /\ AdmitsImage(granted[n], services[n].image) /\ services[n].image \in Images
    BY <1>1, <1>2, AdmittedBounds
  <2> QED BY <2>2, <2>3 DEF AdmitsImage, Trimmed, Images
<1>3. ASSUME IInv, Durable, NEW n \in Autoscalers
      PROVE  /\ autoscaler[n].spec.maxReplicas <= granted[n].maxAutoscaling
             /\ autoscaler[n].spec.metrics \subseteq 1..90
  <2>1. RenderHPA(services[n]) = <<autoscaler[n]>>
    BY <1>3 DEF IInv, DurableInv, ClusterMatchesRegistry
  <2>2. /\ services[n].autoscaling.enabled
        /\ autoscaler[n].spec.maxReplicas = services[n].autoscaling.maxReplicas
        /\ autoscaler[n].spec.metrics = {services[n].autoscaling.targetCPU}
    BY <1>1, <1>3, <2>1, RenderedHPA
  <2>3. /\ services[n].autoscaling.maxReplicas <= granted[n].maxAutoscaling
        /\ services[n].autoscaling.targetCPU \in MinCPU..MaxCPU
    BY <1>1, <1>3, <2>2, AdmittedAutoscaling
  <2> QED BY <2>2, <2>3 DEF MinCPU, MaxCPU
<1>4. IInv => (Durable => DeployedWithinPolicy)
  BY <1>2, <1>3 DEF DeployedWithinPolicy
<1> QED BY <1>4, Invariance, PTL

-----------------------------------------------------------------------------
(* What holds with a registry in memory, too.  A restart may change the    *)
(* policy and lose the definitions, so what is in the cluster need not     *)
(* keep to the policy that admitted the last deploy; but each object was   *)
(* admitted, whole, by a policy the process once ran with.                 *)

LoadedPolicies == {PolicyOf(s) : s \in {e \in Environments : Loads(e)}}

\* d is a definition of name n that p admits.
AdmittedAs(n, p, d) == d.name = n /\ AdmitsDefinition(p, d)

OriginInv ==
  /\ \A n \in Deployments : \E p \in LoadedPolicies, d \in Definitions :
       AdmittedAs(n, p, d) /\ deployed[n] = RenderDeployment(d)
  /\ \A n \in Autoscalers : \E p \in LoadedPolicies, d \in Definitions :
       AdmittedAs(n, p, d) /\ RenderHPA(d) = <<autoscaler[n]>>

CapInv == \A n \in Deployments : \E p \in LoadedPolicies : replicas[n] <= p.maxAutoscaling

\* Definitions are kept under their names, and a policy is in force once it loaded.
SourceInv == /\ policy # None => policy \in LoadedPolicies
             /\ \A n \in Names : services[n] # None => services[n].name = n

AdmittedInv == SourceInv /\ OriginInv /\ CapInv

LEMMA LoadedBounds ==
  ASSUME NEW p \in LoadedPolicies
  PROVE  p \in Policies /\ p.maxReplicas <= p.maxAutoscaling
BY LoadedPolicy DEF LoadedPolicies

LEMMA AdmittedInit == Init => AdmittedInv
BY DEF Init, Nothing, AdmittedInv, SourceInv, OriginInv, CapInv, Deployments, Autoscalers

\* A step that leaves the cluster alone only has to keep its sources.
LEMMA ClusterSame ==
  ASSUME AdmittedInv, UNCHANGED cluster, SourceInv'
  PROVE  AdmittedInv'
BY DEF AdmittedInv, cluster, OriginInv, CapInv, Deployments, Autoscalers

LEMMA AdmittedStep ==
  ASSUME TypeInv, AdmittedInv, [Next]_vars
  PROVE  AdmittedInv'
<1> USE DEF AdmittedInv
<1>1. ASSUME NEW s \in Environments, Start(s) PROVE AdmittedInv'
  <2>1. policy' \in LoadedPolicies
    BY <1>1 DEF Start, LoadedPolicies
  <2>2. services' = services \/ services' = Nothing
    BY <1>1 DEF Start
  <2>3. SourceInv'
    BY <2>1, <2>2 DEF SourceInv, Nothing
  <2> QED BY <1>1, <2>3, ClusterSame DEF Start
<1>2. CASE Stop
  BY <1>2, ClusterSame DEF Stop, SourceInv
<1>3. ASSUME NEW d \in Definitions, Register(d) PROVE AdmittedInv'
  <2>1. \A n \in Names : services'[n] # None => services'[n].name = n
    BY <1>3 DEF Register, SourceInv, TypeInv, TypeOK
  <2> QED BY <1>3, <2>1, ClusterSame DEF Register, SourceInv
<1>4. ASSUME NEW n \in Names, NEW landed, Deploy(n, landed) PROVE AdmittedInv'
  <2> DEFINE d == services[n]
  <2>1. /\ policy # None /\ d # None /\ d \in Definitions /\ AdmitsDefinition(policy, d)
        /\ d.replicas \in Nat /\ d.replicas <= policy.maxReplicas
    BY <1>4, DeployTakes DEF TypeInv
  <2>2. policy \in LoadedPolicies /\ AdmittedAs(n, policy, d)
    BY <2>1 DEF SourceInv, AdmittedAs
  <2>3. d.replicas <= policy.maxAutoscaling
    BY <2>1, <2>2, LoadedBounds DEF Policies
  <2>4. /\ UNCHANGED process
        /\ \/ UNCHANGED <<deployed, replicas>>
           \/ /\ deployed' = [deployed EXCEPT ![n] = RenderDeployment(d)]
              /\ replicas' = [replicas EXCEPT ![n] = d.replicas]
        /\ \/ UNCHANGED autoscaler
           \/ /\ RenderHPA(d) = <<RenderHPA(d)[1]>>
              /\ autoscaler' = [autoscaler EXCEPT ![n] = RenderHPA(d)[1]]
    BY <1>4, DeployEffect DEF TypeInv
  <2>5. SourceInv'
    BY <2>4 DEF process, SourceInv
  <2>6. ASSUME NEW m \in Deployments'
        PROVE  /\ \E p \in LoadedPolicies, e \in Definitions :
                    AdmittedAs(m, p, e) /\ deployed'[m] = RenderDeployment(e)
               /\ \E p \in LoadedPolicies : replicas'[m] <= p.maxAutoscaling
    <3>1. CASE deployed'[m] = deployed[m] /\ replicas'[m] = replicas[m]
      BY <2>6, <3>1 DEF OriginInv, CapInv, Deployments
    <3>2. CASE m = n /\ deployed'[m] = RenderDeployment(d) /\ replicas'[m] = d.replicas
      BY <2>1, <2>2, <2>3, <3>2
    <3> QED BY <2>4, <2>6, <3>1, <3>2 DEF Deployments, TypeInv, TypeOK
  <2>7. ASSUME NEW m \in Autoscalers'
        PROVE  \E p \in LoadedPolicies, e \in Definitions :
                 AdmittedAs(m, p, e) /\ RenderHPA(e) = <<autoscaler'[m]>>
    <3>1. CASE autoscaler'[m] = autoscaler[m]
      BY <2>7, <3>1 DEF OriginInv, Autoscalers
    <3>2. CASE m = n /\ RenderHPA(d) = <<autoscaler'[m]>>
      BY <2>1, <2>2, <3>2
    <3> QED BY <2>4, <2>7, <3>1, <3>2 DEF Autoscalers, TypeInv, TypeOK
  <2> QED BY <2>5, <2>6, <2>7 DEF OriginInv, CapInv
<1>5. ASSUME NEW n \in Names, Scale(n) PROVE AdmittedInv'
  <2>1. n \in Autoscalers /\ UNCHANGED <<policy, services, deployed, autoscaler>>
    BY <1>5 DEF Scale, Autoscalers, process
  <2>2. PICK r \in autoscaler[n].spec.minReplicas..autoscaler[n].spec.maxReplicas :
          replicas' = [replicas EXCEPT ![n] = r]
    BY <1>5 DEF Scale
  <2>3. PICK p \in LoadedPolicies, d \in Definitions :
          AdmittedAs(n, p, d) /\ RenderHPA(d) = <<autoscaler[n]>>
    BY <2>1 DEF OriginInv
  <2>4. /\ d.autoscaling.enabled
        /\ autoscaler[n].spec.maxReplicas = d.autoscaling.maxReplicas
    BY <2>3, DefinitionAssumption, RenderedHPA
  <2>5. d.autoscaling.maxReplicas <= p.maxAutoscaling /\ d.autoscaling.maxReplicas \in Int
    BY <2>3, <2>4, DefinitionAssumption, AdmittedAutoscaling
       DEF AdmittedAs, ServiceDefinitions, Autoscaling
  <2>6. r <= p.maxAutoscaling
    BY <2>1, <2>2, <2>4, <2>5, LoadedBounds, AutoscalerBounds DEF TypeInv, Policies
  <2>7. CapInv'
    BY <2>1, <2>2, <2>6 DEF CapInv, Deployments, TypeInv, TypeOK
  <2> QED BY <2>1, <2>7 DEF SourceInv, OriginInv, Deployments, Autoscalers
<1>6. CASE UNCHANGED vars
  BY <1>6, ClusterSame DEF vars, process, SourceInv
<1> QED BY <1>1, <1>2, <1>3, <1>4, <1>5, <1>6 DEF Next

\* With a registry in memory, too, whatever restarts and partial deploys there were:
\* every Deployment and every autoscaler in the cluster is what one admitted definition
\* renders to, and no service runs more replicas than the largest autoscaling bound the
\* process was ever started with.  (server.go:85-90, 160-181, deployment_policy.go:61-93)
THEOREM NothingUnadmitted == Spec => [](OriginInv /\ CapInv)
<1>1. Init => TypeInv /\ AdmittedInv
  BY TypeInit, AdmittedInit
<1>2. TypeInv /\ AdmittedInv /\ [Next]_vars => (TypeInv /\ AdmittedInv)'
  BY TypeStep, AdmittedStep
<1>3. AdmittedInv => OriginInv /\ CapInv
  BY DEF AdmittedInv
<1> QED BY <1>1, <1>2, <1>3, PTL DEF Spec

-----------------------------------------------------------------------------
(* The order of keys.  Ranks number the keys of a map; listing them by     *)
(* rank loses none and repeats none, so sorting what was collected in any  *)
(* order gives one list.                                                   *)

\* rank tells the keys D apart.
Ranks(rank, D) == /\ \A k \in D : rank[k] \in Nat
                  /\ \A k, l \in D : rank[k] = rank[l] => k = l

\* The keys up to one of a lower rank are fewer.
LEMMA BelowGrows ==
  ASSUME NEW D, IsFiniteSet(D), NEW rank, Ranks(rank, D), NEW k \in D
  PROVE  /\ Cardinality(Below(D, rank, k)) \in 1..Cardinality(D)
         /\ \A l \in D : rank[k] < rank[l]
              => Cardinality(Below(D, rank, k)) < Cardinality(Below(D, rank, l))
<1>1. ASSUME NEW l \in D
      PROVE  IsFiniteSet(Below(D, rank, l)) /\ Cardinality(Below(D, rank, l)) \in Nat
  <2>1. Below(D, rank, l) \in SUBSET D
    BY DEF Below
  <2> QED BY <2>1, FS_Subset, FS_CardinalityType
<1>2. Cardinality(Below(D, rank, k)) \in 1..Cardinality(D)
  <2>1. Below(D, rank, k) \in SUBSET D /\ k \in Below(D, rank, k)
    BY DEF Below, Ranks
  <2>2. Cardinality(Below(D, rank, k)) <= Cardinality(D) /\ Cardinality(D) \in Nat
    BY <2>1, FS_Subset, FS_CardinalityType
  <2>3. Cardinality(Below(D, rank, k)) # 0
    BY <1>1, <2>1, FS_EmptySet
  <2> QED BY <1>1, <2>2, <2>3
<1>3. ASSUME NEW l \in D, rank[k] < rank[l]
      PROVE  Cardinality(Below(D, rank, k)) < Cardinality(Below(D, rank, l))
  <2>1. Below(D, rank, k) \in SUBSET Below(D, rank, l)
    BY <1>3 DEF Below, Ranks
  <2>2. l \in Below(D, rank, l) /\ l \notin Below(D, rank, k)
    BY <1>3 DEF Below, Ranks
  <2>3. /\ Cardinality(Below(D, rank, k)) <= Cardinality(Below(D, rank, l))
        /\ Cardinality(Below(D, rank, k)) # Cardinality(Below(D, rank, l))
    BY <1>1, <2>1, <2>2, FS_Subset
  <2> QED BY <1>1, <2>3
<1> QED BY <1>2, <1>3

\* Every key has its place, and every place its key.
LEMMA EveryPlaceTaken ==
  ASSUME NEW D, IsFiniteSet(D), NEW rank, Ranks(rank, D)
  PROVE  /\ Cardinality(D) \in Nat
         /\ \A i \in 1..Cardinality(D) : \E k \in D : Cardinality(Below(D, rank, k)) = i
         /\ \A k, l \in D : Cardinality(Below(D, rank, k)) = Cardinality(Below(D, rank, l)) => k = l
<1> DEFINE n == Cardinality(D)
           place == [k \in D |-> Cardinality(Below(D, rank, k))]
<1>1. n \in Nat /\ IsFiniteSet(1..n) /\ Cardinality(1..n) = n
  <2>1. n \in Nat
    BY FS_CardinalityType
  <2>2. IsFiniteSet(1..n) /\ Cardinality(1..n) = IF 1 > n THEN 0 ELSE n - 1 + 1
    BY <2>1, FS_Interval
  <2> QED BY <2>1, <2>2
<1>2. place \in [D -> 1..n]
  BY BelowGrows
<1>3. ASSUME NEW k \in D, NEW l \in D, place[k] = place[l] PROVE k = l
  <2>1. place[k] \in Nat
    BY <1>2
  <2>2. ~(rank[k] < rank[l]) /\ ~(rank[l] < rank[k])
    BY <1>3, <2>1, BelowGrows
  <2> QED BY <2>2 DEF Ranks
<1>4. place \in Injection(D, 1..n)
  BY <1>2, <1>3, Fun_IsInj
<1>5. place \in Surjection(D, 1..n)
  BY <1>1, <1>4, FS_Injection
<1>6. ASSUME NEW i \in 1..n PROVE \E k \in D : place[k] = i
  <2> HIDE DEF place, n
  <2> QED BY <1>5 DEF Surjection
<1> QED BY <1>1, <1>3, <1>6

\* Listing keys by rank gives each of them once, in ascending order.
THEOREM ListingIsSorted ==
  ASSUME NEW D, IsFiniteSet(D), NEW rank, Ranks(rank, D)
  PROVE  LET list == Listing(D, rank)
         IN /\ DOMAIN list = 1..Cardinality(D)
            /\ {list[i] : i \in DOMAIN list} = D
            /\ \A i, j \in DOMAIN list : i < j => rank[list[i]] < rank[list[j]]
<1> DEFINE n == Cardinality(D)
           list == Listing(D, rank)
<1>1. DOMAIN list = 1..n
  BY DEF Listing
<1>2. ASSUME NEW i \in 1..n
      PROVE  list[i] \in D /\ Cardinality(Below(D, rank, list[i])) = i
  <2>1. \E k \in D : Cardinality(Below(D, rank, k)) = i
    BY EveryPlaceTaken
  <2>2. list[i] = CHOOSE k \in D : Cardinality(Below(D, rank, k)) = i
    BY DEF Listing
  <2> QED BY <2>1, <2>2
<1>3. ASSUME NEW k \in D PROVE \E i \in 1..n : list[i] = k
  <2>1. Cardinality(Below(D, rank, k)) \in 1..n
    BY BelowGrows
  <2> QED BY <1>2, <2>1, EveryPlaceTaken
<1>4. ASSUME NEW i \in 1..n, NEW j \in 1..n, i < j
      PROVE  rank[list[i]] < rank[list[j]]
  <2>1. rank[list[i]] \in Nat /\ rank[list[j]] \in Nat
    BY <1>2 DEF Ranks
  <2>2. ~(rank[list[j]] < rank[list[i]])
    BY <1>2, <1>4, BelowGrows
  <2>3. rank[list[i]] # rank[list[j]]
    BY <1>2, <1>4 DEF Ranks
  <2> QED BY <2>1, <2>2, <2>3
<1> HIDE DEF list
<1> QED BY <1>1, <1>2, <1>3, <1>4 DEF list

\* In whatever order the keys of a map were visited, and however that order changes
\* from map to map, the renderer goes through the same list of them.  (yaml.go:31-36)
THEOREM KeysIgnoreVisits ==
  ASSUME NEW visit \in Visits, NEW D \in SUBSET DOMAIN KeyRank
  PROVE  Keys(D, visit) = Listing(D, KeyRank)
<1>1. IsFiniteSet(D)
  BY KeyRankAssumption, FS_Subset
<1>2. Ranks(visit, D)
  BY VisitAssumption DEF Ranks
<1> DEFINE collected == Listing(D, visit)
<1>3. {collected[i] : i \in DOMAIN collected} = D
  BY <1>1, <1>2, ListingIsSorted
<1> QED BY <1>3 DEF Keys

\* A renderer that takes keys from a sorted listing only makes one text of a bundle,
\* whatever order Go visits the keys in: the comparison of two renderings never
\* refuses a bundle for that.  (yaml.go:12-36, deployment_policy.go:168-187)
THEOREM OneTextPerBundle == Spec => []RenderedTwiceAlike
<1>1. ASSUME NEW visit1 \in Visits, NEW visit2 \in Visits
      PROVE  SortedKeys(visit1) = SortedKeys(visit2)
  BY KeysIgnoreVisits DEF SortedKeys
<1>2. \A d \in Definitions : OneText[d]
  BY <1>1 DEF OneText
<1>3. TypeOK => RenderedTwiceAlike
  <2> SUFFICES ASSUME TypeOK, NEW n \in InForce PROVE OneText[services[n]]
    BY DEF RenderedTwiceAlike
  <2>1. n \in Names /\ services[n] # None
    BY DEF InForce
  <2>2. services[n] \in Definitions
    BY <2>1 DEF TypeOK
  <2> QED BY <1>2, <2>2
<1> QED BY <1>3, TypeCorrect, PTL

=============================================================================
