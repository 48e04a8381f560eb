------------------------------- MODULE Policy -------------------------------
(***************************************************************************)
(* The deployment policy and the renderer, as operators: what the process  *)
(* loads from its environment, which definitions it admits, what bundle it *)
(* renders from one, and which bundles it admits.  The two checks are      *)
(* written apart in the code, one over typed definitions, one over         *)
(* untyped manifests; PolicedClusterProofs shows how far they agree.       *)
(*                                                                         *)
(* Text is abstract.  A name is safe (serviceNamePattern), padded: safe    *)
(* once the blanks around it are cut off, or neither; an image has white   *)
(* space around it or not, a form, and the prefixes it starts with;        *)
(* a number setting that does not parse is a 0, which fails the same test. *)
(* Unset is the empty string of a field nobody filled in.  A nil manifest  *)
(* is the empty sequence.                                                  *)
(***************************************************************************)
EXTENDS Integers, Sequences

CONSTANTS
  Names, SafeNames,  \* service names, and those serviceNamePattern matches
  PaddedNames,       \* those it would match without the blanks around them
  FastAPI,           \* "fastapi-service", the one name with a ConfigMap
  ConfigMapName,     \* "fastapi-service-config"
  Namespace,         \* the target namespace: trimmed, and defaulted when blank
  Prefixes,          \* the image prefixes an operator may list
  LocalPrefix,       \* "service-launchpad/", the default one
  Unset

ASSUME NameAssumption == /\ SafeNames \subseteq Names /\ FastAPI \in SafeNames
                         /\ PaddedNames \subseteq Names \ SafeNames
ASSUME PrefixAssumption == LocalPrefix \in Prefixes
ASSUME UnsetAssumption == Unset \notin Names \cup {ConfigMapName, Namespace}

\* Around an image there is nothing, white space with a space in it, or only tabs and
\* line breaks.  It is marked if it has a tag's colon, a dash or another character
\* that means something in YAML.
Paddings == {"none", "space", "break"}
Images == [padding : Paddings, marked : BOOLEAN, form : {"blank", "bad", "good"},
           under : SUBSET Prefixes]
Autoscaling == [enabled : BOOLEAN, minReplicas : Int, maxReplicas : Int, targetCPU : Int]
ServiceDefinitions == [name : Names, image : Images, port : Int, replicas : Int,
                       autoscaling : Autoscaling]

-----------------------------------------------------------------------------
(* The policy in force.  Settings with no prefix at all are a list of      *)
(* separators: set, and empty once split.                                  *)

DefaultMaxReplicas == 10
DefaultMaxAutoscaling == 10
MinCPU == 1
MaxCPU == 90

Settings == [prefixes : {Unset} \cup SUBSET Prefixes,
             maxReplicas : {Unset} \cup Int, maxAutoscaling : {Unset} \cup Int]

Or(setting, default) == IF setting = Unset THEN default ELSE setting

PolicyOf(s) == [prefixes |-> Or(s.prefixes, {LocalPrefix}),
                maxReplicas |-> Or(s.maxReplicas, DefaultMaxReplicas),
                maxAutoscaling |-> Or(s.maxAutoscaling, DefaultMaxAutoscaling)]

\* Faulty: a bound of 0, which also stands for text that is no number, is taken.
LoadsAnyNumber(s) == /\ PolicyOf(s).prefixes # {}
                     /\ PolicyOf(s).maxReplicas <= PolicyOf(s).maxAutoscaling
\* Faulty: the two bounds are never compared.
LoadsUnordered(s) == /\ PolicyOf(s).prefixes # {}
                     /\ PolicyOf(s).maxReplicas >= 1 /\ PolicyOf(s).maxAutoscaling >= 1
Loads(s) == /\ PolicyOf(s).prefixes # {}
            /\ PolicyOf(s).maxReplicas >= 1 /\ PolicyOf(s).maxAutoscaling >= 1
            /\ PolicyOf(s).maxReplicas <= PolicyOf(s).maxAutoscaling

Policies == [prefixes : SUBSET Prefixes, maxReplicas : Nat \ {0}, maxAutoscaling : Nat \ {0}]

-----------------------------------------------------------------------------
(* Admission of a definition.  The basic rules come first; the policy's    *)
(* own ones bound replicas, image and autoscaling.                         *)

MaxPort == 65535
Trimmed(i) == [i EXCEPT !.padding = "none"]

AdmitsImage(p, i) == /\ Trimmed(i).padding = "none" /\ Trimmed(i).form = "good"
                     /\ p.prefixes \cap Trimmed(i).under # {}

WellFormed(d) ==
  /\ d.name \in SafeNames
  /\ d.image.form # "blank"
  /\ d.port \in 1..MaxPort
  /\ d.replicas >= 1
  /\ d.autoscaling.enabled => /\ d.autoscaling.minReplicas >= 1
                              /\ d.autoscaling.maxReplicas >= d.autoscaling.minReplicas
                              /\ d.autoscaling.targetCPU \in 1..100

AdmitsDefinition(p, d) ==
  /\ WellFormed(d)
  /\ d.replicas <= p.maxReplicas
  /\ AdmitsImage(p, d.image)
  /\ d.autoscaling.enabled => /\ d.autoscaling.maxReplicas <= p.maxAutoscaling
                              /\ d.autoscaling.targetCPU \in MinCPU..MaxCPU

-----------------------------------------------------------------------------
(* Rendering.  A manifest keeps the parts the policy reads.  privileges    *)
(* holds the host access, service account, hostPath volumes and container  *)
(* capabilities a Deployment asks for: the renderer asks for none.         *)

Project == "service-launchpad"
Labels(n) == [name |-> n, partOf |-> Project, managedBy |-> Unset]
Manifest(kind, n, ns, label, spec) ==
  [kind |-> kind, name |-> n, namespace |-> ns, labels |-> Labels(label),
   annotations |-> {}, spec |-> spec]

Requests == [cpu |-> "100m", memory |-> "128Mi"]
Limits == [cpu |-> "1000m", memory |-> "256Mi"]
Probes == {"startupProbe", "readinessProbe", "livenessProbe"}

RenderNamespace == Manifest("Namespace", Namespace, Unset, Project, <<>>)
RenderConfigMap(d) ==
  IF d.name = FastAPI THEN <<Manifest("ConfigMap", ConfigMapName, Namespace, d.name, <<>>)>>
                      ELSE <<>>
RenderDeployment(d) ==
  Manifest("Deployment", d.name, Namespace, d.name,
    [replicas |-> d.replicas, templateLabels |-> Labels(d.name), privileges |-> {},
     containers |-> <<[name |-> d.name, image |-> d.image, probes |-> Probes,
                       requests |-> Requests, limits |-> Limits]>>])
RenderService(d) ==
  Manifest("Service", d.name, Namespace, d.name, [type |-> "ClusterIP", port |-> d.port])

\* Faulty: the floor of the autoscaler is the definition's replica count.
RenderHPAFromReplicas(d) ==
  IF d.autoscaling.enabled
  THEN <<Manifest("HorizontalPodAutoscaler", d.name, Namespace, d.name,
           [minReplicas |-> d.replicas, maxReplicas |-> d.autoscaling.maxReplicas,
            metrics |-> {d.autoscaling.targetCPU}])>>
  ELSE <<>>
RenderHPA(d) ==
  IF d.autoscaling.enabled
  THEN <<Manifest("HorizontalPodAutoscaler", d.name, Namespace, d.name,
           [minReplicas |-> d.autoscaling.minReplicas,
            maxReplicas |-> d.autoscaling.maxReplicas,
            metrics |-> {d.autoscaling.targetCPU}])>>
  ELSE <<>>

RenderBundle(d) ==
  [namespace |-> Namespace, namespaceManifest |-> RenderNamespace,
   configMap |-> RenderConfigMap(d), deployment |-> RenderDeployment(d),
   service |-> RenderService(d), hpa |-> RenderHPA(d),
   yaml |-> RenderConfigMap(d) \o <<RenderDeployment(d), RenderService(d)>> \o RenderHPA(d)]

-----------------------------------------------------------------------------
(* Admission of a bundle.                                                  *)

ProjectLabels(m, labels, expected) ==
  /\ labels.partOf = Project
  /\ expected # Unset => labels.name = expected
  /\ labels.managedBy \in {Unset, Project}
  /\ m.annotations = {}    \* the renderer writes none, with or without the prefix

AdmitsNamespace(b) == /\ b.namespaceManifest.kind = "Namespace"
                      /\ b.namespaceManifest.name = b.namespace
                      /\ b.namespaceManifest.namespace = Unset
                      /\ ProjectLabels(b.namespaceManifest, b.namespaceManifest.labels, Project)

Namespaced(b, m, kind) ==
  /\ m.kind = kind
  /\ m.namespace = b.namespace
  /\ m.name # Unset
  /\ ProjectLabels(m, m.labels, IF kind = "ConfigMap" THEN Unset ELSE m.name)

\* metadataString() cuts the blanks off what it reads.
AdmitsContainer(p, c) == /\ c.name \in SafeNames \cup PaddedNames
                         /\ AdmitsImage(p, Trimmed(c.image))
                         /\ Probes \subseteq c.probes
                         /\ c.requests = Requests /\ c.limits = Limits

AdmitsDeployment(p, b) ==
  LET m == b.deployment
  IN /\ Namespaced(b, m, "Deployment")
     /\ m.spec.replicas \in 1..p.maxReplicas
     /\ ProjectLabels(m, m.spec.templateLabels, Unset)
     /\ m.spec.privileges = {}
     /\ Len(m.spec.containers) = 1 /\ AdmitsContainer(p, m.spec.containers[1])

AdmitsService(b) == Namespaced(b, b.service, "Service") /\ b.service.spec.type = "ClusterIP"

AdmitsHPA(p, b, m) ==
  /\ Namespaced(b, m, "HorizontalPodAutoscaler")
  /\ m.spec.minReplicas >= 1
  /\ m.spec.maxReplicas \in m.spec.minReplicas..p.maxAutoscaling
  /\ m.spec.metrics # {}

AdmitsBundle(p, b) ==
  /\ b.namespace # Unset
  /\ AdmitsNamespace(b)
  /\ \A i \in DOMAIN b.configMap : Namespaced(b, b.configMap[i], "ConfigMap")
  /\ AdmitsDeployment(p, b)
  /\ AdmitsService(b)
  /\ \A i \in DOMAIN b.hpa : AdmitsHPA(p, b, b.hpa[i])
  /\ b.yaml = b.configMap \o <<b.deployment, b.service>> \o b.hpa
=============================================================================
