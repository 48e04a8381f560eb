----------------------------- MODULE BundleYAML -----------------------------
(***************************************************************************)
(* The manifests of a bundle as the trees manifests.go builds, with one    *)
(* probe for the three, which have one shape, and without the constant     *)
(* scalars that stand next to others like them.  Keys of labels lack their *)
(* common prefix.  And whether rendering them twice gives one text: the    *)
(* renderer itself is a parameter, as nothing of it but the order of the   *)
(* keys may vary.  Yaml has it.                                            *)
(***************************************************************************)
EXTENDS PolicedCluster, YamlText, TLC

CONSTANTS DashedNames,   \* service names with a dash
          ForeignNames,  \* service names YAML reads as another type: true, on, null, 123
          Visits,        \* the orders in which Go may visit the keys of maps, as ranks
          RenderDocuments(_, _)  \* renderYAMLDocuments() of manifests, with the keys of
                                 \* each map taken from a table of sorted ones

SpecialNames == DashedNames \cup PaddedNames \cup {ConfigMapName, Namespace}

ASSUME TextAssumption == /\ DashedNames \subseteq Names /\ FastAPI \in DashedNames
                         /\ ForeignNames \subseteq Names \ SpecialNames
                         /\ \A d \in Definitions : LocalPrefix \in d.image.under => d.image.marked
ASSUME VisitAssumption ==
  \A visit \in Visits :
    /\ visit \in [DOMAIN KeyRank -> Nat]
    /\ \A k, l \in DOMAIN KeyRank : visit[k] = visit[l] => k = l

\* The keys of the manifests, as slices.Sort has them.
FieldNames ==
  <<"OTLP_ENDPOINT", "SERVICE_NAME", "apiVersion", "averageUtilization", "component",
    "configMapRef", "containerPort", "containers", "cpu", "data", "envFrom", "environment",
    "httpGet", "image", "kind", "labels", "limits", "matchLabels", "maxReplicas", "memory",
    "metadata", "metrics", "minReplicas", "name", "namespace", "partOf", "path", "periodSeconds",
    "port", "ports", "readinessProbe", "replicas", "requests", "resource", "resources",
    "scaleTargetRef", "selector", "spec", "target", "targetPort", "template", "type">>

\* Text of the source, names and images.
Word(t) == Text(t, IF t \in {Project, "inference-simulator", "http://tempo:4318"}
                     THEN "special" ELSE "plain")
NameText(n) == Text(n, CASE n \in SpecialNames -> "special"
                         [] n \in ForeignNames -> "foreign"
                         [] OTHER -> "plain")
ImageText(i) == Text(i, CASE i.marked \/ i.padding = "space" -> "special"
                          [] ~i.marked /\ i.padding = "break" -> "edged"
                          [] OTHER -> "plain")

ServiceLabels(n) == MapOf([name |-> NameText(n), component |-> Word("inference-simulator"),
                           partOf |-> Word(Project)])
Resource(apiVersion, m, rest) ==
  MapOf([apiVersion |-> Word(apiVersion), kind |-> Word(m.kind),
         metadata |-> MapOf([name |-> NameText(m.name), namespace |-> NameText(m.namespace),
                             labels |-> ServiceLabels(m.labels.name)])] @@ rest)

NamespaceTree(m) ==
  MapOf([apiVersion |-> Word("v1"), kind |-> Word(m.kind),
         metadata |-> MapOf([name |-> NameText(m.name),
                             labels |-> MapOf([name |-> Word(Project), partOf |-> Word(Project),
                                               environment |-> Word("dev")])])])

ConfigMapTree(m) ==
  Resource("v1", m, [data |-> MapOf([OTLP_ENDPOINT |-> Word("http://tempo:4318"),
                                     SERVICE_NAME |-> NameText(m.labels.name)])])

Quantities(q) == MapOf([cpu |-> Word(q.cpu), memory |-> Word(q.memory)])

ContainerTree(c, port, configMaps) ==
  MapOf([name |-> NameText(c.name), image |-> ImageText(c.image),
         ports |-> ListOf(<<MapOf([name |-> Word("http"), containerPort |-> Number(port)])>>),
         readinessProbe |-> MapOf([httpGet |-> MapOf([path |-> Word("/ready"), port |-> Word("http")]),
                                   periodSeconds |-> Number(5)]),
         resources |-> MapOf([requests |-> Quantities(c.requests), limits |-> Quantities(c.limits)])]
        @@ IF configMaps = <<>> THEN <<>>
           ELSE [envFrom |-> ListOf(<<MapOf([configMapRef |->
                                       MapOf([name |-> NameText(configMaps[1].name)])])>>)])

DeploymentTree(b) ==
  LET m == b.deployment
  IN Resource("apps/v1", m,
       [spec |-> MapOf(
          [replicas |-> Number(m.spec.replicas),
           selector |-> MapOf([matchLabels |-> MapOf([name |-> NameText(m.name)])]),
           template |-> MapOf(
             [metadata |-> MapOf([labels |-> ServiceLabels(m.spec.templateLabels.name)]),
              spec |-> MapOf([containers |->
                ListOf(<<ContainerTree(m.spec.containers[1], b.service.spec.port, b.configMap)>>)])])])])

ServiceTree(m) ==
  Resource("v1", m,
    [spec |-> MapOf([selector |-> MapOf([name |-> NameText(m.name)]),
                     ports |-> ListOf(<<MapOf([name |-> Word("http"), port |-> Number(m.spec.port),
                                               targetPort |-> Word("http")])>>),
                     type |-> Word(m.spec.type)])])

HPATree(m) ==
  Resource("autoscaling/v2", m,
    [spec |-> MapOf(
       [scaleTargetRef |-> MapOf([apiVersion |-> Word("apps/v1"), kind |-> Word("Deployment"),
                                  name |-> NameText(m.name)]),
        minReplicas |-> Number(m.spec.minReplicas), maxReplicas |-> Number(m.spec.maxReplicas),
        metrics |-> ListOf(<<MapOf(
          [type |-> Word("Resource"),
           resource |-> MapOf(
             [name |-> Word("cpu"),
              target |-> MapOf([type |-> Word("Utilization"), averageUtilization |->
                                Number(CHOOSE u \in m.spec.metrics : TRUE)])])])>>)])])

\* The documents of bundle.YAML
Manifests(b) == [i \in DOMAIN b.configMap |-> ConfigMapTree(b.configMap[i])]
                \o <<DeploymentTree(b), ServiceTree(b.service)>>
                \o [i \in DOMAIN b.hpa |-> HPATree(b.hpa[i])]

-----------------------------------------------------------------------------
\* Of each definition, whether its bundle has one text: a table, as nothing else
\* matters to it.
OneText == [d \in Definitions |->
  LET manifests == Manifests(RenderBundle(d))
  IN \A visit1, visit2 \in Visits :
       RenderDocuments(manifests, SortedKeys(visit1)) = RenderDocuments(manifests, SortedKeys(visit2))]

InForce == {n \in Names : policy # None /\ services[n] # None /\ Deployable(services[n])}

\* Rendering a bundle twice gives one text, in whatever order Go visits the keys
\* of its maps.  The second check compares two such texts
\* (deployment_policy.go:178-186): one that differed would refuse a good bundle,
\* and only now and then.  (yaml.go:31-36)
RenderedTwiceAlike == \A n \in InForce : OneText[services[n]]
=============================================================================
