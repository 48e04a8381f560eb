---------------------------- MODULE FallbackYAML ----------------------------
(***************************************************************************)
(* The same bundle through the two deployers: the client-go one patches    *)
(* the objects the renderer made, the kubectl one pipes their YAML to      *)
(* kubectl, which reads objects from it.                                   *)
(***************************************************************************)
EXTENDS BundleYAML, Yaml

\* Apply() of either deployer: the objects it has the API server patch.
ClientGoObjects(b) == <<NamespaceTree(b.namespaceManifest)>> \o Manifests(b)
KubectlObjects(b, keysOf) ==
  ReadDocuments(RenderYAMLDocuments(<<NamespaceTree(b.namespaceManifest)>>, keysOf))
  \o ReadDocuments(RenderYAMLDocuments(Manifests(b), keysOf))

\* Of each definition, whether the two send the same.
SameObjects == [d \in Definitions |->
  LET bundle == RenderBundle(d)
  IN \A visit \in Visits : KubectlObjects(bundle, SortedKeys(visit)) = ClientGoObjects(bundle)]

\* "fallback deployer YAML must match the structured resource intent used by the
\* client-go path" (control-plane README.md:88): kubectl reads from the text the
\* objects the other deployer sends, with nesting, lists of maps and types as
\* they were.  (yaml.go:12-109, deploy.go:40-51, clientgo_deployer.go:109-128)
FallbackParity == \A n \in InForce : SameObjects[services[n]]

=============================================================================
