-------------------------- MODULE MCPolicedCluster --------------------------
(* Definitions and settings on both sides of every bound of the policy.    *)
EXTENDS FallbackYAML

CONSTANTS svc, unsafe, fastapi, local, team, dev, cm

NoAutoscaling == [enabled |-> FALSE, minReplicas |-> 0, maxReplicas |-> 0, targetCPU |-> 0]
Image(padding, marked, under) ==
  [padding |-> padding, marked |-> marked, form |-> "good", under |-> under]
Local == Image("none", TRUE, {LocalPrefix})

Base(n) == [name |-> n, image |-> Local, port |-> 8000, replicas |-> 1,
            autoscaling |-> NoAutoscaling]

\* The local prefix has a dash: only an image of the team's can be written bare
MCImages == {Image(p, TRUE, {LocalPrefix}) : p \in Paddings}
            \cup {Image(p, FALSE, {team}) : p \in Paddings}
            \cup {Image("none", TRUE, {LocalPrefix, team}), Image("none", FALSE, {})}
            \cup {[Local EXCEPT !.form = f] : f \in {"blank", "bad"}}

MCAutoscaling == [enabled : {TRUE}, minReplicas : {0, 10}, maxReplicas : {9, 10, 11},
                  targetCPU : {0, 1, 90, 91}]

\* One service has every combination of replicas and autoscaling; images and
\* ports are tried one at a time; the other names have one definition each, and
\* only the widest policy admits the one whose name YAML reads as another type
MCDefinitions ==
  {[Base(svc) EXCEPT !.replicas = r, !.autoscaling = a] :
     r \in {0, 1, 10, 11}, a \in MCAutoscaling \cup {NoAutoscaling}}
  \cup {[Base(svc) EXCEPT !.image = i] : i \in MCImages}
  \cup {[Base(svc) EXCEPT !.port = p] : p \in {0, 1, 65535, 65536}}
  \cup {Base(n) : n \in Names \ ({svc} \cup ForeignNames)}
  \cup {[Base(n) EXCEPT !.replicas = 11] : n \in ForeignNames}

MCKeyRank == [k \in {FieldNames[i] : i \in DOMAIN FieldNames} |->
                CHOOSE i \in DOMAIN FieldNames : FieldNames[i] = k]

\* Two orders that agree on no pair of keys
MCVisits == {MCKeyRank, [k \in DOMAIN MCKeyRank |-> Len(FieldNames) - MCKeyRank[k]]}

MCEnvironments == [prefixes : {Unset, {}, {team}}, maxReplicas : {Unset, 0, 1, 11},
                   maxAutoscaling : {Unset, 0, 11}]
=============================================================================
