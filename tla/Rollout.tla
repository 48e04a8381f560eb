------------------------------- MODULE Rollout -------------------------------
(***************************************************************************)
(* What a deployment promises, whatever fails on the way: the objects of a *)
(* service reach the cluster as they were registered, and a deployment is  *)
(* reported as applied only when all of them are there.  Where every       *)
(* deployer is Ordered, as the client-go one is, they arrive in the order  *)
(* of the bundle, too.  DeployPath implements it for a durable registry.   *)
(***************************************************************************)
EXTENDS Naturals, Sequences

CONSTANTS Names, Defs, NoDef,
          Kinds,           \* the namespaced objects a service may consist of
          Bundle(_, _),    \* those it does consist of, in the order they are applied
          Ordered          \* no object is sent before those ahead of it are there

VARIABLES reg,        \* registered definitions
          cluster,    \* what the cluster has of each service, by kind
          succeeded   \* services reported as applied

vars == <<reg, cluster, succeeded>>

\* The first j objects of service n are in the cluster as registered.
UpTo(n, j) == \A i \in 1..j : cluster[n][Bundle(n, reg[n])[i]] = reg[n]
Complete(n) == reg[n] # NoDef /\ UpTo(n, Len(Bundle(n, reg[n])))

Init == /\ reg = [n \in Names |-> NoDef]
        /\ cluster = [n \in Names |-> [k \in Kinds |-> NoDef]]
        /\ succeeded = {}

Register(n, d) == /\ reg[n] = NoDef
                  /\ reg' = [reg EXCEPT ![n] = d]
                  /\ UNCHANGED <<cluster, succeeded>>

\* One more object of n arrives.
Arrive(n) == /\ reg[n] # NoDef
             /\ \E j \in 1..Len(Bundle(n, reg[n])) :
                  /\ Ordered => UpTo(n, j - 1)
                  /\ cluster' = [cluster EXCEPT ![n][Bundle(n, reg[n])[j]] = reg[n]]
             /\ UNCHANGED <<reg, succeeded>>

Report(n) == /\ Complete(n)
             /\ succeeded' = succeeded \cup {n}
             /\ UNCHANGED <<reg, cluster>>

Next == \E n \in Names : \/ \E d \in Defs : Register(n, d)
                         \/ Arrive(n)
                         \/ Report(n)

Spec == Init /\ [][Next]_vars
==============================================================================
