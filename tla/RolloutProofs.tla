---------------------------- MODULE RolloutProofs ----------------------------
(***************************************************************************)
(* What Rollout promises, and with it every deployment path that           *)
(* implements it: the cluster has nothing of a service but what was        *)
(* registered for it, a service that was reported as applied is complete   *)
(* and stays so, and where objects are sent in order each has those ahead  *)
(* of it in its bundle.                                                    *)
(***************************************************************************)
EXTENDS Rollout, TLAPS

\* Bundles list kinds, each at most once.
BundlesListKinds ==
  \A n \in Names, d \in Defs :
    /\ Bundle(n, d) \in Seq(Kinds)
    /\ \A i, j \in 1..Len(Bundle(n, d)) : Bundle(n, d)[i] = Bundle(n, d)[j] => i = j

TypeInv == /\ reg \in [Names -> Defs \cup {NoDef}]
           /\ cluster \in [Names -> [Kinds -> Defs \cup {NoDef}]]
           /\ succeeded \subseteq Names

\* The cluster has of a service what was registered for it.
OnlyRegistered == \A n \in Names, k \in Kinds : cluster[n][k] # NoDef => cluster[n][k] = reg[n]

\* Services that were reported as applied are complete.
ReportedComplete == \A n \in succeeded : Complete(n)

\* An object that is there follows those ahead of it.
AllAhead ==
  \A n \in Names : reg[n] # NoDef =>
    \A j \in 1..Len(Bundle(n, reg[n])) : cluster[n][Bundle(n, reg[n])[j]] = reg[n] => UpTo(n, j)

RollInv == TypeInv /\ OnlyRegistered /\ ReportedComplete /\ (Ordered => AllAhead)

\* The first state.
LEMMA RollInit == Init => RollInv
BY DEF Init, RollInv, TypeInv, OnlyRegistered, ReportedComplete, AllAhead

\* The k-th object of a bundle is of a kind.
LEMMA KindOf ==
  ASSUME BundlesListKinds, NEW n \in Names, NEW d \in Defs, NEW i \in 1..Len(Bundle(n, d))
  PROVE  Bundle(n, d)[i] \in Kinds
BY DEF BundlesListKinds

\* Nothing that is there goes.
LEMMA ObjectsStay ==
  ASSUME NoDef \notin Defs, BundlesListKinds, RollInv, [Next]_vars,
         NEW n \in Names, reg[n] # NoDef
  PROVE  /\ reg'[n] = reg[n]
         /\ \A k \in Kinds : cluster[n][k] = reg[n] => cluster'[n][k] = reg[n]
<1>0. /\ reg \in [Names -> Defs \cup {NoDef}]
      /\ cluster \in [Names -> [Kinds -> Defs \cup {NoDef}]]
  BY DEF RollInv, TypeInv
<1>1. ASSUME NEW m \in Names, NEW d \in Defs, Register(m, d)
      PROVE  reg'[n] = reg[n] /\ cluster' = cluster
  BY <1>0, <1>1 DEF Register
<1>2. ASSUME NEW m \in Names, Arrive(m)
      PROVE  /\ reg'[n] = reg[n]
             /\ \A k \in Kinds : cluster[n][k] = reg[n] => cluster'[n][k] = reg[n]
  <2>1. PICK j \in 1..Len(Bundle(m, reg[m])) :
          cluster' = [cluster EXCEPT ![m][Bundle(m, reg[m])[j]] = reg[m]]
    BY <1>2 DEF Arrive
  <2>2. PICK l : l = Bundle(m, reg[m])[j]
    OBVIOUS
  <2>3. cluster' = [cluster EXCEPT ![m] = [cluster[m] EXCEPT ![l] = reg[m]]]
    BY <2>1, <2>2
  <2>4. \A k \in Kinds : cluster[n][k] = reg[n] => cluster'[n][k] = reg[n]
    BY <1>0, <2>3
  <2>5. QED  BY <1>2, <2>4 DEF Arrive
<1>3. QED  BY <1>1, <1>2 DEF Next, vars, Report

\* So a prefix that has arrived stays.
LEMMA PrefixStays ==
  ASSUME NoDef \notin Defs, BundlesListKinds, RollInv, [Next]_vars,
         NEW n \in Names, reg[n] # NoDef, 
         NEW j \in 0..Len(Bundle(n, reg[n])), UpTo(n, j)
  PROVE  UpTo(n, j)'
<1>1. reg[n] \in Defs /\ reg'[n] = reg[n]
  BY ObjectsStay DEF RollInv, TypeInv
<1>2. PICK d \in Defs : d = reg[n]
  BY <1>1
<1>3. ASSUME NEW i \in 1..j PROVE cluster'[n][Bundle(n, d)[i]] = d
  <2>1. i \in 1..Len(Bundle(n, d))
    BY <1>2 DEF BundlesListKinds
  <2>2. Bundle(n, d)[i] \in Kinds
    BY <2>1, KindOf
  <2>3. cluster[n][Bundle(n, d)[i]] = d
    BY <1>2 DEF UpTo
  <2>4. QED  BY <1>2, <2>2, <2>3, ObjectsStay
<1>4. QED  BY <1>1, <1>2, <1>3 DEF UpTo

\* Types, and that the cluster has only what was registered.
LEMMA ContentStep ==
  ASSUME NoDef \notin Defs, BundlesListKinds, RollInv, [Next]_vars
  PROVE  TypeInv' /\ OnlyRegistered'
<1>0. /\ reg \in [Names -> Defs \cup {NoDef}]
      /\ cluster \in [Names -> [Kinds -> Defs \cup {NoDef}]]
      /\ succeeded \subseteq Names /\ OnlyRegistered
  BY DEF RollInv, TypeInv
<1>1. ASSUME NEW n \in Names, NEW d \in Defs, Register(n, d) PROVE TypeInv' /\ OnlyRegistered'
  <2>1. \A k \in Kinds : cluster[n][k] = NoDef
    BY <1>0, <1>1 DEF Register, OnlyRegistered
  <2>2. QED  BY <1>0, <1>1, <2>1 DEF Register, TypeInv, OnlyRegistered
<1>2. ASSUME NEW n \in Names, Arrive(n) PROVE TypeInv' /\ OnlyRegistered'
  <2>1. reg[n] # NoDef /\ UNCHANGED <<reg, succeeded>>
    BY <1>2 DEF Arrive
  <2>2. PICK d \in Defs : d = reg[n]
    BY <1>0, <2>1
  <2>3. PICK k \in Kinds : cluster' = [cluster EXCEPT ![n] = [cluster[n] EXCEPT ![k] = d]]
    <3>1. PICK j \in 1..Len(Bundle(n, d)) : cluster' = [cluster EXCEPT ![n][Bundle(n, d)[j]] = d]
      BY <1>2, <2>2 DEF Arrive
    <3>2. QED  BY <3>1, KindOf
  <2>4. cluster' \in [Names -> [Kinds -> Defs \cup {NoDef}]]
    BY <1>0, <2>3
  <2>5. \A m \in Names, l \in Kinds : 
          cluster'[m][l] = IF m = n /\ l = k THEN d ELSE cluster[m][l]
    BY <1>0, <2>3
  <2>6. OnlyRegistered'
    BY <1>0, <2>1, <2>2, <2>5 DEF OnlyRegistered
  <2>7. QED  BY <1>0, <2>1, <2>4, <2>6 DEF TypeInv
<1>3. ASSUME NEW n \in Names, Report(n) PROVE TypeInv' /\ OnlyRegistered'
  BY <1>0, <1>3 DEF Report, TypeInv, OnlyRegistered
<1>4. CASE UNCHANGED vars
  BY <1>0, <1>4 DEF vars, TypeInv, OnlyRegistered
<1>5. QED  BY <1>1, <1>2, <1>3, <1>4 DEF Next

\* What was complete stays so, and only what is complete is reported.
LEMMA CompleteStep ==
  ASSUME NoDef \notin Defs, BundlesListKinds, RollInv, [Next]_vars
  PROVE  ReportedComplete'
<1>1. ASSUME NEW n \in Names, Complete(n) PROVE Complete(n)'
  <2>1. reg[n] # NoDef /\ UpTo(n, Len(Bundle(n, reg[n])))
    BY <1>1 DEF Complete
  <2>2. reg[n] \in Defs /\ reg'[n] = reg[n]
    BY <2>1, ObjectsStay DEF RollInv, TypeInv
  <2>3. PICK d \in Defs : d = reg[n]
    BY <2>2
  <2>4. PICK l \in Nat : l = Len(Bundle(n, d)) /\ l \in 0..Len(Bundle(n, d))
    BY DEF BundlesListKinds
  <2>5. UpTo(n, l)'
    BY <2>1, <2>3, <2>4, PrefixStays
  <2>6. QED  BY <2>1, <2>2, <2>3, <2>4, <2>5 DEF Complete
<1>2. \A n \in succeeded' : n \in Names /\ Complete(n)
  BY DEF RollInv, TypeInv, ReportedComplete, Next, vars, Register, Arrive, Report
<1>3. QED  BY <1>1, <1>2 DEF ReportedComplete

\* An object that is sent after those ahead of it extends the prefix.
LEMMA AheadStep ==
  ASSUME NoDef \notin Defs, BundlesListKinds, RollInv, Ordered, [Next]_vars
  PROVE  AllAhead'
<1>0. /\ reg \in [Names -> Defs \cup {NoDef}]
      /\ cluster \in [Names -> [Kinds -> Defs \cup {NoDef}]]
      /\ OnlyRegistered /\ AllAhead
  BY DEF RollInv, TypeInv
<1> SUFFICES ASSUME NEW n \in Names, reg'[n] # NoDef, NEW j \in 1..Len(Bundle(n, reg'[n])),
                    cluster'[n][Bundle(n, reg'[n])[j]] = reg'[n]
             PROVE  UpTo(n, j)'
  BY DEF AllAhead
<1>1. PICK d \in Defs : d = reg'[n]
  BY ContentStep DEF TypeInv
<1>2. j \in 1..Len(Bundle(n, d)) /\ j \in 0..Len(Bundle(n, d)) /\ Bundle(n, d)[j] \in Kinds
  BY <1>1, KindOf DEF BundlesListKinds
<1>3. CASE reg[n] # NoDef /\ cluster[n][Bundle(n, d)[j]] = d
  <2>1. reg[n] = d
    BY <1>1, <1>3, ObjectsStay
  <2>2. UpTo(n, j)
    BY <1>0, <1>2, <1>3, <2>1 DEF AllAhead
  <2>3. QED  BY <1>2, <1>3, <2>1, <2>2, PrefixStays
<1>4. CASE ~(reg[n] # NoDef /\ cluster[n][Bundle(n, d)[j]] = d)
  <2>1. cluster[n][Bundle(n, d)[j]] # d
    BY <1>0, <1>2, <1>4 DEF OnlyRegistered
  <2>2. PICK m \in Names : Arrive(m)
    BY <1>1, <2>1 DEF Next, vars, Register, Report
  <2>3. PICK e \in Defs : e = reg[m]
    BY <1>0, <2>2 DEF Arrive
  <2>4. PICK i \in 1..Len(Bundle(m, e)) : /\ UpTo(m, i - 1)
                                          /\ cluster' = [cluster EXCEPT ![m][Bundle(m, e)[i]] = e]
    BY <2>2, <2>3 DEF Arrive
  <2>5. PICK k \in Kinds : k = Bundle(m, e)[i]
    BY KindOf
  <2>6. cluster' = [cluster EXCEPT ![m] = [cluster[m] EXCEPT ![k] = e]]
    BY <2>4, <2>5
  <2>7. m = n /\ Bundle(n, d)[j] = k
    BY <1>0, <1>1, <1>2, <2>1, <2>6
  <2>8. e = d
    BY <1>1, <2>2, <2>3, <2>7 DEF Arrive
  <2>9. i = j
    BY <1>2, <2>4, <2>5, <2>7, <2>8 DEF BundlesListKinds
  <2>10. UpTo(n, j - 1)'
    <3>1. UpTo(n, j - 1) /\ reg[n] = d /\ d # NoDef
      BY <2>3, <2>4, <2>7, <2>8, <2>9
    <3>2. j - 1 \in 0..Len(Bundle(n, d))
      BY <1>2 DEF BundlesListKinds
    <3>3. QED  BY <3>1, <3>2, PrefixStays
  <2>11. QED
    <3>1. \A l \in 1..(j - 1) : cluster'[n][Bundle(n, d)[l]] = d
      BY <1>1, <2>10 DEF UpTo
    <3>2. \A l \in 1..j : l = j \/ l \in 1..(j - 1)
      BY <1>2 DEF BundlesListKinds
    <3>3. \A l \in 1..j : cluster'[n][Bundle(n, d)[l]] = d
      BY <1>1, <3>1, <3>2
    <3>4. QED  BY <1>1, <3>3 DEF UpTo
<1>5. QED  BY <1>3, <1>4

\* RollInv always holds.
LEMMA RollInvariance ==
  ASSUME NoDef \notin Defs, BundlesListKinds
  PROVE  Spec => []RollInv
<1>1. RollInv /\ [Next]_vars => RollInv'
  <2> SUFFICES ASSUME RollInv, [Next]_vars PROVE RollInv'
    OBVIOUS
  <2>1. TypeInv' /\ OnlyRegistered' /\ ReportedComplete'
    BY ContentStep, CompleteStep
  <2>2. Ordered => AllAhead'
    BY AheadStep
  <2>3. QED  BY <2>1, <2>2 DEF RollInv
<1>2. QED  BY <1>1, RollInit, PTL DEF Spec

\* A service that was reported as applied is complete, and the cluster has nothing
\* of any service but what was registered.  (clientgo_deployer.go:39-82, deploy.go:25-76)
THEOREM ReportedIsComplete ==
  ASSUME NoDef \notin Defs, BundlesListKinds
  PROVE  Spec => [](ReportedComplete /\ OnlyRegistered)
<1>1. RollInv => ReportedComplete /\ OnlyRegistered
  BY DEF RollInv
<1>2. QED  BY <1>1, RollInvariance, PTL

\* Where objects are sent in order, each has those ahead of it.
\* (clientgo_deployer.go:68-75)
THEOREM OrderedLeavesPrefixes ==
  ASSUME NoDef \notin Defs, BundlesListKinds, Ordered
  PROVE  Spec => []AllAhead
<1>1. RollInv => AllAhead
  BY DEF RollInv
<1>2. QED  BY <1>1, RollInvariance, PTL

\* An object that has arrived is there for good and never becomes another one: no
\* deployment deletes, and none of a later registration overwrites.
\* (clientgo_deployer.go:109-128, deploy.go:40-51)
THEOREM NothingIsTakenBack ==
  ASSUME NoDef \notin Defs, BundlesListKinds
  PROVE  Spec => [][\A n \in Names, k \in Kinds :
                      cluster[n][k] # NoDef => cluster'[n][k] = cluster[n][k]]_cluster
<1>1. RollInv /\ [Next]_vars
        => [\A n \in Names, k \in Kinds :
              cluster[n][k] # NoDef => cluster'[n][k] = cluster[n][k]]_cluster
  <2> SUFFICES ASSUME RollInv, [Next]_vars, NEW n \in Names, NEW k \in Kinds, cluster[n][k] # NoDef
               PROVE  cluster'[n][k] = cluster[n][k]
    OBVIOUS
  <2>1. cluster[n][k] = reg[n]
    BY DEF RollInv, OnlyRegistered
  <2>2. QED  BY <2>1, ObjectsStay
<1>2. QED  BY <1>1, RollInvariance, PTL DEF Spec
==============================================================================
