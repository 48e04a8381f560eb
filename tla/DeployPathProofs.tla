-------------------------- MODULE DeployPathProofs --------------------------
(***************************************************************************)
(* Proofs about DeployPath, for any sets of handlers, names and            *)
(* definitions.                                                            *)
(*                                                                         *)
(* A registered definition never changes, so a late patch can only bring   *)
(* what is there already or is about to be (KeepInv).  A handler goes on   *)
(* only after the object before was in the cluster (ProgressInv), so the   *)
(* patch it leaves on the wire when it fails finds its predecessors there  *)
(* (FlightInv).  The first two make success mean completeness; the third,  *)
(* which the kubectl deployer does not have, makes failure leave a prefix. *)
(***************************************************************************)
EXTENDS DeployPath, FiniteSetTheorems, TLAPS

-----------------------------------------------------------------------------
(* Bundles. *)

\* s is the Namespace, then the objects r, each once.
HasShape(s, r) == /\ s[1] = "Namespace"
                  /\ Len(s) \in 3..5
                  /\ Len(r) = Len(s) - 1
                  /\ \A j \in 2..Len(s) : s[j] \in Kinds /\ s[j] = r[j - 1]
                  /\ \A i, j \in 1..Len(s) : s[i] = s[j] => i = j

\* The objects of a bundle: the Namespace, then those of the service, each once.
LEMMA BundleShape ==
  ASSUME NEW n, NEW d
  PROVE  /\ Bundle(n, d)[1] = "Namespace"
         /\ Len(Bundle(n, d)) \in 3..5
         /\ Len(Resources(n, d)) = Len(Bundle(n, d)) - 1
         /\ \A j \in 2..Len(Bundle(n, d)) : /\ Bundle(n, d)[j] \in Kinds
                                           /\ Bundle(n, d)[j] = Resources(n, d)[j - 1]
         /\ \A i, j \in 1..Len(Bundle(n, d)) : Bundle(n, d)[i] = Bundle(n, d)[j] => i = j
<1>1. Bundle(n, d) = <<"Namespace">> \o Resources(n, d)
  BY DEF Bundle
<1>2. ASSUME NEW x \in {<<>>, <<"ConfigMap">>}, NEW z \in {<<>>, <<"HPA">>},
             NEW r, r = (x \o <<"Deployment", "Service">>) \o z,
             NEW s, s = <<"Namespace">> \o r
      PROVE  HasShape(s, r)
  <2>1. CASE x = <<>> /\ z = <<>>
    BY <1>2, <2>1 DEF Kinds, HasShape
  <2>2. CASE x = <<>> /\ z = <<"HPA">>
    BY <1>2, <2>2 DEF Kinds, HasShape
  <2>3. CASE x = <<"ConfigMap">> /\ z = <<>>
    BY <1>2, <2>3 DEF Kinds, HasShape
  <2>4. CASE x = <<"ConfigMap">> /\ z = <<"HPA">>
    BY <1>2, <2>4 DEF Kinds, HasShape
  <2>5. QED  BY <2>1, <2>2, <2>3, <2>4
<1>3. PICK x \in {<<>>, <<"ConfigMap">>}, z \in {<<>>, <<"HPA">>} :
        Resources(n, d) = (x \o <<"Deployment", "Service">>) \o z
  BY DEF Resources
<1>4. HasShape(Bundle(n, d), Resources(n, d))
  BY <1>1, <1>2, <1>3, Zenon
<1>5. QED  BY <1>4, Zenon DEF HasShape

-----------------------------------------------------------------------------
(* Types. *)

InProgress == {h \in Handlers : pc[h] \in Waiting \cup {"apply"}}

\* Nothing runs while no process does, and a process has a deployer.
RunInv == /\ ~running => \A h \in Handlers : pc[h] = "idle"
          /\ running <=> deployer # "none"

\* A busy handler deploys what is registered, and waits only for an object of
\* its bundle.
AttInv == \A h \in Handlers : pc[h] # "idle" =>
            /\ att[h].name \in Names
            /\ att[h].def \in Defs
            /\ att[h].def = reg[att[h].name]
            /\ pc[h] \in Waiting => att[h].next <= Len(Bundle(att[h].name, att[h].def))

CountInv == IsFiniteSet(InProgress) /\ CountedOnce

BaseInv == TypeOK /\ RunInv /\ AttInv /\ CountInv

USE NoDefAssumption, DeployerAssumption, ModeAssumption, MaxDeploysAssumption

\* What a step to l with deployment a does to the handlers.
LEMMA StepEffect ==
  ASSUME TypeOK, NEW h \in Handlers, NEW l, NEW a \in Attempts, Step(h, l, a)
  PROVE  /\ pc'[h] = l /\ att'[h] = a
         /\ \A g \in Handlers : g # h => pc'[g] = pc[g] /\ att'[g] = att[g]
         /\ att' \in [Handlers -> Attempts]
         /\ pc' = [pc EXCEPT ![h] = l]
BY DEF TypeOK, Step

\* What counting a result does to the handlers.
LEMMA FinishEffect ==
  ASSUME TypeOK, NEW h \in Handlers, NEW a \in Attempts, NEW r \in {"success", "failure"},
         Finish(h, a, r)
  PROVE  /\ pc'[h] = "audit"
         /\ att'[h].name = a.name /\ att'[h].def = a.def /\ att'[h].next = a.next
         /\ att'[h].erred = a.erred /\ att'[h].result = r
         /\ \A g \in Handlers : g # h => pc'[g] = pc[g] /\ att'[g] = att[g]
         /\ att' \in [Handlers -> Attempts]
         /\ pc' = [pc EXCEPT ![h] = "audit"]
<1> DEFINE b == [a EXCEPT !.result = r]
<1>1. b \in Attempts /\ b.name = a.name /\ b.def = a.def /\ b.next = a.next
      /\ b.erred = a.erred /\ b.result = r
  BY DEF Attempts, Results
<1>2. Step(h, "audit", b)
  BY DEF Finish
<1> HIDE DEF b
<1>3. QED  BY <1>1, <1>2, StepEffect

\* The first state.
LEMMA TypesInit == Init => BaseInv
<1> SUFFICES ASSUME Init PROVE BaseInv
  OBVIOUS
<1>1. Idle \in Attempts
  BY DEF Idle, Attempts, Results, Trails
<1>2. TypeOK
  <2>1. att \in [Handlers -> Attempts]
    BY <1>1 DEF Init
  <2>2. pc \in [Handlers -> {"idle", "apply", "sent", "landed", "refused", "audit", "answer"}]
    BY DEF Init
  <2>3. /\ counted \in [{"success", "failure"} -> 0..MaxDeploys]
        /\ begun \in 0..MaxDeploys /\ dropped \in 0..MaxDeploys
    BY DEF Init
  <2>4. /\ reg \in [Names -> Defs \cup {NoDef}]
        /\ cluster \in [Names -> [Kinds -> Defs \cup {NoDef}]]
    BY DEF Init
  <2>5. QED  BY <2>1, <2>2, <2>3, <2>4 DEF Init, TypeOK
<1>3. InProgress = {}
  BY DEF Init, InProgress, Waiting
<1>4. CountInv
  <2>1. IsFiniteSet(InProgress) /\ Cardinality(InProgress) = 0
    BY <1>3, FS_EmptySet
  <2>2. begun = 0 /\ dropped = 0 /\ counted["success"] = 0 /\ counted["failure"] = 0
    BY DEF Init
  <2>3. CountedOnce <=> begun = counted["success"] + counted["failure"] + dropped + Cardinality(InProgress)
    BY DEF CountedOnce, InProgress
  <2>4. begun = counted["success"] + counted["failure"] + dropped + Cardinality(InProgress)
    BY <2>1, <2>2
  <2>5. QED  BY <2>1, <2>3, <2>4 DEF CountInv
<1>5. QED  BY <1>2, <1>4 DEF BaseInv, Init, RunInv, AttInv

-----------------------------------------------------------------------------
(* The steps of a handler, by what they do to its deployment. *)

Underway == Waiting \cup {"apply"}
Places == {"idle", "apply", "sent", "landed", "refused", "audit", "answer"}

\* The deployment is over and counted.
Ends(h) == /\ pc[h] \in Underway
           /\ \E r \in {"success", "failure"} : Finish(h, att[h], r)
           /\ UNCHANGED <<process, begun, dropped>>

\* The deployment goes on, or what follows it does.
Moves(h) == /\ pc[h] # "idle"
            /\ \E l \in Places \ {"idle"}, b \in Attempts :
                 /\ Step(h, l, b)
                 /\ b.name = att[h].name /\ b.def = att[h].def
                 /\ l \in Underway <=> pc[h] \in Underway
                 /\ l \in Waiting => b.next <= Len(Bundle(b.name, b.def))
            /\ UNCHANGED <<process, counted, begun, dropped, succeeded>>

\* The steps that always end a deployment.
LEMMA EndsSteps ==
  ASSUME BaseInv, NEW h \in Handlers
  PROVE  /\ CannotSend(h) => Ends(h)
         /\ Cancelled(h) => Ends(h)
         /\ AllTried(h) => Ends(h)
BY DEF CannotSend, Cancelled, AllTried, Ends, Underway

\* Attempts with one field changed.
LEMMA AttemptFields ==
  ASSUME NEW a \in Attempts
  PROVE  /\ [a EXCEPT !.gone = TRUE] \in Attempts
         /\ [a EXCEPT !.audited = "stored"] \in Attempts
         /\ [a EXCEPT !.audited = "taken"] \in Attempts
         /\ a.next <= 5 => [a EXCEPT !.next = @ + 1] \in Attempts
         /\ a.next <= 5 => [a EXCEPT !.next = @ + 1, !.erred = TRUE] \in Attempts
<1> DEFINE With(i, e, g, u) == [name |-> a.name, def |-> a.def, next |-> i, erred |-> e,
                                result |-> a.result, gone |-> g, audited |-> u]
<1>1. \A i \in 1..6, e, g \in BOOLEAN, u \in Trails : With(i, e, g, u) \in Attempts
  BY DEF Attempts
<1>2. /\ a.next \in 1..6 /\ a.erred \in BOOLEAN /\ a.gone \in BOOLEAN
      /\ a.audited \in Trails
      /\ a.next <= 5 => a.next + 1 \in 1..6
  BY DEF Attempts
<1>3. [a EXCEPT !.gone = TRUE] \in Attempts
  <2>1. \A u : [a EXCEPT !.gone = u] = With(a.next, a.erred, u, a.audited)
    BY DEF Attempts
  <2>2. \A u \in BOOLEAN : With(a.next, a.erred, u, a.audited) \in Attempts
    BY <1>1, <1>2, Zenon
  <2> HIDE DEF With
  <2>3. QED  BY <2>1, <2>2, Zenon
<1>4. \A v \in {"stored", "taken"} : [a EXCEPT !.audited = v] \in Attempts
  <2>1. \A u : [a EXCEPT !.audited = u] = With(a.next, a.erred, a.gone, u)
    BY DEF Attempts
  <2>2. \A u \in Trails : With(a.next, a.erred, a.gone, u) \in Attempts
    BY <1>1, <1>2, Zenon
  <2>3. \A v \in {"stored", "taken"} : v \in Trails
    BY DEF Trails
  <2> HIDE DEF With
  <2>4. QED  BY <2>1, <2>2, <2>3, Zenon
<1>5. a.next <= 5 => [a EXCEPT !.next = @ + 1] \in Attempts
  <2>1. [a EXCEPT !.next = @ + 1] = With(a.next + 1, a.erred, a.gone, a.audited)
    BY DEF Attempts
  <2> HIDE DEF With
  <2>2. QED  BY <1>1, <1>2, <2>1
<1>6. a.next <= 5 => [a EXCEPT !.next = @ + 1, !.erred = TRUE] \in Attempts
  <2>1. \A i, u : [a EXCEPT !.next = i, !.erred = u] = With(i, u, a.gone, a.audited)
    <3> TAKE i, u
    <3>1. [a EXCEPT !.next = i] = With(i, a.erred, a.gone, a.audited)
      BY DEF Attempts
    <3>2. [With(i, a.erred, a.gone, a.audited) EXCEPT !.erred = u] = With(i, u, a.gone, a.audited)
      OBVIOUS
    <3>3. [a EXCEPT !.next = i, !.erred = u] = [[a EXCEPT !.next = i] EXCEPT !.erred = u]
      OBVIOUS
    <3>4. QED  BY <3>1, <3>2, <3>3
  <2>2. a.next <= 5 => \A u \in BOOLEAN : With(a.next + 1, u, a.gone, a.audited) \in Attempts
    BY <1>1, <1>2, Zenon
  <2> HIDE DEF With
  <2>3. QED  BY <2>1, <2>2, Zenon
<1>7. QED  BY <1>3, <1>4, <1>5, <1>6

\* The other steps of a deployment that has begun.
LEMMA MovesSteps ==
  ASSUME BaseInv, NEW h \in Handlers
  PROVE  /\ Disconnect(h) => Moves(h)
         /\ Send(h) => Moves(h)
         /\ Applied(h) => Moves(h)
         /\ PatchFails(h) => Moves(h) \/ Ends(h)
         /\ Audited(h) => Moves(h)
         /\ AuditFails(h) => Moves(h)
         /\ NameTaken(h) => Moves(h)
         /\ NoAudit(h) => Moves(h)
         /\ Land(h) => Moves(h)
         /\ Refuse(h) => Moves(h)
<1>1. att[h] \in Attempts /\ att = [att EXCEPT ![h] = att[h]]
  BY DEF BaseInv, TypeOK
<1>2. pc[h] \in Waiting => att[h].next <= 5
  <2>1. pc[h] \in Waiting => att[h].next <= Len(Bundle(att[h].name, att[h].def))
    BY DEF BaseInv, AttInv, Waiting
  <2>2. Len(Bundle(att[h].name, att[h].def)) \in 3..5
    BY BundleShape
  <2>3. QED  BY <1>1, <2>1, <2>2, BundleShape DEF Attempts
<1>3. Disconnect(h) => Moves(h)
  <2> SUFFICES ASSUME Disconnect(h) PROVE Moves(h)
    OBVIOUS
  <2> DEFINE b == [att[h] EXCEPT !.gone = TRUE]
  <2>1. b \in Attempts /\ b.name = att[h].name /\ b.def = att[h].def /\ b.next = att[h].next
    BY <1>1, AttemptFields DEF Attempts
  <2>2. att' = [att EXCEPT ![h] = b]
    BY DEF Disconnect
  <2>3. Step(h, pc[h], b)
    BY <2>2 DEF Disconnect, BaseInv, TypeOK, Step
  <2>4. pc[h] \in Waiting => b.next <= Len(Bundle(b.name, b.def))
    BY <2>1, BundleShape DEF BaseInv, AttInv, Waiting
  <2>5. pc[h] \in Places \ {"idle"}
    BY DEF Disconnect, BaseInv, TypeOK, Places
  <2> HIDE DEF b
  <2>6. QED  BY <2>1, <2>3, <2>4, <2>5 DEF Moves, Disconnect
<1>4. Send(h) => Moves(h)
  BY <1>1 DEF Send, Moves, More, Places, Underway, Waiting
<1>5. Applied(h) => Moves(h)
  <2> DEFINE b == [att[h] EXCEPT !.next = @ + 1]
  <2>1. pc[h] = "landed" => b \in Attempts
    BY <1>1, <1>2, AttemptFields DEF Waiting
  <2>2. b.name = att[h].name /\ b.def = att[h].def
    BY <1>1 DEF Attempts
  <2>3. Applied(h) => pc[h] = "landed" /\ Step(h, "apply", b)
    BY DEF Applied
  <2> HIDE DEF b
  <2>4. QED  BY <2>1, <2>2, <2>3 DEF Applied, Moves, Places, Underway, Waiting
<1>6. PatchFails(h) => Moves(h) \/ Ends(h)
  <2> DEFINE b == [att[h] EXCEPT !.next = @ + 1, !.erred = TRUE]
  <2>1. pc[h] \in Waiting => b \in Attempts
    BY <1>1, <1>2, AttemptFields
  <2>2. b.name = att[h].name /\ b.def = att[h].def
    BY <1>1 DEF Attempts
  <2> HIDE DEF b
  <2>3. PatchFails(h) /\ Step(h, "apply", b) /\ UNCHANGED <<counted, succeeded>> => Moves(h)
    BY <2>1, <2>2 DEF PatchFails, Moves, Places, Underway, Waiting
  <2>4. PatchFails(h) /\ Finish(h, att[h], "failure") => Ends(h)
    BY DEF PatchFails, Ends, Underway
  <2>5. QED  BY <2>3, <2>4 DEF PatchFails, b
<1>7. Audited(h) => Moves(h)
  <2> DEFINE b == [att[h] EXCEPT !.audited = "stored"]
  <2>1. b \in Attempts
    BY <1>1, AttemptFields
  <2>2. b.name = att[h].name /\ b.def = att[h].def
    BY <1>1 DEF Attempts
  <2>3. Audited(h) => Step(h, "answer", b)
    BY DEF Audited
  <2> HIDE DEF b
  <2>4. QED  BY <2>1, <2>2, <2>3 DEF Audited, Moves, Places, Underway, Waiting
<1>8. AuditFails(h) => Moves(h)
  BY <1>1 DEF AuditFails, Moves, Places, Underway, Waiting
<1>9. NoAudit(h) => Moves(h)
  BY <1>1 DEF NoAudit, Moves, Places, Underway, Waiting
<1>10. Land(h) => Moves(h)
  <2>1. Land(h) => pc[h] = "sent" /\ Step(h, "landed", att[h])
    BY <1>1 DEF Land, Pending, Step
  <2>2. pc[h] = "sent" => att[h].next <= Len(Bundle(att[h].name, att[h].def))
    BY DEF BaseInv, AttInv, Waiting
  <2>3. QED  BY <1>1, <2>1, <2>2 DEF Land, Moves, Places, Underway, Waiting
<1>11. Refuse(h) => Moves(h)
  <2>1. Refuse(h) => pc[h] = "sent" /\ Step(h, "refused", att[h])
    BY <1>1 DEF Refuse, Step
  <2>2. pc[h] = "sent" => att[h].next <= Len(Bundle(att[h].name, att[h].def))
    BY DEF BaseInv, AttInv, Waiting
  <2>3. QED  BY <1>1, <2>1, <2>2 DEF Refuse, Moves, Places, Underway, Waiting
<1>12. NameTaken(h) => Moves(h)
  <2> DEFINE b == [att[h] EXCEPT !.audited = "taken"]
  <2>1. b \in Attempts
    BY <1>1, AttemptFields
  <2>2. b.name = att[h].name /\ b.def = att[h].def
    BY <1>1 DEF Attempts
  <2>3. NameTaken(h) => Step(h, "answer", b)
    BY DEF NameTaken
  <2> HIDE DEF b
  <2>4. QED  BY <2>1, <2>2, <2>3 DEF NameTaken, Moves, Places, Underway, Waiting
<1>13. QED  BY <1>3, <1>4, <1>5, <1>6, <1>7, <1>8, <1>9, <1>10, <1>11, <1>12

-----------------------------------------------------------------------------
(* Types, continued. *)

\* TypeOK, of the handlers and of what they act upon.
HandlerTypes == /\ running \in BOOLEAN
                /\ reg \in [Names -> Defs \cup {NoDef}]
                /\ policy \subseteq Defs
                /\ deployer \in Deployers \cup {"none"}
                /\ pc \in [Handlers -> Places]
                /\ att \in [Handlers -> Attempts]
                /\ counted \in [{"success", "failure"} -> 0..MaxDeploys]
                /\ begun \in 0..MaxDeploys /\ dropped \in 0..MaxDeploys
                /\ succeeded \subseteq Names \X Defs

ExternalTypes == /\ namespace \in BOOLEAN
                 /\ cluster \in [Names -> [Kinds -> Defs \cup {NoDef}]]
                 /\ wire \subseteq Patches
                 /\ audit \subseteq Records

\* TypeOK in two halves: what only handlers change, and the world outside.
LEMMA TypeParts == TypeOK <=> HandlerTypes /\ ExternalTypes
BY DEF TypeOK, HandlerTypes, ExternalTypes, Places

ProcessInv == HandlerTypes /\ RunInv /\ AttInv /\ CountInv

\* BaseInv in the same two halves.
LEMMA BaseParts == BaseInv <=> ProcessInv /\ ExternalTypes
BY TypeParts DEF BaseInv, ProcessInv

\* No counter exceeds the number of deployments begun.
LEMMA Bounded ==
  ASSUME NEW c \in [{"success", "failure"} -> Nat], NEW b \in 0..MaxDeploys, NEW k \in Nat,
         NEW d \in Nat, b = c["success"] + c["failure"] + d + k
  PROVE  c \in [{"success", "failure"} -> 0..MaxDeploys] /\ d \in 0..MaxDeploys
<1>1. c["success"] \in Nat /\ c["failure"] \in Nat /\ MaxDeploys \in Nat
  OBVIOUS
<1>2. \A r \in {"success", "failure"} : c[r] \in 0..MaxDeploys
  BY <1>1
<1>3. QED  BY <1>1, <1>2

\* Attempts in progress, by place.
LEMMA UnderwayIs == InProgress = {h \in Handlers : pc[h] \in Underway}
BY DEF InProgress, Underway

\* CountedOnce in terms of InProgress.
LEMMA CountIs ==
  CountedOnce <=> begun = counted["success"] + counted["failure"] + dropped + Cardinality(InProgress)
BY DEF CountedOnce, InProgress

\* A move keeps the invariant of the process.
LEMMA MovesKeep ==
  ASSUME BaseInv, NEW h \in Handlers, Moves(h)
  PROVE  ProcessInv'
<1>1. PICK l \in Places \ {"idle"}, b \in Attempts :
        /\ Step(h, l, b)
        /\ b.name = att[h].name /\ b.def = att[h].def
        /\ l \in Underway <=> pc[h] \in Underway
        /\ l \in Waiting => b.next <= Len(Bundle(b.name, b.def))
  BY DEF Moves
<1>2. /\ pc[h] # "idle"
      /\ UNCHANGED <<process, counted, begun, dropped, succeeded>>
  BY DEF Moves
<1>3. /\ pc'[h] = l /\ att'[h] = b
      /\ \A g \in Handlers : g # h => pc'[g] = pc[g] /\ att'[g] = att[g]
      /\ att' \in [Handlers -> Attempts]
      /\ pc' = [pc EXCEPT ![h] = l]
  BY <1>1, StepEffect DEF BaseInv
<1>4. HandlerTypes'
  BY <1>2, <1>3, TypeParts DEF BaseInv, HandlerTypes, process
<1>5. RunInv'
  BY <1>2, <1>3 DEF BaseInv, RunInv, process
<1>6. AttInv'
  BY <1>1, <1>2, <1>3 DEF BaseInv, AttInv, process
<1>7. InProgress' = InProgress
  BY <1>1, <1>3 DEF InProgress, Underway
<1>8. CountInv'
  BY <1>2, <1>7, CountIs DEF BaseInv, CountInv, CountedOnce, InProgress
<1>9. QED  BY <1>4, <1>5, <1>6, <1>8 DEF ProcessInv

\* So does the end of a deployment: one attempt less in progress, one more counted.
LEMMA EndsKeep ==
  ASSUME BaseInv, NEW h \in Handlers, Ends(h)
  PROVE  ProcessInv'
<1>1. PICK r \in {"success", "failure"} : Finish(h, att[h], r)
  BY DEF Ends
<1>2. pc[h] \in Underway /\ UNCHANGED <<process, begun, dropped>>
  BY DEF Ends
<1>3. att[h] \in Attempts
  BY DEF BaseInv, TypeOK
<1>4. /\ pc'[h] = "audit"
      /\ att'[h].name = att[h].name /\ att'[h].def = att[h].def
      /\ \A g \in Handlers : g # h => pc'[g] = pc[g] /\ att'[g] = att[g]
      /\ att' \in [Handlers -> Attempts]
      /\ pc' = [pc EXCEPT ![h] = "audit"]
      /\ counted' = [counted EXCEPT ![r] = @ + 1]
      /\ succeeded' \subseteq succeeded \cup {<<att[h].name, att[h].def>>}
  <2>1. /\ pc'[h] = "audit"
        /\ \A g \in Handlers : g # h => pc'[g] = pc[g] /\ att'[g] = att[g]
        /\ att' \in [Handlers -> Attempts]
        /\ pc' = [pc EXCEPT ![h] = "audit"]
        /\ counted' = [counted EXCEPT ![r] = @ + 1]
    BY <1>1, <1>3, FinishEffect DEF BaseInv, Finish
  <2>2. att'[h].name = att[h].name /\ att'[h].def = att[h].def
    BY <1>1, <1>3, FinishEffect DEF BaseInv
  <2>3. succeeded' \subseteq succeeded \cup {<<att[h].name, att[h].def>>}
    BY <1>1 DEF Finish
  <2>4. QED  BY <2>1, <2>2, <2>3
<1>5. pc[h] # "idle" /\ att[h].name \in Names /\ att[h].def \in Defs
  BY <1>2 DEF BaseInv, AttInv, Underway, Waiting
<1>6. RunInv'
  BY <1>2, <1>4, <1>5 DEF BaseInv, RunInv, process
<1>7. AttInv'
  BY <1>2, <1>4, <1>5 DEF BaseInv, AttInv, process, Waiting
<1>8. h \in InProgress /\ InProgress' = InProgress \ {h}
  BY <1>2, <1>4, UnderwayIs DEF InProgress, Waiting
<1>9. IsFiniteSet(InProgress') /\ Cardinality(InProgress') = Cardinality(InProgress) - 1
      /\ Cardinality(InProgress) \in Nat /\ Cardinality(InProgress') \in Nat
  BY <1>8, FS_RemoveElement, FS_CardinalityType DEF BaseInv, CountInv
<1>10. /\ counted["success"] \in Nat /\ counted["failure"] \in Nat
       /\ counted' \in [{"success", "failure"} -> Nat]
       /\ counted'["success"] + counted'["failure"] = counted["success"] + counted["failure"] + 1
  <2>1. /\ counted \in [{"success", "failure"} -> Nat]
        /\ counted["success"] \in Nat /\ counted["failure"] \in Nat
    BY DEF BaseInv, TypeOK
  <2>2. CASE r = "success"
    BY <1>4, <2>1, <2>2
  <2>3. CASE r = "failure"
    BY <1>4, <2>1, <2>3
  <2>4. QED  BY <2>2, <2>3
<1>11. begun = counted["success"] + counted["failure"] + dropped + Cardinality(InProgress)
  BY CountIs DEF BaseInv, CountInv
<1>12. begun' = counted'["success"] + counted'["failure"] + dropped' + Cardinality(InProgress')
  <2>1. begun' = begun /\ dropped' = dropped /\ dropped \in Nat
    BY <1>2 DEF BaseInv, TypeOK
  <2>2. counted'["success"] \in Nat /\ counted'["failure"] \in Nat
    BY <1>10
  <2>3. QED  BY <1>9, <1>10, <1>11, <2>1, <2>2
<1>13. CountInv'
  BY <1>9, <1>12 DEF CountInv, CountedOnce, InProgress
<1>14. counted' \in [{"success", "failure"} -> 0..MaxDeploys]
  <2>1. begun' \in 0..MaxDeploys /\ dropped' \in Nat
    BY <1>2 DEF BaseInv, TypeOK
  <2>2. QED  BY <1>9, <1>10, <1>12, <2>1, Bounded
<1>15. HandlerTypes'
  BY <1>2, <1>4, <1>5, <1>14, TypeParts DEF BaseInv, HandlerTypes, process, Places
<1>16. QED  BY <1>6, <1>7, <1>13, <1>15 DEF ProcessInv

\* With the same handlers underway and the same counters nothing changes in CountInv.
LEMMA CountKept ==
  ASSUME CountInv, InProgress' = InProgress, UNCHANGED <<counted, begun, dropped>>
  PROVE  CountInv'
BY CountIs DEF CountInv, CountedOnce, InProgress

\* The definitions and the deployment of a deployment that begins.
NewAttempt(n) == [Idle EXCEPT !.name = n, !.def = reg[n]]

\* The fields of a deployment that begins.
LEMMA NewAttemptIs ==
  ASSUME TypeOK, NEW n \in Names, reg[n] # NoDef
  PROVE  /\ NewAttempt(n) \in Attempts
         /\ NewAttempt(n).name = n /\ NewAttempt(n).def = reg[n]
         /\ NewAttempt(n).next = 1 /\ NewAttempt(n).erred = FALSE /\ NewAttempt(n).result = "none"
         /\ [NewAttempt(n) EXCEPT !.result = "failure"] \in Attempts
         /\ [NewAttempt(n) EXCEPT !.result = "failure"].name = n
         /\ [NewAttempt(n) EXCEPT !.result = "failure"].def = reg[n]
         /\ [NewAttempt(n) EXCEPT !.result = "failure"].next = 1
         /\ [NewAttempt(n) EXCEPT !.result = "failure"].erred = FALSE
         /\ [NewAttempt(n) EXCEPT !.result = "failure"].result = "failure"
<1> DEFINE Lit(m, d, i, r, e, g, u) == [name |-> m, def |-> d, next |-> i, erred |-> e,
                                        result |-> r, gone |-> g, audited |-> u]
           Fresh(r) == Lit(n, reg[n], 1, r, FALSE, FALSE, "no")
<1>1. reg[n] \in Defs
  BY DEF TypeOK
<1>2. \A r \in Results : Fresh(r) \in Attempts
  BY <1>1 DEF Attempts, Trails
<1>3. \A e, g, u : /\ [Lit(NoDef, NoDef, 1, "none", e, g, u) EXCEPT !.name = n]
                       = Lit(n, NoDef, 1, "none", e, g, u)
  OBVIOUS
<1>4. \A e, g, u : [Lit(n, NoDef, 1, "none", e, g, u) EXCEPT !.def = reg[n]]
                     = Lit(n, reg[n], 1, "none", e, g, u)
  OBVIOUS
<1> DEFINE Refused(x) == [x EXCEPT !.result = "failure"]
<1>5. \A e, g, u : Refused(Lit(n, reg[n], 1, "none", e, g, u))
                     = Lit(n, reg[n], 1, "failure", e, g, u)
  OBVIOUS
<1>6. [Idle EXCEPT !.name = n, !.def = reg[n]] = [[Idle EXCEPT !.name = n] EXCEPT !.def = reg[n]]
  BY DEF Idle
<1>7. Idle = Lit(NoDef, NoDef, 1, "none", FALSE, FALSE, "no")
  BY Zenon DEF Idle
<1>8. \A r \in Results : /\ Fresh(r).name = n /\ Fresh(r).def = reg[n] /\ Fresh(r).next = 1
                         /\ Fresh(r).erred = FALSE /\ Fresh(r).result = r
  OBVIOUS
<1> HIDE DEF Lit
<1>9. NewAttempt(n) = Fresh("none")
  <2>1. [Idle EXCEPT !.name = n] = Lit(n, NoDef, 1, "none", FALSE, FALSE, "no")
    BY <1>3, <1>7, Zenon
  <2>2. [Lit(n, NoDef, 1, "none", FALSE, FALSE, "no") EXCEPT !.def = reg[n]] = Fresh("none")
    BY <1>4, Zenon
  <2>3. QED  BY <1>6, <2>1, <2>2, Zenon DEF NewAttempt
<1>10. [NewAttempt(n) EXCEPT !.result = "failure"] = Fresh("failure")
  <2> HIDE DEF Refused
  <2>1. Refused(Fresh("none")) = Fresh("failure")
    BY <1>5, Zenon
  <2>2. Refused(NewAttempt(n)) = Fresh("failure")
    BY <1>9, <2>1, Zenon
  <2>3. QED  BY <2>2 DEF Refused
<1> HIDE DEF Fresh
<1>11. QED  BY <1>2, <1>8, <1>9, <1>10 DEF Results

\* The three ways in which a deployment begins.
LEMMA BeginEffect ==
  ASSUME TypeOK, NEW h \in Handlers, NEW n \in Names, Begin(h, n)
  PROVE  /\ att'[h].name = n /\ att'[h].def = reg[n] /\ att'[h].next = 1 /\ att'[h].erred = FALSE
         /\ att' \in [Handlers -> Attempts]
         /\ \A g \in Handlers : g # h => pc'[g] = pc[g] /\ att'[g] = att[g]
         /\ \/ /\ pc' = [pc EXCEPT ![h] = "answer"]
               /\ deployer = "disabled"
               /\ counted' = [counted EXCEPT !["failure"] = @ + 1]
            \/ /\ pc' = [pc EXCEPT ![h] = "audit"]
               /\ counted' = [counted EXCEPT !["failure"] = @ + 1]
            \/ /\ pc' = [pc EXCEPT ![h] = "apply"]
               /\ counted' = counted
               /\ reg[n] \in policy
         /\ pc'[h] # "apply" => att'[h].result = "failure"
         /\ succeeded' = succeeded
<1> DEFINE a == NewAttempt(n)
           f == [a EXCEPT !.result = "failure"]
<1>1. reg[n] # NoDef
  BY DEF Begin
<1>2. /\ a \in Attempts /\ a.name = n /\ a.def = reg[n] /\ a.next = 1 /\ a.erred = FALSE
      /\ f \in Attempts /\ f.name = n /\ f.def = reg[n] /\ f.next = 1 /\ f.erred = FALSE
      /\ f.result = "failure"
  BY <1>1, NewAttemptIs
<1>3. \/ /\ deployer = "disabled" /\ Step(h, "answer", f)
         /\ counted' = [counted EXCEPT !["failure"] = @ + 1] /\ UNCHANGED succeeded
      \/ /\ Step(h, "audit", f)
         /\ counted' = [counted EXCEPT !["failure"] = @ + 1] /\ UNCHANGED succeeded
      \/ /\ Admits(reg[n]) /\ Step(h, "apply", a) /\ UNCHANGED <<counted, succeeded>>
  BY DEF Begin, Finish, NewAttempt
<1> HIDE DEF a, f
<1>4. CASE /\ deployer = "disabled" /\ Step(h, "answer", f)
           /\ counted' = [counted EXCEPT !["failure"] = @ + 1] /\ UNCHANGED succeeded
  BY <1>2, <1>4, StepEffect
<1>5. CASE /\ Step(h, "audit", f)
           /\ counted' = [counted EXCEPT !["failure"] = @ + 1] /\ UNCHANGED succeeded
  BY <1>2, <1>5, StepEffect
<1>6. CASE /\ Admits(reg[n]) /\ Step(h, "apply", a) /\ UNCHANGED <<counted, succeeded>>
  BY <1>2, <1>6, StepEffect DEF Admits
<1>7. QED  BY <1>3, <1>4, <1>5, <1>6

\* A deployment that begins deploys what is registered; one refused at once is counted at once.
LEMMA BeginKeeps ==
  ASSUME BaseInv, NEW h \in Handlers, NEW n \in Names, Begin(h, n)
  PROVE  ProcessInv'
<1>1. /\ running /\ pc[h] = "idle" /\ reg[n] # NoDef /\ begun < MaxDeploys
      /\ begun' = begun + 1 /\ UNCHANGED process /\ UNCHANGED dropped
  BY DEF Begin
<1>2. /\ att'[h].name = n /\ att'[h].def = reg[n] /\ att' \in [Handlers -> Attempts]
      /\ \A g \in Handlers : g # h => pc'[g] = pc[g] /\ att'[g] = att[g]
      /\ \/ /\ pc' = [pc EXCEPT ![h] = "answer"]
            /\ counted' = [counted EXCEPT !["failure"] = @ + 1]
         \/ /\ pc' = [pc EXCEPT ![h] = "audit"]
            /\ counted' = [counted EXCEPT !["failure"] = @ + 1]
         \/ /\ pc' = [pc EXCEPT ![h] = "apply"]
            /\ counted' = counted
      /\ succeeded' = succeeded
  BY BeginEffect DEF BaseInv
<1>3. /\ reg[n] \in Defs
      /\ pc \in [Handlers -> Places] /\ pc' \in [Handlers -> Places]
      /\ pc'[h] \in {"answer", "audit", "apply"}
      /\ counted \in [{"success", "failure"} -> Nat] /\ begun \in Nat /\ dropped \in Nat
  BY <1>1, <1>2 DEF BaseInv, TypeOK, Places
<1>4. RunInv'
  BY <1>1, <1>2 DEF BaseInv, RunInv, process
<1>5. AttInv'
  BY <1>1, <1>2, <1>3 DEF BaseInv, AttInv, process, Waiting
<1>6. h \notin InProgress /\ IsFiniteSet(InProgress) /\ Cardinality(InProgress) \in Nat
  BY <1>1, FS_CardinalityType DEF InProgress, Waiting, BaseInv, CountInv
<1>7. begun = counted["success"] + counted["failure"] + dropped + Cardinality(InProgress)
  BY CountIs DEF BaseInv, CountInv
<1>8. /\ counted' \in [{"success", "failure"} -> Nat]
      /\ IsFiniteSet(InProgress') /\ Cardinality(InProgress') \in Nat
      /\ begun' = counted'["success"] + counted'["failure"] + dropped' + Cardinality(InProgress')
  <2>1. CASE pc'[h] = "apply"
    <3>1. InProgress' = InProgress \cup {h}
      BY <1>2, <2>1, UnderwayIs DEF InProgress, Underway
    <3>2. counted' = counted
      BY <1>2, <1>3, <2>1
    <3>3. IsFiniteSet(InProgress') /\ Cardinality(InProgress') = Cardinality(InProgress) + 1
      BY <1>6, <3>1, FS_AddElement
    <3>4. QED  BY <1>1, <1>3, <1>6, <1>7, <3>2, <3>3
  <2>2. CASE pc'[h] # "apply"
    <3>1. InProgress' = InProgress
      BY <1>2, <1>3, <1>6, <2>2 DEF InProgress, Waiting
    <3>2. counted' = [counted EXCEPT !["failure"] = @ + 1]
      BY <1>2, <1>3, <2>2
    <3>3. /\ counted'["failure"] = counted["failure"] + 1
          /\ counted'["success"] = counted["success"]
          /\ counted' \in [{"success", "failure"} -> Nat]
      BY <1>3, <3>2
    <3>4. QED  BY <1>1, <1>3, <1>6, <1>7, <3>1, <3>3
  <2>3. QED  BY <2>1, <2>2
<1>9. begun' \in 0..MaxDeploys
  BY <1>1 DEF BaseInv, TypeOK
<1>10. counted' \in [{"success", "failure"} -> 0..MaxDeploys]
  BY <1>1, <1>3, <1>8, <1>9, Bounded
<1>11. CountInv'
  BY <1>8 DEF CountInv, CountedOnce, InProgress
<1>12. HandlerTypes'
  BY <1>1, <1>2, <1>3, <1>9, <1>10, TypeParts DEF BaseInv, HandlerTypes, process
<1>13. QED  BY <1>4, <1>5, <1>11, <1>12 DEF ProcessInv

\* An answer changes no counter.
LEMMA AnswerKeeps ==
  ASSUME BaseInv, NEW h \in Handlers, Answer(h)
  PROVE  ProcessInv'
<1>1. Idle \in Attempts
  BY DEF Idle, Attempts, Results, Trails
<1>2. /\ pc[h] = "answer" /\ UNCHANGED <<process, counted, begun, dropped, external, audit, succeeded>>
      /\ Step(h, "idle", Idle)
  BY DEF Answer
<1>3. /\ pc'[h] = "idle" /\ att' \in [Handlers -> Attempts]
      /\ \A g \in Handlers : g # h => pc'[g] = pc[g] /\ att'[g] = att[g]
      /\ pc' = [pc EXCEPT ![h] = "idle"]
  BY <1>1, <1>2, StepEffect DEF BaseInv
<1>4. HandlerTypes'
  BY <1>2, <1>3, TypeParts DEF BaseInv, HandlerTypes, process, Places
<1>5. RunInv'
  BY <1>2, <1>3 DEF BaseInv, RunInv, process
<1>6. AttInv'
  BY <1>2, <1>3 DEF BaseInv, AttInv, process
<1>7. InProgress' = InProgress
  BY <1>2, <1>3 DEF InProgress, Waiting
<1>8. CountInv'
  BY <1>2, <1>7, CountKept DEF BaseInv
<1>9. QED  BY <1>4, <1>5, <1>6, <1>8 DEF ProcessInv

\* So does a panic: one attempt less in progress, one more that panicked.
LEMMA PanicKeeps ==
  ASSUME BaseInv, NEW h \in Handlers, Panic(h)
  PROVE  ProcessInv'
<1>1. Idle \in Attempts
  BY DEF Idle, Attempts, Results, Trails
<1>2. /\ pc[h] = "apply" /\ dropped' = dropped + 1
      /\ UNCHANGED <<process, counted, begun, external, audit, succeeded>>
      /\ Step(h, "idle", Idle)
  BY DEF Panic, Resolving
<1>3. /\ pc'[h] = "idle" /\ att' \in [Handlers -> Attempts]
      /\ \A g \in Handlers : g # h => pc'[g] = pc[g] /\ att'[g] = att[g]
      /\ pc' = [pc EXCEPT ![h] = "idle"]
  BY <1>1, <1>2, StepEffect DEF BaseInv
<1>4. RunInv'
  BY <1>2, <1>3 DEF BaseInv, RunInv, process
<1>5. AttInv'
  BY <1>2, <1>3 DEF BaseInv, AttInv, process
<1>6. h \in InProgress /\ InProgress' = InProgress \ {h}
  BY <1>2, <1>3, UnderwayIs DEF InProgress, Underway, Waiting
<1>7. /\ IsFiniteSet(InProgress') /\ Cardinality(InProgress') = Cardinality(InProgress) - 1
      /\ Cardinality(InProgress) \in Nat /\ Cardinality(InProgress') \in Nat
  BY <1>6, FS_RemoveElement, FS_CardinalityType DEF BaseInv, CountInv
<1>8. /\ counted \in [{"success", "failure"} -> Nat] /\ begun \in 0..MaxDeploys /\ dropped \in Nat
      /\ counted["success"] \in Nat /\ counted["failure"] \in Nat
      /\ counted' = counted /\ begun' = begun
  BY <1>2 DEF BaseInv, TypeOK
<1>9. begun' = counted'["success"] + counted'["failure"] + dropped' + Cardinality(InProgress')
  <2>1. begun = counted["success"] + counted["failure"] + dropped + Cardinality(InProgress)
    BY CountIs DEF BaseInv, CountInv
  <2>2. QED  BY <1>2, <1>7, <1>8, <2>1
<1>10. CountInv'
  BY <1>7, <1>9 DEF CountInv, CountedOnce, InProgress
<1>11. dropped' \in 0..MaxDeploys
  <2>1. dropped' \in Nat
    BY <1>2, <1>8
  <2>2. QED  BY <1>7, <1>8, <1>9, <2>1, Bounded
<1>12. HandlerTypes'
  BY <1>2, <1>3, <1>11, TypeParts DEF BaseInv, HandlerTypes, process, Places
<1>13. QED  BY <1>4, <1>5, <1>10, <1>12 DEF ProcessInv

\* Steps that leave the handlers where they are.
LEMMA StartKeeps == ASSUME BaseInv, Start PROVE ProcessInv'
<1>1. HandlerTypes'
  BY TypeParts DEF BaseInv, HandlerTypes, Start
<1>2. RunInv'
  BY DEF BaseInv, RunInv, Start
<1>3. AttInv'
  BY DEF BaseInv, AttInv, Start, RunInv
<1>4. CountInv'
  BY CountKept DEF BaseInv, Start, InProgress
<1>5. QED  BY <1>1, <1>2, <1>3, <1>4 DEF ProcessInv

\* A registration changes no definition that is being deployed: its name was free.
LEMMA RegisterKeeps ==
  ASSUME BaseInv, NEW n \in Names, NEW d \in Defs, Register(n, d)
  PROVE  ProcessInv'
<1>1. HandlerTypes'
  BY TypeParts DEF BaseInv, HandlerTypes, Register
<1>2. RunInv'
  BY DEF BaseInv, RunInv, Register
<1>3. AttInv'
  BY DEF BaseInv, TypeOK, AttInv, Register
<1>4. CountInv'
  BY CountKept DEF BaseInv, Register, InProgress
<1>5. QED  BY <1>1, <1>2, <1>3, <1>4 DEF ProcessInv

\* A crash resets the process as a whole.
LEMMA CrashKeeps == ASSUME BaseInv, Crash PROVE ProcessInv'
<1>1. Idle \in Attempts
  BY DEF Idle, Attempts, Results, Trails
<1>2. /\ running' = FALSE /\ policy' = {} /\ deployer' = "none" /\ begun' = 0 /\ dropped' = 0
      /\ pc' = [g \in Handlers |-> "idle"] /\ att' = [g \in Handlers |-> Idle]
      /\ counted' = [r \in {"success", "failure"} |-> 0]
      /\ UNCHANGED <<reg, succeeded>>
  BY DEF Crash
<1>3. att' \in [Handlers -> Attempts] /\ pc' \in [Handlers -> Places]
      /\ counted' \in [{"success", "failure"} -> 0..MaxDeploys] /\ begun' \in 0..MaxDeploys
      /\ dropped' \in 0..MaxDeploys
  BY <1>1, <1>2 DEF Places
<1>4. HandlerTypes'
  BY <1>2, <1>3, TypeParts DEF BaseInv, HandlerTypes
<1>5. RunInv' /\ AttInv'
  BY <1>2 DEF BaseInv, RunInv, AttInv
<1>6. InProgress' = {}
  BY <1>2 DEF InProgress, Waiting
<1>7. CountInv'
  BY <1>2, <1>6, FS_EmptySet DEF CountInv, CountedOnce, InProgress
<1>8. QED  BY <1>4, <1>5, <1>7 DEF ProcessInv

-----------------------------------------------------------------------------
(* What a step does outside the process. *)

\* A patch that may still be executed.
InFlight(p) == p \in wire \/ \E h \in Handlers : p \in Pending(h)

\* Patches are left to themselves or get lost.
Spreads == /\ \A p \in wire' : InFlight(p)
           /\ UNCHANGED <<namespace, cluster, audit>>

\* One is executed.
Lands == /\ \E p : InFlight(p) /\ Execute(p)
         /\ wire' \subseteq wire
         /\ UNCHANGED <<reg, audit, succeeded>>

\* A record is uploaded.
Uploads == /\ \E h \in Handlers : /\ pc[h] = "audit"
                                  /\ audit' \in {audit, audit \cup {Record(att[h])}}
           /\ UNCHANGED <<reg, external, succeeded>>

\* What a step does outside of the process: it puts patches in flight on the wire,
\* lands one, or stores a record.
LEMMA OutsideSteps ==
  ASSUME [Next]_vars
  PROVE  Spreads \/ Lands \/ Uploads
<1>1. CASE UNCHANGED vars
  BY <1>1 DEF vars, external, Spreads, InFlight
<1>2. CASE Start
  BY <1>2 DEF Start, external, Spreads, InFlight
<1>3. CASE Crash
  BY <1>3 DEF Crash, Spreads, InFlight
<1>4. ASSUME NEW n \in Names, NEW d \in Defs, Register(n, d) PROVE Spreads
  BY <1>4 DEF Register, external, Spreads, InFlight
<1>5. ASSUME NEW h \in Handlers, NEW n \in Names, Begin(h, n) PROVE Spreads
  BY <1>5 DEF Begin, external, Spreads, InFlight
<1>6. ASSUME NEW h \in Handlers,
             Disconnect(h) \/ CannotSend(h) \/ Send(h) \/ Applied(h) \/ AllTried(h)
               \/ NoAudit(h) \/ NameTaken(h) \/ Answer(h) \/ Refuse(h) \/ Panic(h)
      PROVE  Spreads
  BY <1>6 DEF Disconnect, CannotSend, Send, Applied, AllTried, NoAudit, NameTaken, Answer, Refuse,
              Panic, external, Spreads, InFlight
<1>7. ASSUME NEW h \in Handlers, PatchFails(h) \/ Cancelled(h) PROVE Spreads
  BY <1>7 DEF PatchFails, Cancelled, Spreads, InFlight
<1>8. ASSUME NEW h \in Handlers, Audited(h) \/ AuditFails(h) PROVE Uploads
  BY <1>8 DEF Audited, AuditFails, Uploads, process
<1>9. ASSUME NEW h \in Handlers, Land(h) PROVE Lands
  BY <1>9 DEF Land, Lands, InFlight, process
<1>10. ASSUME NEW p \in Patches, LandLate(p) PROVE Lands
  BY <1>10 DEF LandLate, Lands, InFlight, process
<1>11. ASSUME NEW p \in Patches, Vanish(p) PROVE Spreads
  BY <1>11 DEF Vanish, Spreads, InFlight
<1>12. QED
  BY <1>1, <1>2, <1>3, <1>4, <1>5, <1>6, <1>7, <1>8, <1>9, <1>10, <1>11
     DEF Next, Local, Server

\* Every step keeps the invariant of the process.
LEMMA ProcessSteps ==
  ASSUME BaseInv, [Next]_vars
  PROVE  ProcessInv'
<1>1. CASE UNCHANGED <<process, pc, att, counted, begun, dropped, succeeded>>
  <2>1. InProgress' = InProgress
    BY <1>1 DEF InProgress
  <2>2. CountInv'
    BY <1>1, <2>1, CountKept DEF BaseInv
  <2>3. QED
    BY <1>1, <2>2, TypeParts
       DEF BaseInv, ProcessInv, HandlerTypes, RunInv, AttInv, process
<1>2. ASSUME NEW h \in Handlers, Moves(h) \/ Ends(h) PROVE ProcessInv'
  BY <1>2, MovesKeep, EndsKeep
<1>3. ASSUME NEW h \in Handlers, NEW n \in Names, Begin(h, n) PROVE ProcessInv'
  BY <1>3, BeginKeeps
<1>4. ASSUME NEW h \in Handlers, Answer(h) \/ Panic(h) PROVE ProcessInv'
  BY <1>4, AnswerKeeps, PanicKeeps
<1>5. ASSUME NEW h \in Handlers, Disconnect(h) \/ PatchFails(h) \/ CannotSend(h) \/ Send(h)
                \/ Applied(h) \/ AllTried(h) \/ Cancelled(h) \/ Audited(h) \/ AuditFails(h)
                \/ NameTaken(h) \/ NoAudit(h) \/ Land(h) \/ Refuse(h)
      PROVE  ProcessInv'
  BY <1>2, <1>5, MovesSteps, EndsSteps
<1>6. ASSUME NEW p \in Patches, LandLate(p) \/ Vanish(p) PROVE ProcessInv'
  BY <1>1, <1>6 DEF LandLate, Vanish
<1>7. ASSUME NEW n \in Names, NEW d \in Defs, Register(n, d) PROVE ProcessInv'
  BY <1>7, RegisterKeeps
<1>8. UNCHANGED vars => ProcessInv'
  BY <1>1 DEF vars
<1>9. QED
  BY <1>3, <1>4, <1>5, <1>6, <1>7, <1>8, StartKeeps, CrashKeeps DEF Next, Local, Server

-----------------------------------------------------------------------------
(* The types of what is outside. *)

\* What is in flight is a patch.
LEMMA PatchTypes ==
  ASSUME BaseInv, NEW p, InFlight(p)
  PROVE  p \in Patches
<1>1. CASE p \in wire
  BY <1>1 DEF BaseInv, TypeOK
<1>2. ASSUME NEW h \in Handlers, p \in Pending(h) PROVE p \in Patches
  <2> DEFINE n == att[h].name
             d == att[h].def
             i == att[h].next
  <2>1. pc[h] = "sent" /\ p = [name |-> n, def |-> d, kind |-> Bundle(n, d)[i]]
    BY <1>2 DEF Pending
  <2>2. n \in Names /\ d \in Defs /\ i \in 1..6 /\ i <= Len(Bundle(n, d))
    BY <2>1 DEF BaseInv, TypeOK, AttInv, Waiting, Attempts
  <2>3. Bundle(n, d)[i] \in Kinds \cup {"Namespace"}
    <3>1. i = 1 \/ i \in 2..Len(Bundle(n, d))
      BY <2>2, BundleShape
    <3>2. QED  BY <3>1, BundleShape
  <2> HIDE DEF n, d, i
  <2>4. QED  BY <2>1, <2>2, <2>3 DEF Patches
<1>3. QED  BY <1>1, <1>2 DEF InFlight

\* What is uploaded is a record.
LEMMA RecordTypes ==
  ASSUME BaseInv, NEW h \in Handlers, pc[h] = "audit"
  PROVE  Record(att[h]) \in Records
<1>1. /\ att[h].name \in Names /\ att[h].def \in Defs /\ att[h].result \in Results
      /\ att[h].next - 1 \in 0..5
  BY DEF BaseInv, TypeOK, AttInv, Attempts
<1>2. QED  BY <1>1 DEF Record, Records

\* A patch that lands keeps the types of the cluster.
LEMMA ExecuteTypes ==
  ASSUME ExternalTypes, NEW p \in Patches, Execute(p)
  PROVE  /\ namespace' \in BOOLEAN
         /\ cluster' \in [Names -> [Kinds -> Defs \cup {NoDef}]]
<1>1. CASE p.kind = "Namespace"
  BY <1>1 DEF Execute, ExternalTypes
<1>2. CASE p.kind # "Namespace"
  <2>1. p.name \in Names /\ p.kind \in Kinds /\ p.def \in Defs
    BY <1>2 DEF Patches
  <2>2. cluster' = [cluster EXCEPT ![p.name] = [cluster[p.name] EXCEPT ![p.kind] = p.def]]
    BY <1>2 DEF Execute
  <2>3. QED  BY <1>2, <2>1, <2>2 DEF Execute, ExternalTypes
<1>3. QED  BY <1>1, <1>2

\* Every step keeps the types of the world outside.
LEMMA ExternalSteps ==
  ASSUME BaseInv, [Next]_vars
  PROVE  ExternalTypes'
<1>1. ExternalTypes
  BY BaseParts
<1>2. CASE Spreads
  BY <1>1, <1>2, PatchTypes DEF Spreads, ExternalTypes
<1>3. CASE Lands
  <2>1. PICK p : InFlight(p) /\ Execute(p)
    BY <1>3 DEF Lands
  <2>2. p \in Patches
    BY <2>1, PatchTypes
  <2>3. QED  BY <1>1, <1>3, <2>1, <2>2, ExecuteTypes DEF Lands, ExternalTypes
<1>4. CASE Uploads
  BY <1>1, <1>4, RecordTypes DEF Uploads, ExternalTypes, external
<1>5. QED  BY <1>2, <1>3, <1>4, OutsideSteps

\* Every step keeps BaseInv.
LEMMA BaseStep == BaseInv /\ [Next]_vars => BaseInv'
<1> SUFFICES ASSUME BaseInv, [Next]_vars PROVE BaseInv'
  OBVIOUS
<1>1. ProcessInv' /\ ExternalTypes'
  BY ProcessSteps, ExternalSteps
<1>2. TypeOK'
  BY <1>1 DEF ProcessInv, TypeOK, HandlerTypes, ExternalTypes, Places
<1>3. QED  BY <1>1, <1>2 DEF BaseInv, ProcessInv

\* BaseInv always holds.
LEMMA BaseHolds == Spec => []BaseInv
<1>1. QED  BY TypesInit, BaseStep, PTL DEF Spec

\* A busy handler deploys what is registered, and one that waits for the answer to a
\* patch waits for an object of its bundle: no list of objects is overrun, although
\* kubectl goes on after errors.
InBundle == \A h \in Handlers : pc[h] # "idle" =>
              /\ att[h].def = reg[att[h].name] /\ att[h].def # NoDef
              /\ pc[h] \in Waiting => att[h].next \in 1..Len(Bundle(att[h].name, att[h].def))

\* Every variable keeps its type, no counter exceeds the deployments begun, and no
\* handler waits for an object outside the bundle of what is registered.
\* (clientgo_deployer.go:50-76, server.go:160-229)
THEOREM TypeCorrect == Spec => [](TypeOK /\ InBundle)
<1>1. BaseInv => TypeOK
  BY DEF BaseInv
<1>2. BaseInv => InBundle
  <2> SUFFICES ASSUME BaseInv, NEW h \in Handlers, pc[h] # "idle"
               PROVE  /\ att[h].def = reg[att[h].name] /\ att[h].def # NoDef
                      /\ pc[h] \in Waiting => att[h].next \in 1..Len(Bundle(att[h].name, att[h].def))
    BY DEF InBundle
  <2>1. att[h].def = reg[att[h].name] /\ att[h].def # NoDef
    BY DEF BaseInv, AttInv
  <2>2. pc[h] \in Waiting => att[h].next <= Len(Bundle(att[h].name, att[h].def))
    BY DEF BaseInv, AttInv
  <2>3. att[h].next \in 1..6
    BY DEF BaseInv, TypeOK, Attempts
  <2>4. Len(Bundle(att[h].name, att[h].def)) \in 3..5
    BY BundleShape
  <2>5. QED  BY <2>1, <2>2, <2>3, <2>4
<1>3. QED  BY <1>1, <1>2, BaseHolds, PTL

\* Every deployment is counted once, on whichever of its paths it ends, unless it
\* panics, which leaves it uncounted.  (server.go:160-229, clientgo_deployer.go:56)
THEOREM EachCountedOnce == Spec => []CountedOnce
<1>1. BaseInv => CountedOnce
  BY DEF BaseInv, CountInv
<1>2. QED  BY <1>1, BaseHolds, PTL

-----------------------------------------------------------------------------
(* What is in the cluster, on its way there or recorded is what is registered. *)

KeepInv == /\ \A n \in Names, k \in Kinds : cluster[n][k] \in {NoDef, reg[n]}
           /\ \A p \in wire : reg[p.name] = p.def
           /\ \A s \in succeeded : reg[s[1]] = s[2]
           /\ \A r \in audit : reg[r.name] = r.def

\* A name that is registered stays what it is.
LEMMA RegGrows ==
  ASSUME BaseInv, [Next]_vars
  PROVE  \A n \in Names : reg[n] # NoDef => reg'[n] = reg[n]
<1>1. reg \in [Names -> Defs \cup {NoDef}]
  BY DEF BaseInv, TypeOK
<1>2. CASE UNCHANGED reg
  BY <1>2
<1>3. ASSUME NEW m \in Names, NEW d \in Defs, Register(m, d)
      PROVE  \A n \in Names : reg[n] # NoDef => reg'[n] = reg[n]
  BY <1>1, <1>3 DEF Register
<1>4. UNCHANGED reg \/ \E m \in Names, d \in Defs : Register(m, d)
  BY DEF Next, vars, process, Start, Crash, Begin, Disconnect, PatchFails, CannotSend, Panic, Local, Server,
         Send, Applied, AllTried, Cancelled, Audited, AuditFails, NameTaken, NoAudit, Answer, Land, Refuse,
         LandLate, Vanish
<1>5. QED  BY <1>2, <1>3, <1>4

\* Every patch in flight carries what is registered.
LEMMA FlightKeeps ==
  ASSUME BaseInv, KeepInv, NEW p, InFlight(p)
  PROVE  reg[p.name] = p.def /\ p.def # NoDef
<1>1. p \in Patches
  BY PatchTypes
<1>2. p.def \in Defs
  BY <1>1 DEF Patches
<1>3. CASE p \in wire
  BY <1>2, <1>3 DEF KeepInv
<1>4. ASSUME NEW h \in Handlers, p \in Pending(h) PROVE reg[p.name] = p.def
  BY <1>4 DEF Pending, BaseInv, AttInv
<1>5. QED  BY <1>2, <1>3, <1>4 DEF InFlight

\* An object that is there as registered stays there.
LEMMA ClusterKeeps ==
  ASSUME BaseInv, KeepInv, [Next]_vars, NEW n \in Names, reg[n] # NoDef,
         NEW k \in Kinds \cup {"Namespace"}, InCluster(n, reg[n], k)
  PROVE  InCluster(n, reg[n], k)'
<1>1. reg'[n] = reg[n]
  BY RegGrows
<1>2. CASE UNCHANGED <<namespace, cluster>>
  BY <1>1, <1>2 DEF InCluster
<1>3. ASSUME NEW p, InFlight(p), Execute(p) PROVE InCluster(n, reg[n], k)'
  <2>1. p \in Patches /\ reg[p.name] = p.def
    BY <1>3, PatchTypes, FlightKeeps
  <2>2. CASE p.kind = "Namespace"
    BY <1>1, <1>3, <2>2 DEF Execute, InCluster
  <2>3. CASE p.kind # "Namespace"
    <3>1. p.name \in Names /\ p.kind \in Kinds
      BY <2>1, <2>3 DEF Patches
    <3>2. /\ cluster' = [cluster EXCEPT ![p.name] = [cluster[p.name] EXCEPT ![p.kind] = p.def]]
          /\ namespace' = namespace
      BY <1>3, <2>3 DEF Execute
    <3>3. CASE k = "Namespace"
      BY <3>2, <3>3 DEF InCluster
    <3>4. CASE k # "Namespace"
      <4>1. cluster'[n][k] = reg[n]
        BY <2>1, <3>1, <3>2, <3>4 DEF InCluster, BaseInv, TypeOK
      <4>2. QED  BY <1>1, <3>4, <4>1 DEF InCluster
    <3>5. QED  BY <3>3, <3>4
  <2>4. QED  BY <2>2, <2>3
<1>4. Spreads \/ Uploads => UNCHANGED <<namespace, cluster>>
  BY DEF Spreads, Uploads, external
<1>5. QED  BY <1>2, <1>3, <1>4, OutsideSteps DEF Lands

\* Only a handler that deploys it reports a service as applied.
LEMMA SucceededGrows ==
  ASSUME BaseInv, [Next]_vars, NEW s \in succeeded', s \notin succeeded
  PROVE  \E h \in Handlers : /\ AllTried(h) /\ ~att[h].erred
                             /\ s = <<att[h].name, att[h].def>>
<1>1. CASE UNCHANGED succeeded
  BY <1>1
<1>2. ASSUME NEW h \in Handlers, PatchFails(h) \/ CannotSend(h) \/ Cancelled(h) PROVE UNCHANGED succeeded
  BY <1>2 DEF PatchFails, CannotSend, Cancelled, Finish
<1>3. ASSUME NEW h \in Handlers, NEW n \in Names, Begin(h, n) PROVE UNCHANGED succeeded
  BY <1>3, BeginEffect DEF BaseInv
<1>4. ASSUME NEW h \in Handlers, AllTried(h)
      PROVE  UNCHANGED succeeded \/ (~att[h].erred /\ s = <<att[h].name, att[h].def>>)
  BY <1>4 DEF AllTried, Finish
<1>5. \/ UNCHANGED succeeded
      \/ \E h \in Handlers : PatchFails(h) \/ CannotSend(h) \/ Cancelled(h) \/ AllTried(h)
      \/ \E h \in Handlers, n \in Names : Begin(h, n)
  BY DEF Next, vars, Start, Crash, Register, Disconnect, Panic, Local, Server, Send, Applied,
         Audited, AuditFails, NameTaken, NoAudit, Answer, Land, Refuse, LandLate, Vanish
<1>6. QED  BY <1>1, <1>2, <1>3, <1>4, <1>5

\* What the cluster has of a service is what is registered under its name, for good.
LEMMA KeepStep == BaseInv /\ KeepInv /\ [Next]_vars => KeepInv'
<1> SUFFICES ASSUME BaseInv, KeepInv, [Next]_vars PROVE KeepInv'
  OBVIOUS
<1>1. BaseInv'
  BY BaseStep
<1>2. \A n \in Names : reg[n] # NoDef => reg'[n] = reg[n]
  BY RegGrows
<1>3. \A p : InFlight(p) => p \in Patches /\ p.name \in Names /\ reg[p.name] # NoDef /\ reg'[p.name] = p.def
  BY <1>2, PatchTypes, FlightKeeps DEF Patches
<1>4. \A n \in Names, k \in Kinds : cluster'[n][k] \in {NoDef, reg'[n]}
  <2> SUFFICES ASSUME NEW n \in Names, NEW k \in Kinds PROVE cluster'[n][k] \in {NoDef, reg'[n]}
    OBVIOUS
  <2>1. CASE cluster'[n][k] = cluster[n][k]
    BY <1>2, <2>1 DEF KeepInv
  <2>2. ASSUME NEW p, InFlight(p), Execute(p) PROVE cluster'[n][k] \in {cluster[n][k], reg'[n]}
    <3>1. CASE p.kind = "Namespace"
      BY <2>2, <3>1 DEF Execute
    <3>2. CASE p.kind # "Namespace"
      <4>1. p.name \in Names /\ p.kind \in Kinds /\ reg'[p.name] = p.def
        BY <1>3, <2>2, <3>2 DEF Patches
      <4>2. cluster' = [cluster EXCEPT ![p.name] = [cluster[p.name] EXCEPT ![p.kind] = p.def]]
        BY <2>2, <3>2 DEF Execute
      <4>3. QED  BY <4>1, <4>2 DEF BaseInv, TypeOK
    <3>3. QED  BY <3>1, <3>2
  <2>3. Spreads \/ Uploads => UNCHANGED cluster
    BY DEF Spreads, Uploads, external
  <2>4. QED  BY <2>1, <2>2, <2>3, OutsideSteps DEF Lands
<1>5. \A p \in wire' : reg'[p.name] = p.def
  <2>1. \A p \in wire' : InFlight(p)
    BY OutsideSteps DEF Spreads, Lands, Uploads, external, InFlight
  <2>2. QED  BY <1>3, <2>1
<1>6. \A s \in succeeded' : reg'[s[1]] = s[2]
  <2> SUFFICES ASSUME NEW s \in succeeded' PROVE reg'[s[1]] = s[2]
    OBVIOUS
  <2>1. CASE s \in succeeded
    <3>1. s[1] \in Names /\ s[2] \in Defs
      BY <2>1 DEF BaseInv, TypeOK
    <3>2. QED  BY <1>2, <2>1, <3>1 DEF KeepInv
  <2>2. CASE s \notin succeeded
    <3>1. PICK h \in Handlers : AllTried(h) /\ s = <<att[h].name, att[h].def>>
      BY <2>2, SucceededGrows
    <3>2. att[h].name \in Names /\ att[h].def \in Defs /\ att[h].def = reg[att[h].name]
      BY <3>1 DEF AllTried, BaseInv, AttInv
    <3>3. QED  BY <1>2, <3>1, <3>2
  <2>3. QED  BY <2>1, <2>2
<1>7. \A r \in audit' : reg'[r.name] = r.def
  <2>1. \A r \in audit : r.name \in Names /\ r.def \in Defs
    BY DEF BaseInv, TypeOK, Records
  <2>2. ASSUME NEW h \in Handlers, pc[h] = "audit"
        PROVE  reg'[Record(att[h]).name] = Record(att[h]).def
    <3>1. att[h].name \in Names /\ att[h].def \in Defs /\ att[h].def = reg[att[h].name]
      BY <2>2 DEF BaseInv, AttInv
    <3>2. QED  BY <1>2, <3>1 DEF Record
  <2>3. \A r \in audit : reg'[r.name] = r.def
    BY <1>2, <2>1 DEF KeepInv
  <2>4. QED  BY <2>2, <2>3, OutsideSteps DEF Spreads, Lands, Uploads
<1>8. QED  BY <1>4, <1>5, <1>6, <1>7 DEF KeepInv

-----------------------------------------------------------------------------
(* How far a deployment is. *)

\* The objects a deployment without errors has counted are in the cluster, and so
\* is the one whose patch landed; only kubectl goes on after an error.
Progress(h) == 
  LET n == att[h].name  d == att[h].def  i == att[h].next
  IN  /\ i <= Len(Bundle(n, d)) + 1
      /\ att[h].erred => deployer = "kubectl"
      /\ ~att[h].erred => UpTo(n, d, i - 1)
      /\ pc[h] = "landed" => InCluster(n, d, Bundle(n, d)[i])
      /\ pc[h] \in {"audit", "answer"} /\ att[h].result = "success" => <<n, d>> \in succeeded

ProgressInv == \A h \in Handlers : pc[h] # "idle" => Progress(h)

\* An object of a bundle has a kind.
LEMMA BundleKinds ==
  ASSUME NEW n, NEW d, NEW i \in 1..Len(Bundle(n, d))
  PROVE  Bundle(n, d)[i] \in Kinds \cup {"Namespace"}
<1>1. i = 1 \/ i \in 2..Len(Bundle(n, d))
  BY BundleShape
<1>2. QED  BY <1>1, BundleShape

\* What is complete up to some object stays so.
LEMMA UpToKeeps ==
  ASSUME BaseInv, KeepInv, [Next]_vars, NEW n \in Names, NEW d, reg[n] = d, d # NoDef,
         NEW j \in 0..Len(Bundle(n, d)), UpTo(n, d, j)
  PROVE  UpTo(n, d, j)'
<1> SUFFICES ASSUME NEW i \in 1..j PROVE InCluster(n, d, Bundle(n, d)[i])'
  BY DEF UpTo
<1>1. i \in 1..Len(Bundle(n, d))
  BY BundleShape
<1>2. PICK k \in Kinds \cup {"Namespace"} : k = Bundle(n, d)[i]
  BY <1>1, BundleKinds
<1>3. InCluster(n, reg[n], k)
  BY <1>2 DEF UpTo
<1>4. InCluster(n, reg[n], k)' /\ reg'[n] = d
  BY <1>3, ClusterKeeps, RegGrows
<1>5. QED  BY <1>2, <1>4 DEF InCluster

\* What a busy handler deploys, for short.
LEMMA BusyFacts ==
  ASSUME BaseInv, NEW h \in Handlers, pc[h] # "idle"
  PROVE  /\ att[h].name \in Names /\ att[h].def \in Defs /\ att[h].def # NoDef
         /\ reg[att[h].name] = att[h].def
         /\ att[h].next \in Nat /\ att[h].next >= 1
         /\ att[h].erred \in BOOLEAN
BY DEF BaseInv, TypeOK, AttInv, Attempts

\* The deployment of a busy handler, by constants that stand for its fields.
LEMMA BusyDeployment ==
  ASSUME BaseInv, ProgressInv, NEW h \in Handlers, pc[h] # "idle"
  PROVE  \E n \in Names, d \in Defs, i \in Nat :
           /\ n = att[h].name /\ d = att[h].def /\ i = att[h].next
           /\ reg[n] = d /\ d # NoDef /\ i >= 1 /\ i - 1 \in 0..Len(Bundle(n, d))
           /\ att[h].erred => deployer = "kubectl"
           /\ ~att[h].erred => UpTo(n, d, i - 1)
           /\ pc[h] = "landed" => InCluster(n, d, Bundle(n, d)[i])
           /\ pc[h] \in {"audit", "answer"} /\ att[h].result = "success" => <<n, d>> \in succeeded
<1>1. PICK n \in Names, d \in Defs, i \in Nat : n = att[h].name /\ d = att[h].def /\ i = att[h].next
  BY BusyFacts
<1>2. reg[n] = d /\ d # NoDef /\ i >= 1
  BY <1>1, BusyFacts
<1>3. /\ i <= Len(Bundle(n, d)) + 1
      /\ att[h].erred => deployer = "kubectl"
      /\ ~att[h].erred => UpTo(n, d, i - 1)
      /\ pc[h] = "landed" => InCluster(n, d, Bundle(n, d)[i])
      /\ pc[h] \in {"audit", "answer"} /\ att[h].result = "success" => <<n, d>> \in succeeded
  BY <1>1 DEF ProgressInv, Progress
<1>4. i - 1 \in 0..Len(Bundle(n, d))
  BY <1>2, <1>3, BundleShape
<1>5. QED  BY <1>1, <1>2, <1>3, <1>4

\* A deployment that is as far as it was keeps its progress.
LEMMA ProgressKept ==
  ASSUME BaseInv, KeepInv, ProgressInv, [Next]_vars, NEW h \in Handlers, pc[h] # "idle",
         att'[h].name = att[h].name, att'[h].def = att[h].def, att'[h].next = att[h].next,
         att'[h].erred = att[h].erred, att[h].erred => deployer' = deployer,
         pc'[h] = "landed" => pc[h] = "landed",
         pc'[h] \in {"audit", "answer"} /\ att'[h].result = "success" 
           => <<att[h].name, att[h].def>> \in succeeded'
  PROVE  Progress(h)'
<1>1. PICK n \in Names, d \in Defs, i \in Nat :
        /\ n = att[h].name /\ d = att[h].def /\ i = att[h].next
        /\ reg[n] = d /\ d # NoDef /\ i >= 1 /\ i - 1 \in 0..Len(Bundle(n, d))
        /\ att[h].erred => deployer = "kubectl"
        /\ ~att[h].erred => UpTo(n, d, i - 1)
        /\ pc[h] = "landed" => InCluster(n, d, Bundle(n, d)[i])
  BY BusyDeployment
<1>2. n = att'[h].name /\ d = att'[h].def /\ i = att'[h].next
  BY <1>1
<1>3. i <= Len(Bundle(n, d)) + 1
  BY <1>1, BundleShape
<1>4. ~att'[h].erred => UpTo(n, d, i - 1)'
  BY <1>1, UpToKeeps
<1>5. pc'[h] = "landed" => InCluster(n, d, Bundle(n, d)[i])'
  <2>1. pc[h] = "landed" => i \in 1..Len(Bundle(n, d))
    BY <1>1, BundleShape DEF BaseInv, AttInv, Waiting
  <2>2. PICK k : k = Bundle(n, d)[i]
    OBVIOUS
  <2>3. pc[h] = "landed" => k \in Kinds \cup {"Namespace"} /\ InCluster(n, reg[n], k)
    BY <1>1, <2>1, <2>2, BundleKinds
  <2>4. pc[h] = "landed" => InCluster(n, reg[n], k)' /\ reg'[n] = d
    BY <1>1, <2>3, ClusterKeeps, RegGrows
  <2>5. QED  BY <2>2, <2>4 DEF InCluster
<1>6. att'[h].erred => deployer' = "kubectl"
  BY <1>1
<1>7. QED  BY <1>2, <1>3, <1>4, <1>5, <1>6 DEF Progress

\* What was reported stays reported.
LEMMA SucceededKept ==
  ASSUME BaseInv, [Next]_vars
  PROVE  succeeded \subseteq succeeded'
<1>1. ASSUME NEW h \in Handlers, PatchFails(h) \/ CannotSend(h) \/ Cancelled(h) \/ AllTried(h)
      PROVE  succeeded \subseteq succeeded'
  BY <1>1 DEF PatchFails, CannotSend, Cancelled, AllTried, Finish
<1>2. ASSUME NEW h \in Handlers, NEW n \in Names, Begin(h, n) PROVE UNCHANGED succeeded
  BY <1>2, BeginEffect DEF BaseInv
<1>3. \/ UNCHANGED succeeded
      \/ \E h \in Handlers : PatchFails(h) \/ CannotSend(h) \/ Cancelled(h) \/ AllTried(h)
      \/ \E h \in Handlers, n \in Names : Begin(h, n)
  BY DEF Next, vars, Start, Crash, Register, Disconnect, Panic, Local, Server, Send, Applied,
         Audited, AuditFails, NameTaken, NoAudit, Answer, Land, Refuse, LandLate, Vanish
<1>4. QED  BY <1>1, <1>2, <1>3

\* One more object of a deployment has been applied.
LEMMA AppliedProgress ==
  ASSUME BaseInv, KeepInv, ProgressInv, [Next]_vars, NEW h \in Handlers, Applied(h)
  PROVE  Progress(h)'
<1>1. PICK n \in Names, d \in Defs, i \in Nat :
        /\ n = att[h].name /\ d = att[h].def /\ i = att[h].next
        /\ reg[n] = d /\ d # NoDef /\ i >= 1 /\ i - 1 \in 0..Len(Bundle(n, d))
        /\ att[h].erred => deployer = "kubectl"
        /\ ~att[h].erred => UpTo(n, d, i - 1)
        /\ pc[h] = "landed" => InCluster(n, d, Bundle(n, d)[i])
  BY BusyDeployment DEF Applied
<1>2. /\ pc[h] = "landed" /\ UNCHANGED <<deployer, cluster, namespace>>
      /\ Step(h, "apply", [att[h] EXCEPT !.next = @ + 1])
  BY DEF Applied, process, external
<1>3. pc'[h] = "apply" /\ att'[h] = [att[h] EXCEPT !.next = @ + 1]
  BY <1>2 DEF Step, BaseInv, TypeOK
<1>4. att'[h].name = n /\ att'[h].def = d /\ att'[h].next = i + 1 /\ att'[h].erred = att[h].erred
  BY <1>1, <1>3 DEF BaseInv, TypeOK, Attempts
<1>5. i \in 1..Len(Bundle(n, d))
  BY <1>1, <1>2, BundleShape DEF BaseInv, AttInv, Waiting
<1>6. ~att[h].erred => UpTo(n, d, i)
  <2>1. \A k \in 1..i : k \in 1..(i - 1) \/ k = i
    BY <1>1
  <2>2. QED  BY <1>1, <1>2, <2>1 DEF UpTo
<1>7. ~att'[h].erred => UpTo(n, d, (i + 1) - 1)'
  BY <1>1, <1>2, <1>4, <1>6 DEF UpTo, InCluster
<1>8. i + 1 <= Len(Bundle(n, d)) + 1
  BY <1>5, BundleShape
<1>9. QED  BY <1>1, <1>2, <1>3, <1>4, <1>7, <1>8 DEF Progress

\* A patch that is awaited is executed.
LEMMA LandProgress ==
  ASSUME BaseInv, KeepInv, ProgressInv, [Next]_vars, NEW h \in Handlers, Land(h)
  PROVE  Progress(h)'
<1>1. pc[h] = "sent" /\ pc'[h] = "landed" /\ att' = att /\ UNCHANGED <<deployer, reg, succeeded>>
  BY DEF Land, Pending, BaseInv, TypeOK, process
<1>2. PICK n \in Names, d \in Defs, i \in Nat :
        /\ n = att[h].name /\ d = att[h].def /\ i = att[h].next
        /\ reg[n] = d /\ d # NoDef /\ i >= 1 /\ i - 1 \in 0..Len(Bundle(n, d))
        /\ att[h].erred => deployer = "kubectl"
        /\ ~att[h].erred => UpTo(n, d, i - 1)
  BY <1>1, BusyDeployment
<1>3. i \in 1..Len(Bundle(n, d))
  BY <1>1, <1>2, BundleShape DEF BaseInv, AttInv, Waiting
<1>4. PICK k : k = Bundle(n, d)[i]
  OBVIOUS
<1>5. k \in Kinds \cup {"Namespace"}
  BY <1>3, <1>4, BundleKinds
<1>6. PICK p : p = [name |-> n, def |-> d, kind |-> k] /\ Execute(p)
  BY <1>1, <1>2, <1>4 DEF Land, Pending
<1>7. InCluster(n, d, k)'
  <2>1. p.name = n /\ p.def = d /\ p.kind = k
    BY <1>6
  <2>2. CASE k = "Namespace"
    BY <1>6, <2>1, <2>2 DEF Execute, InCluster
  <2>3. CASE k # "Namespace"
    <3>1. cluster' = [cluster EXCEPT ![n] = [cluster[n] EXCEPT ![k] = d]]
      BY <1>6, <2>1, <2>3 DEF Execute
    <3>2. cluster'[n][k] = d
      BY <1>5, <2>3, <3>1 DEF BaseInv, TypeOK
    <3>3. QED  BY <2>3, <3>2 DEF InCluster
  <2>4. QED  BY <2>2, <2>3
<1>8. ~att[h].erred => UpTo(n, d, i - 1)'
  BY <1>2, UpToKeeps
<1>9. i <= Len(Bundle(n, d)) + 1
  BY <1>3, BundleShape
<1>10. QED  BY <1>1, <1>2, <1>4, <1>7, <1>8, <1>9 DEF Progress

\* What a handler counts as applied is in the cluster.
LEMMA ProgressStep == BaseInv /\ KeepInv /\ ProgressInv /\ [Next]_vars => ProgressInv'
<1> SUFFICES ASSUME BaseInv, KeepInv, ProgressInv, [Next]_vars PROVE ProgressInv'
  OBVIOUS
<1> USE DEF process
<1>1. succeeded \subseteq succeeded'
  BY SucceededKept
<1>2. ASSUME NEW g \in Handlers, pc[g] # "idle", pc'[g] = pc[g], att'[g] = att[g], deployer' = deployer
      PROVE  Progress(g)'
  BY <1>1, <1>2, ProgressKept DEF ProgressInv, Progress
<1>3. CASE UNCHANGED <<pc, att, deployer>>
  BY <1>2, <1>3 DEF ProgressInv
<1>4. CASE Start \/ Crash
  BY <1>4 DEF Start, Crash, ProgressInv, BaseInv, RunInv
<1>5. ASSUME NEW h \in Handlers, UNCHANGED deployer, pc'[h] # "idle" => Progress(h)',
             \A g \in Handlers : g # h => pc'[g] = pc[g] /\ att'[g] = att[g]
      PROVE  ProgressInv'
  BY <1>2, <1>5 DEF ProgressInv
<1>6. ASSUME NEW h \in Handlers, NEW n \in Names, Begin(h, n) PROVE ProgressInv'
  <2>1. /\ att'[h].name = n /\ att'[h].def = reg[n] /\ att'[h].next = 1 /\ att'[h].erred = FALSE
        /\ \A g \in Handlers : g # h => pc'[g] = pc[g] /\ att'[g] = att[g]
        /\ pc'[h] # "apply" => att'[h].result = "failure"
    BY <1>6, BeginEffect DEF BaseInv
  <2>2. pc'[h] \in {"apply", "audit", "answer"}
    <3>1. \E l \in {"apply", "audit", "answer"} : pc' = [pc EXCEPT ![h] = l]
      BY <1>6, BeginEffect DEF BaseInv
    <3>2. pc \in [Handlers -> Places]
      BY DEF BaseInv, TypeOK, Places
    <3>3. QED  BY <3>1, <3>2
  <2>3. PICK d : d = reg[n]
    OBVIOUS
  <2>4. UpTo(n, d, 1 - 1)'
    BY DEF UpTo
  <2>5. 1 <= Len(Bundle(n, d)) + 1
    BY BundleShape
  <2>6. Progress(h)'
    BY <2>1, <2>3, <2>4, <2>5, <2>2 DEF Progress
  <2>7. QED  BY <1>5, <1>6, <2>1, <2>6 DEF Begin
<1>7. ASSUME NEW h \in Handlers, Ends(h) PROVE ProgressInv'
  <2>1. PICK r \in {"success", "failure"} : Finish(h, att[h], r)
    BY <1>7 DEF Ends
  <2>2. /\ pc'[h] = "audit"
        /\ att'[h].name = att[h].name /\ att'[h].def = att[h].def /\ att'[h].next = att[h].next
        /\ att'[h].erred = att[h].erred /\ att'[h].result = r
        /\ \A g \in Handlers : g # h => pc'[g] = pc[g] /\ att'[g] = att[g]
    BY <2>1, FinishEffect DEF BaseInv, TypeOK
  <2>3. r = "success" => <<att[h].name, att[h].def>> \in succeeded'
    BY <2>1 DEF Finish
  <2>4. pc[h] # "idle" /\ UNCHANGED deployer
    BY <1>7 DEF Ends, Underway, Waiting
  <2>5. Progress(h)'
    BY <2>2, <2>3, <2>4, ProgressKept DEF ProgressInv
  <2>6. QED  BY <1>5, <2>2, <2>4, <2>5
<1>8. ASSUME NEW h \in Handlers, NEW l, Step(h, l, att[h]), pc[h] # "idle", UNCHANGED deployer,
             l = "landed" => pc[h] = "landed",
             l \in {"audit", "answer"} => pc[h] \in {"audit", "answer"}
      PROVE  ProgressInv'
  <2>1. att' = att /\ pc' = [pc EXCEPT ![h] = l] /\ pc'[h] = l
    BY <1>8 DEF Step, BaseInv, TypeOK
  <2>2. pc'[h] \in {"audit", "answer"} /\ att[h].result = "success" 
          => <<att[h].name, att[h].def>> \in succeeded'
    BY <1>1, <1>8, <2>1 DEF ProgressInv, Progress
  <2>3. Progress(h)'
    BY <1>8, <2>1, <2>2, ProgressKept DEF ProgressInv
  <2>4. QED  BY <1>5, <1>8, <2>1, <2>3
<1>9. ASSUME NEW h \in Handlers, Send(h) \/ AuditFails(h) \/ NoAudit(h) PROVE ProgressInv'
  BY <1>8, <1>9 DEF Send, AuditFails, NoAudit
<1>10. ASSUME NEW h \in Handlers, Refuse(h) PROVE ProgressInv'
  <2>1. pc[h] = "sent" /\ Step(h, "refused", att[h]) /\ UNCHANGED deployer
    BY <1>10 DEF Refuse, Step, BaseInv, TypeOK
  <2>2. QED  BY <1>8, <2>1
<1>11. ASSUME NEW h \in Handlers, Answer(h) \/ Panic(h) PROVE ProgressInv'
  <2>1. pc' = [pc EXCEPT ![h] = "idle"] /\ att' = [att EXCEPT ![h] = Idle] /\ UNCHANGED deployer
    BY <1>11 DEF Answer, Panic, Step
  <2>2. pc'[h] = "idle" /\ \A g \in Handlers : g # h => pc'[g] = pc[g] /\ att'[g] = att[g]
    BY <2>1 DEF BaseInv, TypeOK
  <2>3. QED  BY <1>5, <2>1, <2>2
<1>12. ASSUME NEW h \in Handlers, Disconnect(h) PROVE ProgressInv'
  <2>1. /\ pc[h] # "idle" /\ pc' = pc /\ UNCHANGED deployer
        /\ att' = [att EXCEPT ![h] = [att[h] EXCEPT !.gone = TRUE]]
    BY <1>12 DEF Disconnect
  <2>2. /\ att'[h] = [att[h] EXCEPT !.gone = TRUE]
        /\ \A g \in Handlers : g # h => att'[g] = att[g]
    BY <2>1 DEF BaseInv, TypeOK
  <2>3. /\ att'[h].name = att[h].name /\ att'[h].def = att[h].def /\ att'[h].next = att[h].next
        /\ att'[h].erred = att[h].erred /\ att'[h].result = att[h].result
    BY <2>2 DEF BaseInv, TypeOK, Attempts
  <2>4. Progress(h)'
    BY <1>1, <2>1, <2>3, ProgressKept DEF ProgressInv, Progress
  <2>5. QED  BY <1>5, <2>1, <2>2, <2>4
<1>13. ASSUME NEW h \in Handlers, Audited(h) \/ NameTaken(h) PROVE ProgressInv'
  <2>1. PICK v \in {"stored", "taken"} :
          /\ pc[h] = "audit" /\ pc' = [pc EXCEPT ![h] = "answer"] /\ UNCHANGED deployer
          /\ att' = [att EXCEPT ![h] = [att[h] EXCEPT !.audited = v]]
    BY <1>13 DEF Audited, NameTaken, Step
  <2>2. /\ att'[h] = [att[h] EXCEPT !.audited = v] /\ pc'[h] = "answer"
        /\ \A g \in Handlers : g # h => att'[g] = att[g] /\ pc'[g] = pc[g]
    BY <2>1 DEF BaseInv, TypeOK
  <2>3. /\ att'[h].name = att[h].name /\ att'[h].def = att[h].def /\ att'[h].next = att[h].next
        /\ att'[h].erred = att[h].erred /\ att'[h].result = att[h].result
    BY <2>2 DEF BaseInv, TypeOK, Attempts
  <2>4. Progress(h)'
    BY <1>1, <2>1, <2>2, <2>3, ProgressKept DEF ProgressInv, Progress
  <2>5. QED  BY <1>5, <2>1, <2>2, <2>4
<1>14. ASSUME NEW h \in Handlers, Applied(h) \/ Land(h) PROVE ProgressInv'
  <2>1. Progress(h)'
    BY <1>14, AppliedProgress, LandProgress
  <2>2. /\ UNCHANGED deployer
        /\ \A g \in Handlers : g # h => att'[g] = att[g] /\ pc'[g] = pc[g]
    BY <1>14 DEF Applied, Land, Step, BaseInv, TypeOK
  <2>3. QED  BY <1>5, <2>1, <2>2
<1>15. ASSUME NEW h \in Handlers, PatchFails(h) PROVE ProgressInv'
  <2> DEFINE b == [att[h] EXCEPT !.next = @ + 1, !.erred = TRUE]
  <2>1. CASE GoesOn(h) /\ Step(h, "apply", b)
    <3>1. pc[h] \in Waiting /\ pc[h] # "idle" /\ UNCHANGED deployer
      BY <1>15 DEF PatchFails, Waiting
    <3>2. /\ att'[h] = b /\ pc'[h] = "apply"
          /\ \A g \in Handlers : g # h => att'[g] = att[g] /\ pc'[g] = pc[g]
      BY <2>1 DEF Step, BaseInv, TypeOK
    <3>3. b.name = att[h].name /\ b.def = att[h].def /\ b.next = att[h].next + 1
      BY DEF BaseInv, TypeOK, Attempts
    <3>4. b.erred = TRUE
      BY DEF BaseInv, TypeOK, Attempts
    <3> HIDE DEF b
    <3>5. PICK n \in Names, d \in Defs, i \in Nat : n = att[h].name /\ d = att[h].def /\ i = att[h].next
      BY <3>1, BusyFacts
    <3>6. i <= Len(Bundle(n, d))
      BY <3>1, <3>5 DEF BaseInv, AttInv, Waiting
    <3>7. i + 1 <= Len(Bundle(n, d)) + 1
      BY <3>5, <3>6, BundleShape
    <3>8. deployer' = "kubectl"
      BY <2>1, <3>1 DEF GoesOn
    <3>9. att'[h].name = n /\ att'[h].def = d /\ att'[h].next = i + 1 /\ att'[h].erred
      BY <3>2, <3>3, <3>4, <3>5
    <3>10. Progress(h)'
      BY <3>2, <3>7, <3>8, <3>9 DEF Progress
    <3>11. QED  BY <1>5, <3>1, <3>2, <3>10
  <2>2. CASE Finish(h, att[h], "failure")
    BY <1>7, <1>15, <2>2 DEF PatchFails, Ends, Underway
  <2>3. QED  BY <1>15, <2>1, <2>2 DEF PatchFails
<1>16. ASSUME NEW h \in Handlers, CannotSend(h) \/ Cancelled(h) \/ AllTried(h) PROVE ProgressInv'
  BY <1>7, <1>16, EndsSteps
<1>17. \/ UNCHANGED <<pc, att, deployer>>
       \/ Start \/ Crash
       \/ \E h \in Handlers : \/ \E n \in Names : Begin(h, n)
                              \/ Disconnect(h)
                              \/ PatchFails(h) \/ CannotSend(h) \/ Panic(h)
                              \/ Local(h) \/ Server(h)
  BY DEF Next, vars, Register, LandLate, Vanish
<1>18. QED
  BY <1>3, <1>4, <1>6, <1>9, <1>10, <1>11, <1>12, <1>13, <1>14, <1>15, <1>16, <1>17
     DEF Local, Server

-----------------------------------------------------------------------------
(* Completeness and the audit records. *)

PathInv == BaseInv /\ KeepInv /\ ProgressInv

\* The first state.
LEMMA PathInit == Init => PathInv
<1> SUFFICES ASSUME Init PROVE PathInv
  OBVIOUS
<1>1. BaseInv
  BY TypesInit
<1>2. KeepInv
  BY DEF Init, KeepInv
<1>3. ProgressInv
  BY DEF Init, ProgressInv
<1>4. QED  BY <1>1, <1>2, <1>3 DEF PathInv

\* Every step keeps PathInv.
LEMMA PathStep == PathInv /\ [Next]_vars => PathInv'
BY BaseStep, KeepStep, ProgressStep DEF PathInv

\* Only the end of a deployment reports one, and then all of its bundle was applied.
LEMMA CompleteStep == PathInv /\ AppliedMeansComplete /\ [Next]_vars => AppliedMeansComplete'
<1> SUFFICES ASSUME PathInv, AppliedMeansComplete, [Next]_vars, NEW s \in succeeded'
             PROVE  UpTo(s[1], s[2], Len(Bundle(s[1], s[2])))'
  BY DEF AppliedMeansComplete
<1>1. BaseInv /\ KeepInv /\ ProgressInv
  BY DEF PathInv
<1>2. CASE s \in succeeded
  <2>1. PICK n \in Names, d \in Defs : s[1] = n /\ s[2] = d
    BY <1>1, <1>2 DEF BaseInv, TypeOK
  <2>2. reg[n] = d /\ d # NoDef /\ UpTo(n, d, Len(Bundle(n, d)))
    BY <1>1, <1>2, <2>1 DEF KeepInv, AppliedMeansComplete
  <2>3. Len(Bundle(n, d)) \in 0..Len(Bundle(n, d))
    BY BundleShape
  <2>4. UpTo(n, d, Len(Bundle(n, d)))'
    BY <1>1, <2>2, <2>3, UpToKeeps
  <2>5. QED  BY <2>1, <2>4
<1>3. CASE s \notin succeeded
  <2>1. PICK h \in Handlers : AllTried(h) /\ ~att[h].erred /\ s = <<att[h].name, att[h].def>>
    BY <1>1, <1>3, SucceededGrows
  <2>2. pc[h] = "apply" /\ ~More(h) /\ UNCHANGED <<namespace, cluster>>
    BY <2>1 DEF AllTried, external
  <2>3. PICK n \in Names, d \in Defs, i \in Nat :
          /\ n = att[h].name /\ d = att[h].def /\ i = att[h].next
          /\ i - 1 \in 0..Len(Bundle(n, d))
          /\ ~att[h].erred => UpTo(n, d, i - 1)
    BY <1>1, <2>2, BusyDeployment
  <2>4. ~(i <= Len(Bundle(n, d)))
    BY <2>2, <2>3 DEF More
  <2>5. i - 1 = Len(Bundle(n, d))
    BY <2>3, <2>4, BundleShape
  <2>6. UpTo(n, d, Len(Bundle(n, d)))'
    BY <2>1, <2>2, <2>3, <2>5 DEF UpTo, InCluster
  <2>7. s[1] = n /\ s[2] = d
    BY <2>1, <2>3
  <2>8. QED  BY <2>6, <2>7
<1>4. QED  BY <1>2, <1>3

\* What a record counts is part of the bundle.
CountedInBundle == \A r \in audit : r.applied <= Len(Bundle(r.name, r.def))

\* A record is made from what its handler counts as applied.
LEMMA TruthStep ==
  PathInv /\ CountedInBundle /\ AuditIsTruthful /\ [Next]_vars => (CountedInBundle /\ AuditIsTruthful)'
<1> SUFFICES ASSUME PathInv, CountedInBundle, AuditIsTruthful, [Next]_vars, NEW r \in audit'
             PROVE  /\ r.applied <= Len(Bundle(r.name, r.def))
                    /\ UpTo(r.name, r.def, r.applied)'
                    /\ r.result = "success" => <<r.name, r.def>> \in succeeded'
  BY DEF CountedInBundle, AuditIsTruthful
<1>1. BaseInv /\ KeepInv /\ ProgressInv /\ succeeded \subseteq succeeded'
  BY SucceededKept DEF PathInv
<1>2. CASE r \in audit
  <2>1. PICK n \in Names, d \in Defs, j \in 0..5 : r.name = n /\ r.def = d /\ r.applied = j
    BY <1>1, <1>2 DEF BaseInv, TypeOK, Records
  <2>2. /\ reg[n] = d /\ d # NoDef /\ UpTo(n, d, j) /\ j <= Len(Bundle(n, d))
        /\ r.result = "success" => <<n, d>> \in succeeded
    BY <1>1, <1>2, <2>1 DEF KeepInv, CountedInBundle, AuditIsTruthful
  <2>3. j \in 0..Len(Bundle(n, d))
    BY <2>2, BundleShape
  <2>4. UpTo(n, d, j)'
    BY <1>1, <2>2, <2>3, UpToKeeps
  <2>5. QED  BY <1>1, <2>1, <2>2, <2>4
<1>3. CASE r \notin audit
  <2>1. Uploads
    BY <1>3, OutsideSteps DEF Spreads, Lands
  <2>2. PICK h \in Handlers : pc[h] = "audit" /\ r = Record(att[h])
    BY <1>3, <2>1 DEF Uploads
  <2>3. PICK n \in Names, d \in Defs, i \in Nat :
          /\ n = att[h].name /\ d = att[h].def /\ i = att[h].next /\ i >= 1
          /\ i - 1 \in 0..Len(Bundle(n, d))
          /\ att[h].erred => deployer = "kubectl"
          /\ ~att[h].erred => UpTo(n, d, i - 1)
          /\ att[h].result = "success" => <<n, d>> \in succeeded
    BY <1>1, <2>2, BusyDeployment
  <2>4. /\ r.name = n /\ r.def = d /\ r.result = att[h].result
        /\ r.applied = IF deployer = "client-go" THEN i - 1 ELSE 0
    BY <2>2, <2>3 DEF Record
  <2>5. r.applied \in 0..Len(Bundle(n, d))
    BY <2>3, <2>4, BundleShape
  <2>6. UpTo(n, d, r.applied)
    <3>1. UpTo(n, d, 0)
      BY DEF UpTo
    <3>2. QED  BY <2>3, <2>4, <3>1
  <2>7. UNCHANGED <<namespace, cluster>>
    BY <2>1 DEF Uploads, external
  <2>8. UpTo(n, d, r.applied)'
    BY <2>6, <2>7 DEF UpTo, InCluster
  <2>9. r.applied <= Len(Bundle(n, d))
    BY <2>5, BundleShape
  <2>10. QED  BY <1>1, <2>3, <2>4, <2>8, <2>9
<1>4. QED  BY <1>2, <1>3

\* A deployment that was reported as applied has every object of its bundle in
\* the cluster and keeps it there, whatever lands later; with both deployers.
\* (clientgo_deployer.go:50-81, deploy.go:40-58)
THEOREM AppliedIsComplete == Spec => []AppliedMeansComplete
<1>1. Init => AppliedMeansComplete
  BY DEF Init, AppliedMeansComplete
<1>2. QED  BY <1>1, PathInit, PathStep, CompleteStep, PTL DEF Spec

\* The objects an audit record lists are in the cluster, and a record of success
\* belongs to a deployment that was reported as applied.  (server.go:189-206)
THEOREM RecordsAreTrue == Spec => []AuditIsTruthful
<1>1. Init => CountedInBundle /\ AuditIsTruthful
  BY DEF Init, AuditIsTruthful, CountedInBundle
<1>2. QED  BY <1>1, PathInit, PathStep, TruthStep, PTL DEF Spec

-----------------------------------------------------------------------------
(* Policy, and who is left without a record. *)

\* A handler that goes on deploys under the policy that admitted it.
LEMMA AdmittedStep == BaseInv /\ DeploysAdmitted /\ [Next]_vars => DeploysAdmitted'
<1> SUFFICES ASSUME BaseInv, DeploysAdmitted, [Next]_vars PROVE DeploysAdmitted'
  OBVIOUS
<1> USE DEF process
<1>1. CASE UNCHANGED <<pc, att, policy>>
  BY <1>1 DEF DeploysAdmitted
<1>2. CASE Start \/ Crash
  BY <1>2 DEF Start, Crash, DeploysAdmitted, BaseInv, RunInv, Waiting
<1>3. ASSUME NEW h \in Handlers, UNCHANGED policy, pc'[h] \in Underway => att'[h].def \in policy,
             \A g \in Handlers : g # h => pc'[g] = pc[g] /\ att'[g] = att[g]
      PROVE  DeploysAdmitted'
  BY <1>3 DEF DeploysAdmitted, Underway
<1>4. ASSUME NEW h \in Handlers, NEW n \in Names, Begin(h, n) PROVE DeploysAdmitted'
  <2>1. /\ att'[h].def = reg[n]
        /\ \A g \in Handlers : g # h => pc'[g] = pc[g] /\ att'[g] = att[g]
        /\ \/ pc' = [pc EXCEPT ![h] = "answer"]
           \/ pc' = [pc EXCEPT ![h] = "audit"]
           \/ reg[n] \in policy
    BY <1>4, BeginEffect DEF BaseInv
  <2>2. pc'[h] \in Underway => att'[h].def \in policy
    BY <2>1 DEF BaseInv, TypeOK, Underway, Waiting
  <2>3. QED  BY <1>3, <1>4, <2>1, <2>2 DEF Begin
<1>5. ASSUME NEW h \in Handlers, Moves(h) PROVE DeploysAdmitted'
  <2>1. PICK l \in Places \ {"idle"}, b \in Attempts :
          /\ Step(h, l, b) /\ b.def = att[h].def
          /\ l \in Underway <=> pc[h] \in Underway
    BY <1>5 DEF Moves
  <2>2. /\ pc'[h] = l /\ att'[h] = b
        /\ \A g \in Handlers : g # h => pc'[g] = pc[g] /\ att'[g] = att[g]
    BY <2>1, StepEffect DEF BaseInv
  <2>3. QED  BY <1>3, <1>5, <2>1, <2>2 DEF Moves, DeploysAdmitted, Underway
<1>6. ASSUME NEW h \in Handlers, Ends(h) PROVE DeploysAdmitted'
  <2>1. PICK r \in {"success", "failure"} : Finish(h, att[h], r)
    BY <1>6 DEF Ends
  <2>2. att[h] \in Attempts
    BY DEF BaseInv, TypeOK
  <2>3. /\ pc'[h] = "audit"
        /\ \A g \in Handlers : g # h => pc'[g] = pc[g] /\ att'[g] = att[g]
    BY <2>1, <2>2, FinishEffect DEF BaseInv
  <2>4. QED  BY <1>3, <1>6, <2>3 DEF Ends, Underway, Waiting
<1>7. ASSUME NEW h \in Handlers, Answer(h) \/ Panic(h) PROVE DeploysAdmitted'
  <2>1. /\ pc'[h] = "idle" /\ UNCHANGED policy
        /\ \A g \in Handlers : g # h => pc'[g] = pc[g] /\ att'[g] = att[g]
    BY <1>7 DEF Answer, Panic, Step, BaseInv, TypeOK
  <2>2. QED  BY <1>3, <2>1 DEF Underway, Waiting
<1>8. ASSUME NEW h \in Handlers, Disconnect(h) \/ PatchFails(h) \/ CannotSend(h) \/ Send(h)
                \/ Applied(h) \/ AllTried(h) \/ Cancelled(h) \/ Audited(h) \/ AuditFails(h)
                \/ NameTaken(h) \/ NoAudit(h) \/ Land(h) \/ Refuse(h)
      PROVE  DeploysAdmitted'
  BY <1>5, <1>6, <1>8, MovesSteps, EndsSteps
<1>9. \/ UNCHANGED <<pc, att, policy>>
      \/ Start \/ Crash
      \/ \E h \in Handlers : \/ \E n \in Names : Begin(h, n)
                             \/ Disconnect(h)
                             \/ PatchFails(h) \/ CannotSend(h) \/ Panic(h)
                             \/ Local(h) \/ Server(h)
  BY DEF Next, vars, Register, LandLate, Vanish
<1>10. QED
  BY <1>1, <1>2, <1>4, <1>7, <1>8, <1>9 DEF Local, Server

\* A definition that was registered under another policy is not deployed under
\* this one.  (server.go:168, store.go:108)
THEOREM DeploysAreAdmitted == Spec => []DeploysAdmitted
<1>1. Init => DeploysAdmitted
  BY DEF Init, DeploysAdmitted, Waiting
<1>2. QED  BY <1>1, TypesInit, BaseStep, AdmittedStep, PTL DEF Spec

-----------------------------------------------------------------------------
(* The order of the client-go deployer. *)

\* A patch is for an object of its bundle; with the client-go deployer those before
\* it are in the cluster.
Ready(p) == \E j \in 1..Len(Bundle(p.name, p.def)) :
              /\ Bundle(p.name, p.def)[j] = p.kind
              /\ InOrder => UpTo(p.name, p.def, j - 1)
FlightInv == \A p \in wire : Ready(p)

\* A patch in flight, with its sender or on the wire, follows objects the cluster has.
LEMMA FlightReady ==
  ASSUME PathInv, FlightInv, NEW p, InFlight(p)
  PROVE  Ready(p)
<1>1. BaseInv /\ KeepInv /\ ProgressInv
  BY DEF PathInv
<1>2. CASE p \in wire
  BY <1>2 DEF FlightInv
<1>3. ASSUME NEW h \in Handlers, p \in Pending(h) PROVE Ready(p)
  <2>1. pc[h] = "sent"
    BY <1>3 DEF Pending
  <2>2. PICK n \in Names, d \in Defs, i \in Nat :
          /\ n = att[h].name /\ d = att[h].def /\ i = att[h].next /\ i >= 1
          /\ att[h].erred => deployer = "kubectl"
          /\ ~att[h].erred => UpTo(n, d, i - 1)
    BY <1>1, <2>1, BusyDeployment
  <2>3. InOrder => ~att[h].erred
    BY <1>1, <2>2 DEF BaseInv, TypeOK, InOrder
  <2>4. i \in 1..Len(Bundle(n, d))
    BY <1>1, <2>1, <2>2, BundleShape DEF BaseInv, AttInv, Waiting
  <2>5. p.name = n /\ p.def = d /\ p.kind = Bundle(n, d)[i]
    BY <1>3, <2>1, <2>2 DEF Pending
  <2>6. QED  BY <2>2, <2>3, <2>4, <2>5 DEF Ready
<1>4. QED  BY <1>2, <1>3 DEF InFlight

\* A patch that is left on the wire was sent after the ones before it had landed.
LEMMA FlightStep == PathInv /\ FlightInv /\ [Next]_vars => FlightInv'
<1> SUFFICES ASSUME PathInv, FlightInv, [Next]_vars, NEW p \in wire' PROVE Ready(p)'
  BY DEF FlightInv
<1>1. BaseInv /\ KeepInv /\ ProgressInv
  BY DEF PathInv
<1>2. InFlight(p)
  BY OutsideSteps DEF Spreads, Lands, Uploads, external, InFlight
<1>3. p \in Patches /\ reg[p.name] = p.def /\ p.def # NoDef /\ Ready(p)
  BY <1>1, <1>2, PatchTypes, FlightKeeps, FlightReady
<1>4. PICK n \in Names, d \in Defs : p.name = n /\ p.def = d
  BY <1>3 DEF Patches
<1>5. PICK j \in 1..Len(Bundle(n, d)) : /\ Bundle(n, d)[j] = p.kind
                                        /\ InOrder => UpTo(n, d, j - 1)
  BY <1>3, <1>4 DEF Ready
<1>6. j - 1 \in 0..Len(Bundle(n, d))
  BY BundleShape
<1>7. ASSUME InOrder PROVE UpTo(n, d, j - 1)'
  <2>1. UpTo(n, d, j - 1)
    BY <1>5, <1>7
  <2>2. QED  BY <1>1, <1>3, <1>4, <1>6, <2>1, UpToKeeps
<1>8. QED  BY <1>4, <1>5, <1>7 DEF Ready, InOrder

\* So what lands extends a prefix.
LEMMA PrefixStep ==
  ASSUME "kubectl" \notin Deployers
  PROVE  PathInv /\ FlightInv /\ PrefixOnly /\ [Next]_vars => PrefixOnly'
<1> SUFFICES ASSUME PathInv, FlightInv, PrefixOnly, [Next]_vars, NEW n \in Names, reg'[n] # NoDef,
                    NEW j \in 2..Len(Bundle(n, reg'[n])), 
                    InCluster(n, reg[n], Bundle(n, reg[n])[j])'
             PROVE  InCluster(n, reg[n], Bundle(n, reg[n])[j - 1])'
  BY DEF PrefixOnly
<1>1. BaseInv /\ KeepInv /\ ProgressInv
  BY DEF PathInv
<1>2. PICK d : d = reg'[n]
  OBVIOUS
<1>3. PICK k, m : k = Bundle(n, d)[j] /\ m = Bundle(n, d)[j - 1]
  OBVIOUS
<1>4. /\ j \in 2..Len(Bundle(n, d)) /\ j - 1 \in 1..Len(Bundle(n, d)) /\ j \in 1..Len(Bundle(n, d))
      /\ k \in Kinds /\ k # "Namespace" /\ m \in Kinds \cup {"Namespace"}
  <2>1. j \in 2..Len(Bundle(n, d))
    BY <1>2
  <2>2. j - 1 \in 1..Len(Bundle(n, d)) /\ j \in 1..Len(Bundle(n, d))
    BY <2>1, BundleShape
  <2>3. k \in Kinds
    BY <1>3, <2>1, BundleShape
  <2>4. m \in Kinds \cup {"Namespace"}
    BY <1>3, <2>2, BundleKinds
  <2>5. QED  BY <2>1, <2>2, <2>3, <2>4 DEF Kinds
<1>5. cluster'[n][k] = d
  BY <1>2, <1>3, <1>4 DEF InCluster
<1>6. CASE reg[n] # NoDef /\ cluster[n][k] = cluster'[n][k]
  <2>1. reg[n] = d
    BY <1>1, <1>2, <1>6, RegGrows
  <2>2. InCluster(n, reg[n], Bundle(n, reg[n])[j])
    BY <1>3, <1>4, <1>5, <1>6, <2>1 DEF InCluster
  <2>3. InCluster(n, reg[n], Bundle(n, reg[n])[j - 1])
    BY <1>4, <1>6, <2>1, <2>2 DEF PrefixOnly
  <2>4. InCluster(n, reg[n], m)
    BY <1>3, <2>1, <2>3
  <2>5. InCluster(n, reg[n], m)'
    BY <1>1, <1>4, <1>6, <2>4, ClusterKeeps
  <2>6. QED  BY <1>2, <1>3, <2>5
<1>7. CASE reg[n] = NoDef
  <2>1. cluster[n][k] = NoDef
    BY <1>1, <1>4, <1>7 DEF KeepInv
  <2>2. d \in Defs
    BY <1>1, <1>2, BaseStep DEF BaseInv, TypeOK
  <2>3. \A p : InFlight(p) => reg[p.name] = p.def /\ p.def # NoDef /\ p \in Patches
    BY <1>1, FlightKeeps, PatchTypes
  <2>4. ASSUME NEW p, InFlight(p), Execute(p) PROVE cluster'[n][k] = cluster[n][k]
    <3>1. p.name # n /\ p \in Patches
      BY <1>7, <2>3, <2>4
    <3>2. CASE p.kind = "Namespace"
      BY <2>4, <3>2 DEF Execute
    <3>3. CASE p.kind # "Namespace"
      <4>1. cluster' = [cluster EXCEPT ![p.name] = [cluster[p.name] EXCEPT ![p.kind] = p.def]]
        BY <2>4, <3>3 DEF Execute
      <4>2. QED  BY <1>1, <3>1, <4>1 DEF BaseInv, TypeOK
    <3>4. QED  BY <3>2, <3>3
  <2>5. cluster'[n][k] = cluster[n][k]
    BY <2>4, OutsideSteps DEF Lands, Spreads, Uploads, external
  <2>6. QED  BY <1>5, <2>1, <2>2, <2>5
<1>8. CASE reg[n] # NoDef /\ cluster[n][k] # cluster'[n][k]
  <2>1. reg[n] = d
    BY <1>1, <1>2, <1>8, RegGrows
  <2>2. Lands
    BY <1>8, OutsideSteps DEF Spreads, Uploads, external
  <2>3. PICK p : InFlight(p) /\ Execute(p)
    BY <2>2 DEF Lands
  <2>4. p \in Patches /\ reg[p.name] = p.def /\ Ready(p)
    BY <1>1, <2>3, PatchTypes, FlightKeeps, FlightReady
  <2>5. p.name = n /\ p.kind = k
    <3>1. p.kind # "Namespace"
      BY <1>8, <2>3 DEF Execute
    <3>2. cluster' = [cluster EXCEPT ![p.name] = [cluster[p.name] EXCEPT ![p.kind] = p.def]]
      BY <2>3, <3>1 DEF Execute
    <3>3. QED  BY <1>1, <1>4, <1>8, <2>4, <3>1, <3>2 DEF BaseInv, TypeOK, Patches
  <2>6. PICK i \in 1..Len(Bundle(n, d)) : Bundle(n, d)[i] = k /\ UpTo(n, d, i - 1)
    BY <2>1, <2>4, <2>5 DEF Ready, InOrder
  <2>7. i = j
    BY <1>3, <1>4, <2>6, BundleShape
  <2>8. InCluster(n, reg[n], m)
    <3>1. j - 1 \in 1..(j - 1)
      BY <1>4
    <3>2. QED  BY <1>3, <2>1, <2>6, <2>7, <3>1 DEF UpTo
  <2>9. InCluster(n, reg[n], m)'
    BY <1>1, <1>4, <1>8, <2>8, ClusterKeeps
  <2>10. QED  BY <1>2, <1>3, <2>9
<1>9. QED  BY <1>6, <1>7, <1>8

\* With the client-go deployer no object is in the cluster without those before
\* it in its bundle, whatever fails, is late or gets lost.
\* (clientgo_deployer.go:68-75, 109-118)
THEOREM FailuresLeaveAPrefix ==
  ASSUME "kubectl" \notin Deployers
  PROVE  Spec => []PrefixOnly
<1>1. Init => FlightInv /\ PrefixOnly
  BY DEF Init, FlightInv, PrefixOnly
<1>2. PathInv /\ FlightInv /\ PrefixOnly /\ [Next]_vars => (FlightInv /\ PrefixOnly)'
  BY FlightStep, PrefixStep
<1>3. QED  BY <1>1, <1>2, PathInit, PathStep, PTL DEF Spec

-----------------------------------------------------------------------------
(* DeployPath implements Rollout. *)

\* Services that were reported as applied.
Reported == {s[1] : s \in succeeded}

\* Reported depends on nothing else.
LEMMA ReportedKept ==
  ASSUME UNCHANGED succeeded
  PROVE  Reported' = Reported
BY DEF Reported

\* The names of a union of pairs.
LEMMA FirstOfUnion ==
  ASSUME NEW S, NEW n, NEW d
  PROVE  {s[1] : s \in S \cup {<<n, d>>}} = {s[1] : s \in S} \cup {n}
<1> DEFINE A == {s[1] : s \in S \cup {<<n, d>>}}
           B == {s[1] : s \in S}
<1>1. <<n, d>>[1] = n
  OBVIOUS
<1>2. \A x \in A : x \in B \cup {n}
  BY <1>1
<1>3. \A x \in B : x \in A
  OBVIOUS
<1>4. n \in A
  BY <1>1
<1> HIDE DEF A, B
<1>5. A = B \cup {n}
  BY <1>2, <1>3, <1>4
<1>6. QED  BY <1>5 DEF A, B

\* A patch that arrives is an object that arrives, in order if they are sent so.
LEMMA ArrivalStep ==
  ASSUME PathInv, FlightInv, Lands
  PROVE  \/ \E n \in Names : Abs!Arrive(n)
         \/ UNCHANGED <<reg, cluster>> /\ Reported' = Reported
<1>1. BaseInv /\ KeepInv /\ ProgressInv
  BY DEF PathInv
<1>2. PICK p : InFlight(p) /\ Execute(p)
  BY DEF Lands
<1>3. p \in Patches /\ reg[p.name] = p.def /\ p.def # NoDef /\ Ready(p)
  BY <1>1, <1>2, PatchTypes, FlightKeeps, FlightReady
<1>4. UNCHANGED reg /\ Reported' = Reported
  BY ReportedKept DEF Lands
<1>5. CASE p.kind = "Namespace"
  BY <1>2, <1>4, <1>5 DEF Execute
<1>6. CASE p.kind # "Namespace"
  <2>1. PICK n \in Names, d \in Defs, k \in Kinds \cup {"Namespace"} :
          p.name = n /\ p.def = d /\ p.kind = k /\ reg[n] = d
    BY <1>3 DEF Patches
  <2>2. PICK j \in 1..Len(Bundle(n, d)) : /\ Bundle(n, d)[j] = k
                                          /\ InOrder => UpTo(n, d, j - 1)
    BY <1>3, <2>1 DEF Ready
  <2>3. j # 1
    BY <1>6, <2>1, <2>2, BundleShape
  <2>4. /\ j \in 2..Len(Bundle(n, d))
        /\ j - 1 \in 1..Len(Resources(n, d))
    BY <2>3, BundleShape
  <2>5. Resources(n, d)[j - 1] = k
    BY <2>2, <2>4, BundleShape
  <2>6. ASSUME InOrder PROVE \A i \in 1..((j - 1) - 1) : cluster[n][Resources(n, d)[i]] = d
    <3> SUFFICES ASSUME NEW i \in 1..((j - 1) - 1) PROVE cluster[n][Resources(n, d)[i]] = d
      OBVIOUS
    <3>1. i + 1 \in 2..Len(Bundle(n, d)) /\ i + 1 \in 1..(j - 1) /\ (i + 1) - 1 = i
      BY <2>4, BundleShape
    <3>2. Bundle(n, d)[i + 1] \in Kinds /\ Bundle(n, d)[i + 1] = Resources(n, d)[i]
      BY <3>1, BundleShape
    <3>3. InCluster(n, d, Bundle(n, d)[i + 1])
      BY <2>2, <2>6, <3>1 DEF UpTo
    <3>4. QED  BY <3>2, <3>3 DEF InCluster, Kinds
  <2>7. cluster' = [cluster EXCEPT ![n][k] = d]
    BY <1>2, <1>6, <2>1 DEF Execute
  <2>8. InOrder => Abs!UpTo(n, (j - 1) - 1)
    BY <2>1, <2>6 DEF Abs!UpTo
  <2>9. cluster' = [cluster EXCEPT ![n][Resources(n, reg[n])[j - 1]] = reg[n]]
    BY <2>1, <2>5, <2>7
  <2>10. Abs!Arrive(n)
    <3>1. reg[n] # NoDef /\ j - 1 \in 1..Len(Resources(n, reg[n]))
      BY <1>3, <2>1, <2>4
    <3>2. QED  BY <1>4, <2>8, <2>9, <3>1 DEF Abs!Arrive, Reported
  <2>11. QED  BY <2>10
<1>7. QED  BY <1>5, <1>6

\* A deployment that is reported as applied is one whose objects are all there.
LEMMA ReportStep ==
  ASSUME PathInv, NEW h \in Handlers, AllTried(h), ~att[h].erred,
         NEW n \in Names, n = att[h].name
  PROVE  Abs!Report(n)
<1>1. BaseInv /\ KeepInv /\ ProgressInv
  BY DEF PathInv
<1>2. pc[h] = "apply" /\ ~More(h) /\ UNCHANGED <<reg, namespace, cluster>>
  BY DEF AllTried, external, process
<1>3. PICK d \in Defs, i \in Nat :
        /\ d = att[h].def /\ i = att[h].next
        /\ reg[n] = d /\ d # NoDef /\ i - 1 \in 0..Len(Bundle(n, d))
        /\ att[h].erred => deployer = "kubectl"
        /\ ~att[h].erred => UpTo(n, d, i - 1)
  <2>1. PICK m \in Names, d \in Defs, i \in Nat :
          /\ m = att[h].name /\ d = att[h].def /\ i = att[h].next
          /\ reg[m] = d /\ d # NoDef /\ i - 1 \in 0..Len(Bundle(m, d))
          /\ att[h].erred => deployer = "kubectl"
          /\ ~att[h].erred => UpTo(m, d, i - 1)
    BY <1>1, <1>2, BusyDeployment
  <2>2. m = n
    BY <2>1
  <2>3. QED  BY <2>1, <2>2
<1>5. i - 1 = Len(Bundle(n, d))
  <2>1. ~(i <= Len(Bundle(n, d)))
    BY <1>2, <1>3 DEF More
  <2>2. QED  BY <1>3, <2>1, BundleShape
<1>6. UpTo(n, d, Len(Bundle(n, d)))
  BY <1>3, <1>5
<1>7. Abs!Complete(n)
  <2>1. \A i1 \in 1..Len(Resources(n, d)) : cluster[n][Resources(n, d)[i1]] = d
    <3> SUFFICES ASSUME NEW i1 \in 1..Len(Resources(n, d)) PROVE cluster[n][Resources(n, d)[i1]] = d
      OBVIOUS
    <3>1. i1 + 1 \in 2..Len(Bundle(n, d)) /\ i1 + 1 \in 1..Len(Bundle(n, d)) /\ (i1 + 1) - 1 = i1
      BY BundleShape
    <3>2. Bundle(n, d)[i1 + 1] \in Kinds /\ Bundle(n, d)[i1 + 1] = Resources(n, d)[i1]
      BY <3>1, BundleShape
    <3>3. InCluster(n, d, Bundle(n, d)[i1 + 1])
      BY <1>6, <3>1 DEF UpTo
    <3>4. QED  BY <3>2, <3>3 DEF InCluster, Kinds
  <2>2. QED  BY <1>3, <2>1 DEF Abs!Complete, Abs!UpTo
<1>8. succeeded' = succeeded \cup {<<n, d>>}
  BY <1>3 DEF AllTried, Finish
<1>9. Reported' = Reported \cup {n}
  BY <1>8, FirstOfUnion DEF Reported
<1>10. QED  BY <1>2, <1>3, <1>7, <1>9 DEF Abs!Report, Reported

\* Each step is one of Rollout or changes nothing Rollout speaks of.
LEMMA RolloutStep ==
  ASSUME PathInv, FlightInv, [Next]_vars
  PROVE  [Abs!Next]_(Abs!vars)
<1>1. BaseInv
  BY DEF PathInv
<1>2. CASE Lands
  BY <1>2, ArrivalStep DEF Abs!Next, Abs!vars, Reported
<1>3. ASSUME NEW n \in Names, NEW d \in Defs, Register(n, d) PROVE Abs!Next
  <2>1. UNCHANGED <<cluster, succeeded>>
    BY <1>3 DEF Register, external
  <2>2. Abs!Register(n, d)
    BY <1>3, <2>1, ReportedKept DEF Register, Abs!Register, Reported
  <2>3. QED  BY <2>2 DEF Abs!Next
<1>4. CASE UNCHANGED <<reg, cluster>> /\ ~(succeeded' \subseteq succeeded)
  <2>0. PICK h \in Handlers : AllTried(h)
    BY <1>1, <1>4, SucceededGrows
  <2>1. AllTried(h) /\ ~att[h].erred
    BY <1>4, <2>0 DEF AllTried, Finish
  <2>2. PICK n \in Names : n = att[h].name
    BY <1>1, <2>1 DEF AllTried, BaseInv, AttInv
  <2>3. Abs!Report(n)
    BY <2>1, <2>2, ReportStep
  <2>4. QED  BY <2>3 DEF Abs!Next
<1>5. CASE UNCHANGED <<reg, cluster>> /\ succeeded' \subseteq succeeded
  <2>1. UNCHANGED succeeded
    BY <1>1, <1>5, SucceededKept
  <2>2. QED  BY <1>5, <2>1, ReportedKept DEF Abs!vars, Reported
<1>6. \/ Lands
      \/ \E n \in Names, d \in Defs : Register(n, d)
      \/ UNCHANGED <<reg, cluster>>
  <2>1. Lands \/ UNCHANGED cluster
    BY OutsideSteps DEF Spreads, Uploads, external
  <2>2. UNCHANGED reg \/ \E n \in Names, d \in Defs : Register(n, d)
    BY DEF Next, vars, process, Start, Crash, Begin, Disconnect, PatchFails, CannotSend, Panic, Local, Server,
           Send, Applied, AllTried, Cancelled, Audited, AuditFails, NameTaken, NoAudit, Answer, Land, Refuse,
           LandLate, Vanish
  <2>3. QED  BY <2>1, <2>2
<1>7. QED  BY <1>2, <1>3, <1>4, <1>5, <1>6

\* A deployment is a rollout of what is registered: nothing else arrives, with the
\* client-go deployer in order, and it is reported as applied only when all of it is
\* there.  (clientgo_deployer.go:39-82, deploy.go:25-76)
THEOREM DeployPathIsRollout == Spec => ImplementsRollout
<1>1. Init => FlightInv /\ Abs!Init
  BY DEF Init, FlightInv, Abs!Init
<1>2. PathInv /\ FlightInv /\ [Next]_vars => FlightInv' /\ [Abs!Next]_(Abs!vars)
  BY FlightStep, RolloutStep
<1>3. QED  BY <1>1, <1>2, PathInit, PathStep, PTL DEF Spec, ImplementsRollout, Abs!Spec

\* What DeployPath inherits from Rollout.
RollProofs == INSTANCE RolloutProofs WITH Bundle <- Resources, Ordered <- InOrder,
                                          succeeded <- {s[1] : s \in succeeded}

\* The Rollout of RolloutProofs is the one of DeployPath.
LEMMA SameRollout == Abs!Spec => RollProofs!Spec
<1>1. Abs!Init => RollProofs!Init
  BY DEF Abs!Init, RollProofs!Init
<1>2. Abs!Next => RollProofs!Next
  BY DEF Abs!Next, Abs!Register, Abs!Arrive, Abs!Report, Abs!Complete, Abs!UpTo,
         RollProofs!Next, RollProofs!Register, RollProofs!Arrive, RollProofs!Report,
         RollProofs!Complete, RollProofs!UpTo
<1>3. UNCHANGED Abs!vars => UNCHANGED RollProofs!vars
  BY DEF Abs!vars, RollProofs!vars
<1>4. QED  BY <1>1, <1>2, <1>3, PTL DEF Abs!Spec, RollProofs!Spec

\* No bundle has two objects of one kind.
LEMMA ResourcesAreKinds == RollProofs!BundlesListKinds
<1>1. ASSUME NEW n \in Names, NEW d \in Defs
      PROVE  /\ Resources(n, d) \in Seq(Kinds)
             /\ \A i, j \in 1..Len(Resources(n, d)) : Resources(n, d)[i] = Resources(n, d)[j] => i = j
  BY DEF Resources, Kinds
<1>2. QED  BY <1>1 DEF RollProofs!BundlesListKinds

\* The cluster has nothing of a service but what is registered under its name,
\* whoever sent it and however late it arrived.  (clientgo_deployer.go:39-82, deploy.go:25-76)
THEOREM NothingElseArrives ==
  Spec => [](\A n \in Names, k \in Kinds : cluster[n][k] # NoDef => cluster[n][k] = reg[n])
<1>2. RollProofs!Spec => [](RollProofs!ReportedComplete /\ RollProofs!OnlyRegistered)
  BY ResourcesAreKinds, RollProofs!ReportedIsComplete, NoDefAssumption
<1>3. RollProofs!OnlyRegistered
        => \A n \in Names, k \in Kinds : cluster[n][k] # NoDef => cluster[n][k] = reg[n]
  BY DEF RollProofs!OnlyRegistered
<1>4. QED  BY <1>2, <1>3, DeployPathIsRollout, SameRollout, PTL DEF ImplementsRollout

\* Once an object of a service is in the cluster no attempt removes or changes it: not
\* a failed one, a cancelled one, a retry, or a request that arrives when its sender
\* is long gone.  (clientgo_deployer.go:109-128, deploy.go:40-51)
THEOREM NothingIsUndone ==
  Spec => [][\A n \in Names, k \in Kinds :
               cluster[n][k] # NoDef => cluster'[n][k] = cluster[n][k]]_cluster
<1>1. RollProofs!Spec => [][\A n \in Names, k \in Kinds :
                              cluster[n][k] # NoDef => cluster'[n][k] = cluster[n][k]]_cluster
  BY ResourcesAreKinds, RollProofs!NothingIsTakenBack, NoDefAssumption
<1>2. QED  BY <1>1, DeployPathIsRollout, SameRollout, PTL DEF ImplementsRollout

-----------------------------------------------------------------------------
(* Who is left without a record. *)

\* No record leaves the bucket.
LEMMA AuditGrows == [Next]_vars => audit \subseteq audit'
BY OutsideSteps DEF Spreads, Lands, Uploads

\* A handler whose client is there stores its record before it answers, or finds
\* another under its name.
LEMMA AuditedStep ==
  ASSUME AuditEnabled, ~AuditFaults
  PROVE  BaseInv /\ AuditedUnlessGone /\ [Next]_vars => AuditedUnlessGone'
<1> SUFFICES ASSUME BaseInv, AuditedUnlessGone, [Next]_vars PROVE AuditedUnlessGone'
  OBVIOUS
<1> USE DEF process
<1>0. audit \subseteq audit'
  BY AuditGrows
<1>1. CASE UNCHANGED <<pc, att, deployer>>
  BY <1>0, <1>1 DEF AuditedUnlessGone, Accounted, Record
<1>2. CASE Start \/ Crash
  BY <1>2 DEF Start, Crash, AuditedUnlessGone, BaseInv, RunInv
<1>3. ASSUME NEW h \in Handlers, UNCHANGED deployer,
             pc'[h] = "answer" => Accounted(h)',
             \A g \in Handlers : g # h => pc'[g] = pc[g] /\ att'[g] = att[g]
      PROVE  AuditedUnlessGone'
  <2>1. ASSUME NEW g \in Handlers, g # h, pc'[g] = "answer" PROVE Accounted(g)'
    BY <1>0, <1>3, <2>1 DEF AuditedUnlessGone, Accounted, Record
  <2>2. QED  BY <1>3, <2>1 DEF AuditedUnlessGone
<1>4. ASSUME NEW h \in Handlers, NEW n \in Names, Begin(h, n) PROVE AuditedUnlessGone'
  <2>1. /\ \A g \in Handlers : g # h => pc'[g] = pc[g] /\ att'[g] = att[g]
        /\ \/ deployer = "disabled"
           \/ pc' = [pc EXCEPT ![h] = "audit"]
           \/ pc' = [pc EXCEPT ![h] = "apply"]
    BY <1>4, BeginEffect DEF BaseInv
  <2>2. pc'[h] = "answer" => deployer = "disabled"
    BY <2>1 DEF BaseInv, TypeOK
  <2>3. QED  BY <1>3, <1>4, <2>1, <2>2 DEF Begin, Accounted
<1>5. ASSUME NEW h \in Handlers, Ends(h) PROVE AuditedUnlessGone'
  <2>1. PICK r \in {"success", "failure"} : Finish(h, att[h], r)
    BY <1>5 DEF Ends
  <2>2. att[h] \in Attempts
    BY DEF BaseInv, TypeOK
  <2>3. /\ pc'[h] = "audit"
        /\ \A g \in Handlers : g # h => pc'[g] = pc[g] /\ att'[g] = att[g]
    BY <2>1, <2>2, FinishEffect DEF BaseInv
  <2>4. QED  BY <1>3, <1>5, <2>3 DEF Ends
<1>6. ASSUME NEW h \in Handlers, NEW l \in Places \ {"answer"}, NEW b, Step(h, l, b), UNCHANGED deployer
      PROVE  AuditedUnlessGone'
  <2>1. /\ pc'[h] = l
        /\ \A g \in Handlers : g # h => pc'[g] = pc[g] /\ att'[g] = att[g]
    BY <1>6 DEF Step, BaseInv, TypeOK
  <2>2. QED  BY <1>3, <1>6, <2>1
<1>7. ASSUME NEW h \in Handlers, Send(h) \/ Applied(h) \/ Answer(h) \/ Panic(h)
      PROVE  AuditedUnlessGone'
  BY <1>6, <1>7 DEF Send, Applied, Answer, Panic, Places
<1>8. ASSUME NEW h \in Handlers, PatchFails(h) PROVE AuditedUnlessGone'
  <2>1. CASE Step(h, "apply", [att[h] EXCEPT !.next = @ + 1, !.erred = TRUE])
    BY <1>6, <1>8, <2>1 DEF PatchFails, Places
  <2>2. CASE Finish(h, att[h], "failure")
    BY <1>5, <1>8, <2>2 DEF PatchFails, Ends, Underway
  <2>3. QED  BY <1>8, <2>1, <2>2 DEF PatchFails
<1>9. ASSUME NEW h \in Handlers, CannotSend(h) \/ Cancelled(h) \/ AllTried(h) PROVE AuditedUnlessGone'
  BY <1>5, <1>9, EndsSteps
<1>10. ASSUME NEW h \in Handlers, Land(h) \/ Refuse(h) PROVE AuditedUnlessGone'
  <2>1. /\ UNCHANGED <<att, deployer>>
        /\ pc'[h] # "answer" /\ \A g \in Handlers : g # h => pc'[g] = pc[g]
    BY <1>10 DEF Land, Refuse, BaseInv, TypeOK
  <2>2. QED  BY <1>3, <2>1
<1>11. ASSUME NEW h \in Handlers, Disconnect(h) PROVE AuditedUnlessGone'
  <2>1. /\ UNCHANGED <<pc, deployer>>
        /\ att' = [att EXCEPT ![h] = [att[h] EXCEPT !.gone = TRUE]]
    BY <1>11 DEF Disconnect
  <2>2. /\ att'[h] = [att[h] EXCEPT !.gone = TRUE]
        /\ \A g \in Handlers : g # h => att'[g] = att[g]
    BY <2>1 DEF BaseInv, TypeOK
  <2>3. att'[h].gone = TRUE
    BY <2>2 DEF BaseInv, TypeOK, Attempts
  <2>4. QED  BY <1>3, <2>1, <2>2, <2>3 DEF Accounted
<1>12. ASSUME NEW h \in Handlers, NEW v \in {"stored", "taken"}, UNCHANGED deployer,
              Step(h, "answer", [att[h] EXCEPT !.audited = v]),
              \/ v = "stored" /\ Record(att[h]) \in audit'
              \/ v = "taken" /\ \E r \in audit' : r.result = att[h].result
       PROVE  AuditedUnlessGone'
  <2>1. /\ att'[h] = [att[h] EXCEPT !.audited = v]
        /\ \A g \in Handlers : g # h => att'[g] = att[g] /\ pc'[g] = pc[g]
    BY <1>12 DEF Step, BaseInv, TypeOK
  <2>2. /\ att'[h].audited = v /\ att'[h].name = att[h].name /\ att'[h].def = att[h].def
        /\ att'[h].result = att[h].result /\ att'[h].next = att[h].next
    BY <2>1 DEF BaseInv, TypeOK, Attempts
  <2>3. Record(att[h])' = Record(att[h])
    BY <1>12, <2>2 DEF Record
  <2>4. Accounted(h)'
    BY <1>12, <2>2, <2>3 DEF Accounted
  <2>5. QED  BY <1>3, <1>12, <2>1, <2>4
<1>13. ASSUME NEW h \in Handlers, Audited(h) \/ NameTaken(h) PROVE AuditedUnlessGone'
  <2>1. CASE Audited(h)
    BY <1>12, <2>1 DEF Audited
  <2>2. CASE NameTaken(h)
    BY <1>12, <2>2 DEF NameTaken
  <2>3. QED  BY <1>13, <2>1, <2>2
<1>14. ASSUME NEW h \in Handlers, AuditFails(h) PROVE AuditedUnlessGone'
  <2>1. /\ att[h].gone /\ UNCHANGED deployer
        /\ Step(h, "answer", att[h])
    BY <1>14 DEF AuditFails
  <2>2. att' = att /\ \A g \in Handlers : g # h => pc'[g] = pc[g]
    BY <2>1 DEF Step, BaseInv, TypeOK
  <2>3. QED  BY <1>3, <2>1, <2>2 DEF Accounted
<1>15. \A h \in Handlers : ~NoAudit(h)
  BY DEF NoAudit
<1>16. \/ UNCHANGED <<pc, att, deployer>>
       \/ Start \/ Crash
       \/ \E h \in Handlers : \/ \E n \in Names : Begin(h, n)
                              \/ Disconnect(h)
                              \/ PatchFails(h) \/ CannotSend(h) \/ Panic(h)
                              \/ Local(h) \/ Server(h)
  BY DEF Next, vars, Register, LandLate, Vanish
<1>17. QED
  BY <1>1, <1>2, <1>4, <1>7, <1>8, <1>9, <1>10, <1>11, <1>12, <1>13, <1>14, <1>15, <1>16
     DEF Local, Server

\* While the bucket works, a deployment comes to its answer without its own record
\* only if its client went away, another record has the name, or the deployer is
\* switched off.  (server.go:161-165, 189, 206, 223, audit.go:119-121)
THEOREM AuditedOrGone ==
  ASSUME AuditEnabled, ~AuditFaults
  PROVE  Spec => []AuditedUnlessGone
<1>1. Init => AuditedUnlessGone
  BY DEF Init, AuditedUnlessGone
<1>2. QED  BY <1>1, TypesInit, BaseStep, AuditedStep, PTL DEF Spec

=============================================================================
