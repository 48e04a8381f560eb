---------------------------- MODULE RegistryProofs ----------------------------
(***************************************************************************)
(* What the register-once map of Registry promises its clients, and with   *)
(* it every store that implements it: a client is told nothing that is not *)
(* in the map, of the requests for one name one is granted, and a map that *)
(* outlives restarts never loses or changes an entry.                      *)
(***************************************************************************)
EXTENDS Registry, TLAPS

Outcomes == {"none", "created", "exists", "failed"}

TypeInv == /\ reg \in Maps
           /\ req \in [Handlers -> Requests \cup {NoRequest}]
           /\ outcome \in [Handlers -> Outcomes]
           /\ told \subseteq Names \X Defs

\* A result is that of a request, and true of the map.
ResultInv ==
  \A p \in Handlers : /\ outcome[p] # "none" => req[p] \in Requests
                      /\ outcome[p] = "created" => reg[req[p].name] = req[p].def
                      /\ outcome[p] = "exists" => reg[req[p].name] # NoDef

\* What was told is in the map.
ToldInv == \A t \in told : reg[t[1]] = t[2]

\* No two requests for one name were granted.
WinnerInv ==
  \A p, q \in Handlers :
    outcome[p] = "created" /\ outcome[q] = "created" /\ req[p].name = req[q].name => p = q

RegInv == TypeInv /\ ResultInv /\ ToldInv /\ WinnerInv

\* Requests are for a name and a definition.
LEMMA RequestParts == \A r \in Requests : r.name \in Names /\ r.def \in Defs
BY DEF Requests

\* The first state.
LEMMA RegInit == Init => RegInv
BY DEF Init, RegInv, TypeInv, ResultInv, ToldInv, WinnerInv, Outcomes

\* Every step keeps the invariant: only Commit changes the map in one life, and
\* only at a name nobody relies on.
LEMMA RegStep ==
  ASSUME NoDef \notin Defs
  PROVE  RegInv /\ [Next]_vars => RegInv'
<1> SUFFICES ASSUME RegInv, [Next]_vars PROVE RegInv'
  OBVIOUS
<1>0. /\ reg \in Maps
      /\ req \in [Handlers -> Requests \cup {NoRequest}]
      /\ outcome \in [Handlers -> Outcomes]
      /\ told \subseteq Names \X Defs
  BY DEF RegInv, TypeInv
<1>1. CASE UNCHANGED vars
  BY <1>1 DEF vars, RegInv, TypeInv, ResultInv, ToldInv, WinnerInv
<1>2. ASSUME NEW p \in Handlers, NEW r \in Requests, Invoke(p, r) PROVE RegInv'
  <2>1. outcome[p] = "none"
    <3>1. NoRequest \notin Requests
      BY DEF NoRequest, Requests
    <3>2. QED  BY <1>2, <3>1 DEF Invoke, RegInv, ResultInv
  <2>2. QED
    BY <1>0, <1>2, <2>1 DEF Invoke, RegInv, TypeInv, ResultInv, ToldInv, WinnerInv
<1>3. ASSUME NEW p \in Handlers, Commit(p) PROVE RegInv'
  <2>1. req[p] \in Requests /\ req[p].name \in Names /\ req[p].def \in Defs /\ req[p].def # NoDef
    BY <1>0, <1>3, RequestParts DEF Commit, Undecided
  <2>2. \A q \in Handlers : outcome[q] \in {"created", "exists"} => req[q].name # req[p].name
    BY <1>3, RequestParts DEF Commit, RegInv, ResultInv
  <2>3. \A t \in told : t[1] # req[p].name
    <3>1. \A t \in told : t[1] \in Names /\ t[2] \in Defs
      BY <1>0
    <3>2. QED  BY <1>3, <3>1 DEF Commit, RegInv, ToldInv
  <2>4. /\ reg' = [reg EXCEPT ![req[p].name] = req[p].def]
        /\ outcome' = [outcome EXCEPT ![p] = "created"]
        /\ UNCHANGED <<req, told>>
    BY <1>3 DEF Commit, Decide
  <2>5. reg'[req[p].name] = req[p].def /\ \A n \in Names : n # req[p].name => reg'[n] = reg[n]
    BY <1>0, <2>1, <2>4 DEF Maps
  <2>6. TypeInv'
    BY <1>0, <2>1, <2>4 DEF TypeInv, Maps, Outcomes
  <2>7. ResultInv'
    BY <1>0, <2>1, <2>2, <2>4, <2>5, RequestParts DEF RegInv, ResultInv
  <2>8. ToldInv'
    BY <1>0, <2>3, <2>4, <2>5 DEF RegInv, ToldInv
  <2>9. WinnerInv'
    BY <1>0, <2>2, <2>4 DEF RegInv, WinnerInv
  <2>10. QED  BY <2>6, <2>7, <2>8, <2>9 DEF RegInv
<1>4. ASSUME NEW p \in Handlers, Conflict(p) \/ Fail(p) PROVE RegInv'
  <2>1. req[p] \in Requests /\ outcome[p] = "none"
    BY <1>0, <1>4 DEF Conflict, Fail, Undecided
  <2>2. /\ UNCHANGED <<reg, req, told>>
        /\ \/ outcome' = [outcome EXCEPT ![p] = "exists"] /\ reg[req[p].name] # NoDef
           \/ outcome' = [outcome EXCEPT ![p] = "failed"]
    BY <1>4 DEF Conflict, Fail, Decide
  <2>3. TypeInv' /\ ToldInv'
    BY <1>0, <2>2 DEF TypeInv, RegInv, ToldInv, Outcomes
  <2>4. ResultInv'
    BY <1>0, <2>1, <2>2 DEF RegInv, ResultInv
  <2>5. WinnerInv'
    BY <1>0, <2>2 DEF RegInv, WinnerInv
  <2>6. QED  BY <2>3, <2>4, <2>5 DEF RegInv
<1>5. ASSUME NEW p \in Handlers, Respond(p) PROVE RegInv'
  <2>1. /\ UNCHANGED reg
        /\ req' = [req EXCEPT ![p] = NoRequest] /\ outcome' = [outcome EXCEPT ![p] = "none"]
        /\ \/ told' = told
           \/ outcome[p] = "created" /\ told' = told \cup {<<req[p].name, req[p].def>>}
    BY <1>5 DEF Respond
  <2>2. told' \subseteq Names \X Defs /\ ToldInv'
    <3>1. CASE told' = told
      BY <1>0, <2>1, <3>1 DEF RegInv, ToldInv
    <3>2. CASE outcome[p] = "created" /\ told' = told \cup {<<req[p].name, req[p].def>>}
      <4>1. /\ req[p].name \in Names /\ req[p].def \in Defs /\ reg[req[p].name] = req[p].def
        BY <3>2, RequestParts DEF RegInv, ResultInv
      <4>2. QED  BY <1>0, <2>1, <3>2, <4>1 DEF RegInv, ToldInv
    <3>3. QED  BY <2>1, <3>1, <3>2
  <2>3. TypeInv'
    BY <1>0, <2>1, <2>2 DEF TypeInv, Outcomes
  <2>4. ResultInv' /\ WinnerInv'
    BY <1>0, <2>1 DEF RegInv, ResultInv, WinnerInv
  <2>5. QED  BY <2>2, <2>3, <2>4 DEF RegInv
<1>6. CASE Read
  <2>1. PICK S \in SUBSET Pairs(reg) : told' = told \cup S /\ UNCHANGED <<reg, req, outcome>>
    BY <1>6 DEF Read
  <2>2. \A t \in S : t \in Names \X Defs /\ reg[t[1]] = t[2]
    BY <1>0, <2>1 DEF Pairs, Maps
  <2>3. QED
    BY <1>0, <2>1, <2>2 DEF RegInv, TypeInv, ResultInv, ToldInv, WinnerInv
<1>7. CASE Restart
  <2>1. /\ reg' \in Maps /\ (told' = {} \/ (told' = told /\ reg' = reg))
        /\ req' = [p \in Handlers |-> NoRequest] /\ outcome' = [p \in Handlers |-> "none"]
    <3>1. NoServices \in Maps
      BY DEF NoServices, Maps
    <3>2. CASE Kept = "all"
      BY <1>0, <1>7, <3>2 DEF Restart
    <3>3. CASE Kept = "none"
      BY <1>7, <3>1, <3>3 DEF Restart
    <3>4. CASE Kept # "all" /\ Kept # "none"
      BY <1>7, <3>4 DEF Restart
    <3>5. QED  BY <3>2, <3>3, <3>4
  <2>2. QED
    BY <1>0, <2>1 DEF RegInv, TypeInv, ResultInv, ToldInv, WinnerInv, Outcomes
<1>8. QED
  BY <1>1, <1>2, <1>3, <1>4, <1>5, <1>6, <1>7 DEF Next

\* RegInv always holds.
LEMMA RegInvariance ==
  ASSUME NoDef \notin Defs
  PROVE  Spec => []RegInv
<1>1. RegInv /\ [Next]_vars => RegInv'
  BY RegStep
<1>2. QED  BY <1>1, RegInit, PTL DEF Spec

\* A client is told nothing that is not in the map, also after the restarts of a
\* map that outlives them.  (store.go:36-113)
THEOREM ToldIsInTheMap ==
  ASSUME NoDef \notin Defs
  PROVE  Spec => [](told \subseteq Pairs(reg))
<1>1. RegInv => told \subseteq Pairs(reg)
  <2> SUFFICES ASSUME RegInv, NEW t \in told PROVE t \in Pairs(reg)
    OBVIOUS
  <2>1. PICK n \in Names, d \in Defs : t = <<n, d>>
    BY DEF RegInv, TypeInv
  <2>2. reg[n] = d
    BY <2>1 DEF RegInv, ToldInv
  <2>3. QED  BY <2>1, <2>2 DEF Pairs
<1>2. QED  BY <1>1, RegInvariance, PTL

\* Of the requests for one name that wait for their answers one was granted at
\* most, and none that was refused for a name that is free.  (store.go:40-45)
THEOREM OneRequestIsGranted ==
  ASSUME NoDef \notin Defs
  PROVE  Spec => []( /\ WinnerInv
                     /\ \A p \in Handlers : outcome[p] = "exists" => reg[req[p].name] # NoDef )
<1>1. RegInv => /\ WinnerInv
                /\ \A p \in Handlers : outcome[p] = "exists" => reg[req[p].name] # NoDef
  BY DEF RegInv, ResultInv
<1>2. QED  BY <1>1, RegInvariance, PTL

\* A map that outlives restarts never loses or changes an entry.  (store.go:36-54, 86-143)
THEOREM EntriesStay ==
  ASSUME NoDef \notin Defs, Kept = "all"
  PROVE  Spec => [][\A n \in Names : reg[n] # NoDef => reg'[n] = reg[n]]_vars
<1>1. ASSUME RegInv, Next PROVE \A n \in Names : reg[n] # NoDef => reg'[n] = reg[n]
  <2>1. ASSUME NEW p \in Handlers, Commit(p)
        PROVE  \A n \in Names : reg[n] # NoDef => reg'[n] = reg[n]
    BY <1>1, <2>1 DEF Commit, RegInv, TypeInv, Maps
  <2>2. CASE Restart
    BY <2>2 DEF Restart
  <2>3. CASE UNCHANGED reg
    BY <2>3
  <2>4. Restart \/ UNCHANGED reg \/ \E p \in Handlers : Commit(p)
    BY <1>1 DEF Next, Invoke, Conflict, Fail, Respond, Read
  <2>5. QED  BY <2>1, <2>2, <2>3, <2>4
<1>2. RegInv /\ [Next]_vars => [\A n \in Names : reg[n] # NoDef => reg'[n] = reg[n]]_vars
  BY <1>1
<1>3. QED  BY <1>2, RegInvariance, PTL DEF Spec
=============================================================================
