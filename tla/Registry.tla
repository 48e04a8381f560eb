------------------------------ MODULE Registry ------------------------------
(***************************************************************************)
(* What the control plane's service registry promises its clients: a       *)
(* register-once map.  A request for a free name is committed at one       *)
(* instant, a request for a taken name is refused, a request may fail and  *)
(* then changes nothing, and whatever a client is told is in the map.      *)
(* A restart loses the requests in progress.  What it keeps of the map is  *)
(* a parameter: all of it (CONTROL_PLANE_STORE_PATH is set and the disk    *)
(* works), none (it is not set), or anything, when only what happens       *)
(* between two restarts is of interest.                                    *)
(* ServiceStore (services/control-plane/store.go) implements it.           *)
(***************************************************************************)
CONSTANTS Handlers,   \* goroutines that serve POST /services
          Names,      \* service names
          Defs,       \* service definitions, up to what the registry tells apart
          NoDef,      \* "no such key in the map"
          Kept        \* of the map over a restart: "all", "none" or "any"

VARIABLES reg,      \* the map of registered services
          req,      \* the request each handler is serving, if any
          outcome,  \* how it ended, "none" while it is undecided
          told      \* the <<name, definition>> pairs clients have been shown

vars == <<reg, req, outcome, told>>

Maps == [Names -> Defs \cup {NoDef}]
NoServices == [n \in Names |-> NoDef]
Requests == [name : Names, def : Defs]
NoRequest == [name |-> NoDef, def |-> NoDef]
Pairs(m) == {<<n, m[n]>> : n \in {k \in Names : m[k] # NoDef}}

Init == /\ reg \in Maps
        /\ req = [p \in Handlers |-> NoRequest]
        /\ outcome = [p \in Handlers |-> "none"]
        /\ told = {}

Undecided(p) == req[p] # NoRequest /\ outcome[p] = "none"

Invoke(p, r) == /\ req[p] = NoRequest
                /\ req' = [req EXCEPT ![p] = r]
                /\ UNCHANGED <<reg, outcome, told>>

Decide(p, o) == /\ outcome' = [outcome EXCEPT ![p] = o]
                /\ UNCHANGED <<req, told>>

Commit(p) == /\ Undecided(p)
             /\ reg[req[p].name] = NoDef
             /\ reg' = [reg EXCEPT ![req[p].name] = req[p].def]
             /\ Decide(p, "created")

Conflict(p) == /\ Undecided(p)
               /\ reg[req[p].name] # NoDef
               /\ Decide(p, "exists")
               /\ UNCHANGED reg

Fail(p) == Undecided(p) /\ Decide(p, "failed") /\ UNCHANGED reg

Respond(p) == /\ outcome[p] # "none"
              /\ told' = IF outcome[p] = "created"
                           THEN told \cup {<<req[p].name, req[p].def>>}
                           ELSE told
              /\ req' = [req EXCEPT ![p] = NoRequest]
              /\ outcome' = [outcome EXCEPT ![p] = "none"]
              /\ UNCHANGED reg

Read == \E S \in SUBSET Pairs(reg) : 
          told' = told \cup S /\ UNCHANGED <<reg, req, outcome>>

Restart == /\ reg' \in CASE Kept = "all" -> {reg}
                       [] Kept = "none" -> {NoServices}
                       [] OTHER -> Maps
           /\ told' = IF Kept = "all" THEN told ELSE {}
           /\ req' = [p \in Handlers |-> NoRequest]
           /\ outcome' = [p \in Handlers |-> "none"]

Next == \/ \E p \in Handlers : \/ \E r \in Requests : Invoke(p, r)
                               \/ Commit(p) \/ Conflict(p) \/ Fail(p)
                               \/ Respond(p)
        \/ Read
        \/ Restart

Spec == Init /\ [][Next]_vars

=============================================================================
