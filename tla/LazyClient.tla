----------------------------- MODULE LazyClient -----------------------------
(***************************************************************************)
(* The Kubernetes client of the client-go deployer (clientgo_deployer.go). *)
(* One deployer serves every handler of a process.  Its fields client and  *)
(* mapper are built by the first deployment that finds them nil, without a *)
(* lock, and read again for every object that is applied.                  *)
(*                                                                         *)
(* A field is an interface, two words: the type, which a test for nil      *)
(* reads, and the data, which a method call needs.  The compiler stores    *)
(* the type first, so between the two stores a field is "torn": not nil,   *)
(* and a call on it panics.  net/http recovers the panic and drops the     *)
(* connection; no code of the handler runs after it.  Storing over a built *)
(* field writes the same type and another good pointer: it stays "built".  *)
(* Stores become visible in program order, as on the amd64 of Cloud Run.   *)
(***************************************************************************)
EXTENDS Naturals

CONSTANTS Handlers,   \* goroutines that serve deployments
          Objects     \* objects of a bundle

ASSUME ObjectsAssumption == Objects \in Nat \ {0}

VARIABLES
  client, mapper,  \* the fields of the deployer
  at,              \* where each handler stands in Apply()
  sent,            \* objects it has applied
  early            \* history: handlers whose deployment began without a client

vars == <<client, mapper, at, sent, early>>

Fields == {"nil", "torn", "built"}
Building == {"build", "client", "client done", "mapper"}
Using == {"map", "patch"}
Over == {"applied", "failed", "panicked"}

TypeOK == /\ client \in Fields /\ mapper \in Fields
          /\ at \in [Handlers -> {"idle", "check client", "check mapper"} \cup Building \cup Using \cup Over]
          /\ sent \in [Handlers -> 0..Objects]
          /\ early \subseteq Handlers

Init == /\ client = "nil" /\ mapper = "nil"
        /\ at = [h \in Handlers |-> "idle"]
        /\ sent = [h \in Handlers |-> 0]
        /\ early = {}

Settled == client = "built" /\ mapper = "built"

Move(h, from, to) == at[h] = from /\ at' = [at EXCEPT ![h] = to]

\* A process starts with an empty deployer.
Restart == /\ client' = "nil" /\ mapper' = "nil"
           /\ at' = [h \in Handlers |-> "idle"]
           /\ sent' = [h \in Handlers |-> 0]
           /\ early' = {}

-----------------------------------------------------------------------------
(* ensureClient() *)

\* Faulty: the list of applied objects is kept from deployment to deployment.
ApplyKeepsSent(h) == /\ Move(h, "idle", "check client")
                     /\ early' = IF Settled THEN early \ {h} ELSE early \cup {h}
                     /\ UNCHANGED <<client, mapper, sent>>

Apply(h) == /\ Move(h, "idle", "check client")
            /\ sent' = [sent EXCEPT ![h] = 0]
            /\ early' = IF Settled THEN early \ {h} ELSE early \cup {h}
            /\ UNCHANGED <<client, mapper>>

\* Faulty: the client is built anew for every deployment.
CheckAlwaysBuilds(h) == /\ Move(h, "check client", "build")
                        /\ UNCHANGED <<client, mapper, sent, early>>

CheckClient(h) == /\ Move(h, "check client", IF client = "nil" THEN "build" ELSE "check mapper")
                  /\ UNCHANGED <<client, mapper, sent, early>>

CheckMapper(h) == /\ Move(h, "check mapper", IF mapper = "nil" THEN "build" ELSE "map")
                  /\ UNCHANGED <<client, mapper, sent, early>>

\* Faulty: a configuration that cannot be read drops the client.
BuildFailsAndClears(h) == /\ Move(h, "build", "failed")
                          /\ client' = "nil" /\ mapper' = "nil"
                          /\ UNCHANGED <<sent, early>>

\* No configuration, or one that makes no client.  The next deployment tries again.
BuildFails(h) == /\ Move(h, "build", "failed")
                 /\ UNCHANGED <<client, mapper, sent, early>>

HalfStored(field) == IF field = "nil" THEN "torn" ELSE field

StoreClientType(h) == /\ Move(h, "build", "client")
                      /\ client' = HalfStored(client)
                      /\ UNCHANGED <<mapper, sent, early>>
StoreClientData(h) == /\ Move(h, "client", "client done")
                      /\ client' = "built"
                      /\ UNCHANGED <<mapper, sent, early>>
StoreMapperType(h) == /\ Move(h, "client done", "mapper")
                      /\ mapper' = HalfStored(mapper)
                      /\ UNCHANGED <<client, sent, early>>
StoreMapperData(h) == /\ Move(h, "mapper", "map")
                      /\ mapper' = "built"
                      /\ UNCHANGED <<client, sent, early>>

-----------------------------------------------------------------------------
(* The loop of Apply(): the mapper is asked for the resource, the client    *)
(* patches it.  Calling a method of a field that is not built panics.       *)

Resolve(h) == /\ mapper = "built" /\ Move(h, "map", "patch")
              /\ UNCHANGED <<client, mapper, sent, early>>

Patch(h) == /\ client = "built"
            /\ Move(h, "patch", IF sent[h] + 1 = Objects THEN "applied" ELSE "map")
            /\ sent' = [sent EXCEPT ![h] = @ + 1]
            /\ UNCHANGED <<client, mapper, early>>

\* No mapping for the kind, a refused patch, a cancelled context.
ObjectFails(h) == /\ \/ mapper = "built" /\ Move(h, "map", "failed")
                     \/ client = "built" /\ Move(h, "patch", "failed")
                  /\ UNCHANGED <<client, mapper, sent, early>>

Panic(h) == /\ \/ mapper # "built" /\ Move(h, "map", "panicked")
               \/ client # "built" /\ Move(h, "patch", "panicked")
            /\ UNCHANGED <<client, mapper, sent, early>>

\* Apply() returns to the handler, or the panic leaves it.
Leave(h) == /\ at[h] \in Over
            /\ at' = [at EXCEPT ![h] = "idle"]
            /\ UNCHANGED <<client, mapper, sent, early>>

Working(h) == \/ CheckClient(h) \/ CheckMapper(h)
              \/ StoreClientType(h) \/ StoreClientData(h)
              \/ StoreMapperType(h) \/ StoreMapperData(h)
              \/ BuildFails(h) \/ Resolve(h) \/ Patch(h) \/ ObjectFails(h) \/ Panic(h)

Next == Restart \/ \E h \in Handlers : Apply(h) \/ Working(h) \/ Leave(h)

Spec == Init /\ [][Next]_vars

-----------------------------------------------------------------------------
\* A deployment that begins once there is a client neither builds one nor
\* panics, although others that began before may still be storing theirs over
\* it.  (clientgo_deployer.go:85, 104-105)
LateOnesAreSafe == \A h \in Handlers : at[h] \in Building \cup {"panicked"} => h \in early

\* A deployment that panics has applied nothing: the one that is neither
\* counted nor audited has not changed the cluster either.  The fields are
\* read again for each object, so this is about every later object, too.
\* (clientgo_deployer.go:50-75)
PanicAppliesNothing == \A h \in Handlers : at[h] = "panicked" => sent[h] = 0
=============================================================================
