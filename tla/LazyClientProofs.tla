-------------------------- MODULE LazyClientProofs --------------------------
(***************************************************************************)
(* What the unsynchronised client keeps to, for any number of handlers and *)
(* objects.  The argument: whoever stores the mapper has stored the client *)
(* before, so a mapper that is not nil implies a client that is built; and *)
(* once both are built no store takes that back.                           *)
(***************************************************************************)
EXTENDS LazyClient, TLAPS

\* A deployment in progress has objects left.
TypeInv == /\ TypeOK
           /\ \A h \in Handlers : at[h] \notin {"idle"} \cup Over => sent[h] < Objects

\* Where a handler stands says how far the fields are.
ProgressInv ==
  /\ mapper # "nil" => client = "built"
  /\ \A h \in Handlers :
       /\ at[h] = "client" => client # "nil"
       /\ at[h] \in {"client done", "mapper"} => client = "built"
       /\ at[h] \in {"mapper", "map"} => mapper # "nil"

\* An applied object shows that both fields are good.
SentInv == \A h \in Handlers : at[h] = "patch" \/ sent[h] # 0 => Settled

\* A deployment that is not early began with both fields good.
LateInv == \A h \in Handlers : at[h] # "idle" /\ h \notin early => Settled

IInv == TypeInv /\ ProgressInv /\ SentInv /\ LateInv /\ LateOnesAreSafe /\ PanicAppliesNothing

-----------------------------------------------------------------------------
\* The numbers that occur.
LEMMA Counts == /\ 0 \in 0..Objects /\ 0 < Objects
                /\ \A n \in 0..Objects : n < Objects =>
                     /\ n + 1 \in 0..Objects
                     /\ n + 1 # Objects => n + 1 < Objects
BY ObjectsAssumption

\* Every step keeps the types.
LEMMA TypeStep == TypeInv /\ [Next]_vars => TypeInv'
<1> SUFFICES ASSUME TypeInv, [Next]_vars PROVE TypeInv'
  OBVIOUS
<1> USE Counts DEF TypeInv, TypeOK, Fields, Building, Using, Over
<1>1. CASE Restart
  BY <1>1 DEF Restart
<1>2. ASSUME NEW h \in Handlers, Apply(h) PROVE TypeInv'
  BY <1>2 DEF Apply, Move
<1>3. ASSUME NEW h \in Handlers, Working(h) PROVE TypeInv'
  <2>1. CASE CheckClient(h) \/ CheckMapper(h) \/ BuildFails(h)
    BY <2>1 DEF CheckClient, CheckMapper, BuildFails, Move
  <2>2. CASE \/ StoreClientType(h) \/ StoreClientData(h)
             \/ StoreMapperType(h) \/ StoreMapperData(h)
    BY <2>2 DEF StoreClientType, StoreClientData, StoreMapperType, StoreMapperData, HalfStored, Move
  <2>3. CASE Resolve(h) \/ ObjectFails(h) \/ Panic(h)
    BY <2>3 DEF Resolve, ObjectFails, Panic, Move
  <2>4. CASE Patch(h)
    BY <2>4 DEF Patch, Move
  <2> QED
    BY <1>3, <2>1, <2>2, <2>3, <2>4 DEF Working
<1>4. ASSUME NEW h \in Handlers, Leave(h) PROVE TypeInv'
  BY <1>4 DEF Leave
<1>5. CASE UNCHANGED vars
  BY <1>5 DEF vars
<1> QED
  BY <1>1, <1>2, <1>3, <1>4, <1>5 DEF Next

\* No step of a process takes a field back that is built.
LEMMA BuiltStays ==
  ASSUME NEW h \in Handlers, Apply(h) \/ Working(h) \/ Leave(h)
  PROVE /\ client = "built" => client' = "built"
        /\ mapper = "built" => mapper' = "built"
        /\ client # "nil" => client' # "nil"
        /\ mapper # "nil" => mapper' # "nil"
BY DEF Apply, Leave, Working, CheckClient, CheckMapper, BuildFails, StoreClientType, StoreClientData,
       StoreMapperType, StoreMapperData, HalfStored, Resolve, Patch, ObjectFails, Panic

\* The step of a handler moves no other.
LEMMA OneMoves ==
  ASSUME NEW h \in Handlers, TypeInv, Apply(h) \/ Working(h) \/ Leave(h)
  PROVE \A g \in Handlers \ {h} : at'[g] = at[g] /\ sent'[g] = sent[g] /\ (g \in early' <=> g \in early)
BY DEF Apply, Leave, Working, CheckClient, CheckMapper, BuildFails, StoreClientType, StoreClientData,
       StoreMapperType, StoreMapperData, Resolve, Patch, ObjectFails, Panic, Move, TypeInv, TypeOK

\* What a handler's own step makes of the invariant's part about it.
LEMMA OwnPart ==
  ASSUME NEW h \in Handlers, IInv, Apply(h) \/ Working(h) \/ Leave(h)
  PROVE /\ mapper' # "nil" => client' = "built"
        /\ at'[h] = "client" => client' # "nil"
        /\ at'[h] \in {"client done", "mapper"} => client' = "built"
        /\ at'[h] \in {"mapper", "map"} => mapper' # "nil"
        /\ at'[h] = "patch" \/ sent'[h] # 0 => Settled'
        /\ at'[h] # "idle" /\ h \notin early' => Settled'
        /\ at'[h] \in Building \cup {"panicked"} => h \in early'
        /\ at'[h] = "panicked" => sent'[h] = 0
<1> USE DEF IInv, TypeInv, TypeOK, Fields, ProgressInv, SentInv, LateInv, LateOnesAreSafe,
            PanicAppliesNothing, Settled, Building, Using, Over, Move
<1>1. CASE Apply(h)
  BY <1>1 DEF Apply
<1>2. CASE CheckClient(h) \/ CheckMapper(h) \/ BuildFails(h)
  BY <1>2 DEF CheckClient, CheckMapper, BuildFails
<1>3. CASE StoreClientType(h) \/ StoreClientData(h)
  BY <1>3 DEF StoreClientType, StoreClientData, HalfStored
<1>4. CASE StoreMapperType(h) \/ StoreMapperData(h)
  BY <1>4 DEF StoreMapperType, StoreMapperData, HalfStored
<1>5. CASE Resolve(h) \/ ObjectFails(h) \/ Patch(h)
  BY <1>5 DEF Resolve, ObjectFails, Patch
<1>6. CASE Panic(h)
  BY <1>6 DEF Panic
<1>7. CASE Leave(h)
  BY <1>7 DEF Leave
<1> QED
  BY <1>1, <1>2, <1>3, <1>4, <1>5, <1>6, <1>7 DEF Working

\* Every step keeps IInv.
LEMMA Inductive == IInv /\ [Next]_vars => IInv'
<1> SUFFICES ASSUME IInv, [Next]_vars PROVE IInv'
  OBVIOUS
<1>1. TypeInv'
  BY TypeStep DEF IInv
<1>2. CASE Restart
  BY <1>1, <1>2 DEF Restart, IInv, ProgressInv, SentInv, LateInv, LateOnesAreSafe,
                    PanicAppliesNothing, Building
<1>3. ASSUME NEW h \in Handlers, Apply(h) \/ Working(h) \/ Leave(h) PROVE IInv'
  <2>1. TypeInv
    BY DEF IInv
  <2> QED
    BY <1>1, <1>3, <2>1, BuiltStays, OneMoves, OwnPart
       DEF IInv, ProgressInv, SentInv, LateInv, LateOnesAreSafe, PanicAppliesNothing, Settled
<1>4. CASE UNCHANGED vars
  BY <1>1, <1>4 DEF vars, IInv, ProgressInv, SentInv, LateInv, LateOnesAreSafe, PanicAppliesNothing,
                    Settled
<1> QED
  BY <1>2, <1>3, <1>4 DEF Next

\* The first state.
LEMMA Initially == Init => IInv
BY Counts
   DEF Init, IInv, TypeInv, TypeOK, Fields, Over, ProgressInv, SentInv, LateInv, LateOnesAreSafe,
       PanicAppliesNothing, Building

\* IInv always holds.
LEMMA Invariance == Spec => []IInv
BY Initially, Inductive, PTL DEF Spec

-----------------------------------------------------------------------------
\* The fields, the places of the handlers and the counts of applied objects
\* keep their types: no deployment applies more objects than its bundle has.
\* (clientgo_deployer.go:39-82)
THEOREM TypeCorrect == Spec => []TypeOK
<1>1. IInv => TypeOK
  BY DEF IInv, TypeInv
<1> QED
  BY <1>1, Invariance, PTL

\* A deployment that begins once there is a client neither builds one nor
\* panics, however many that began before are still storing theirs.
\* (clientgo_deployer.go:84-107)
THEOREM LateDeploymentsAreSafe == Spec => []LateOnesAreSafe
<1>1. IInv => LateOnesAreSafe
  BY DEF IInv
<1> QED
  BY <1>1, Invariance, PTL

\* A deployment that panics has changed nothing in the cluster, whichever
\* object it was about to apply.  (clientgo_deployer.go:50-75)
THEOREM PanicsApplyNothing == Spec => []PanicAppliesNothing
<1>1. IInv => PanicAppliesNothing
  BY DEF IInv
<1> QED
  BY <1>1, Invariance, PTL
=============================================================================
