----------------------------- MODULE AuditTrail -----------------------------
(***************************************************************************)
(* The names of audit records (audit.go) and the bucket they go to.  Name  *)
(* and ID of a record are made of the time it was recorded at, the name of *)
(* the service with everything but letters and digits squeezed to single   *)
(* dashes, and the result.  The date directories of a name repeat the time *)
(* and the prefix is constant: neither tells two names apart.              *)
(*                                                                         *)
(* The bucket is external.  The role of the control plane                  *)
(* (infra/terraform/environments/prod/iam.tf) creates and reads objects;   *)
(* replacing one needs the right to delete, so that upload is refused.     *)
(***************************************************************************)
CONSTANTS Names,        \* names of services
          Segment,      \* sanitizeAuditPathSegment(), on Names
          Instants      \* bound: the nanoseconds at which records are made

ASSUME SegmentAssumption == DOMAIN Segment = Names

\* Faulty: the name is used as it is, unlike in the ID.
ObjectNameRaw(name, time, result) == <<time, name, result>>

\* buildAuditRecordID() and objectName()
RecordID(name, time, result) == <<time, Segment[name], result>>
ObjectName(name, time, result) == <<time, Segment[name], result>>

ObjectNames == {ObjectName(n, t, r) : n \in Names, t \in Instants, r \in {"success", "failure"}}

\* The objects of bucket b under a name
Under(b, object) == {r \in b : r.object = object}
=============================================================================
