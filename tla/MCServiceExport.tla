--------------------------- MODULE MCServiceExport ---------------------------
(***************************************************************************)
(* Model checking of ServiceExport; the cfg files choose the bounds.       *)
(***************************************************************************)
EXTENDS ServiceExport, TLC

(* The service is in Cloud Map from the start: another cluster exports it. *)
ServiceThere == Init /\ svcExists
SpecServiceThere == ServiceThere /\ [][Next]_vars

(* The endpoints of this cluster are interchangeable.                      *)
SymmetricIds == Permutations(OwnIds)

(* A state the controller settles in: the Service has been exported and is *)
(* registered, other clusters have their instances, and the caches have    *)
(* expired.                                                                *)
AnyVal == CHOOSE v \in Vals : TRUE
Settled ==
  /\ nsExists = TRUE /\ nsPend = FALSE /\ svcExists = TRUE
  /\ pods = [i \in OwnIds |-> AnyVal] /\ seenPods = pods
  /\ inst = [i \in Ids |-> AnyVal]
  /\ pend = [i \in Ids |-> NoOp]
  /\ nsCache = "miss" /\ svcCache = "miss"
  /\ epCache = [hit |-> FALSE, view |-> Empty]
  /\ cpc = [t \in Threads |-> "idle"] /\ fn = [t \in Threads |-> "none"]
  /\ found = [t \in Threads |-> FALSE] /\ view = [t \in Threads |-> Empty]
  /\ ret = [t \in Threads |-> "none"]
  /\ req = [i \in Ids |-> NoOp] /\ batch = [i \in Ids |-> "none"]
  /\ acked = [i \in Ids |-> IF i \in OwnIds THEN pods[i] ELSE NoOp]
  /\ export = [gen |-> 1, deleting |-> FALSE, fin |-> TRUE, owner |-> 1]
  /\ seenExport = export /\ exp = NoExport
  /\ service = 1 /\ seenService = 1 /\ svc = 0
  /\ exports = 1 /\ services = 1
  /\ podChanges = 0 /\ readErrors = 0 /\ restarts = 0 /\ errors = 0 /\ lost = 0 /\ foreign = 0
  /\ queued = FALSE /\ epc = "idle" /\ dels = {}
=============================================================================
