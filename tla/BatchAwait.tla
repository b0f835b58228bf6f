----------------------------- MODULE BatchAwait -----------------------------
(***************************************************************************)
(* What pkg/cloudmap/operation_poller.go promises to its callers, without  *)
(* goroutines, channel or WaitGroup: a batch of Cloud Map operations is    *)
(* handed over, each one ends in success or in an error, and the batch     *)
(* returns once, when every operation has ended, with exactly the failures.*)
(* A reported success means that Cloud Map has carried the operation out;  *)
(* a reported error means nothing of the kind (the poll may have timed     *)
(* out, the answer may have been lost).                                    *)
(***************************************************************************)
CONSTANT Ops            \* the operations of the batch

VARIABLES applied,      \* the operations Cloud Map has carried out
          result,         \* what the poller knows of each operation
          returned,       \* has the call that awaits the batch returned?
          failed          \* the failures it returned (the error is nil iff {})

vars == <<applied, result, returned, failed>>

Init == /\ applied = {}
        /\ result = [o \in Ops |-> "running"]
        /\ returned = FALSE
        /\ failed = {}

Apply(o) == /\ applied' = applied \cup {o}
            /\ UNCHANGED <<result, returned, failed>>

Finish(o) == /\ result[o] = "running"
             /\ \/ o \in applied /\ result' = [result EXCEPT ![o] = "ok"]
                \/ result' = [result EXCEPT ![o] = "err"]
             /\ UNCHANGED <<applied, returned, failed>>

Return == /\ ~returned
          /\ \A o \in Ops : result[o] # "running"
          /\ returned' = TRUE
          /\ failed' = {o \in Ops : result[o] = "err"}
          /\ UNCHANGED <<applied, result>>

Next == \/ \E o \in Ops : Apply(o) \/ Finish(o)
        \/ Return

Spec == Init /\ [][Next]_vars
=============================================================================
