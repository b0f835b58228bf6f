----------------------------- MODULE EndpointPlan -----------------------------
(***************************************************************************)
(* pkg/model/plan.go: the changes that turn the endpoints Cloud Map has    *)
(* (Current) into the ones the cluster has (Desired).                      *)
(*                                                                         *)
(* Plan works on lists and finds endpoints by id; here a list whose ids are*)
(* distinct is a function from ids to the endpoint's contents, `none` where*)
(* the list has no endpoint.  PlanRounds relates the lists to these.       *)
(***************************************************************************)

(* Mutated forms: new endpoints are not seen; stale ones are kept.         *)
CreatesNone(current, desired, none) == {}
DeletesNone(current, desired, none) == {}

(* The three results of CalculateChanges.                                  *)
Creates(current, desired, none) ==
  {i \in DOMAIN desired : desired[i] # none /\ current[i] = none}

Updates(current, desired, none) ==
  {i \in DOMAIN desired : /\ desired[i] # none /\ current[i] # none
                          /\ ~(current[i] = desired[i])}

Deletes(current, desired, none) ==
  {i \in DOMAIN desired : desired[i] = none /\ current[i] # none}
=============================================================================
