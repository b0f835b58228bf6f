------------------------ MODULE MCCloudMapReconciler ------------------------
(***************************************************************************)
(* Model checking of CloudMapReconciler.                                   *)
(***************************************************************************)
EXTENDS CloudMapReconciler

CONSTANTS p, q, m, n

Endpoint(id, name, type) == [port |-> [id |-> id, name |-> name], type |-> type]

(* One port, or two of which one has the same id and another name, of a    *)
(* headless Service.                                                       *)
MCExports == {{}, {Endpoint(p, m, "ClusterSetIP")},
              {Endpoint(p, n, "Headless"), Endpoint(q, m, "Headless")}}
=============================================================================
