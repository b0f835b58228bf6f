---------------------------- MODULE ExportHistory ----------------------------
(***************************************************************************)
(* ServiceExport with three history variables, and what holds of clean-up  *)
(* and of a controller at rest whatever goes wrong: outdated copies, an    *)
(* importer that fills the shared cache late, lost operations, restarts and*)
(* failed reads.  None of these excuses the properties as a whole: each names the *)
(* endpoints about which Reconcile was told something wrong, and the runs  *)
(* that break the plain properties show that these exist.                  *)
(***************************************************************************)
EXTENDS ServiceExport

VARIABLES
  overlooked, \* endpoints the last plan wrongly left alone, or all (see NoteDecision)
  dropped,    \* did the last reconciliation give up on a failed read, unqueued?
  outdated    \* did the present one start from an outdated copy of the export?

histVars == <<overlooked, dropped, outdated>>
varsH == <<vars, histVars>>

InitH == Init /\ overlooked = {} /\ dropped = FALSE /\ outdated = FALSE

(* The export Reconcile works for is there, and held by the finalizer.     *)
Held == export.gen # 0 /\ export.gen = exp.gen /\ export.fin

(* The endpoints that the client's answer shows as they should be, so that *)
(* nothing is done about them, and that are not so in Cloud Map or will not*)
(* stay so.                                                                *)
Misjudged(desired) ==
  {i \in OwnIds : /\ view["exporter"][i] = desired[i]
                  /\ inst[i] # desired[i] \/ pend[i] \notin {NoOp, desired[i]}}

(* The two points at which Reconcile decides what to write: handleUpdate   *)
(* with a plan, handleDelete with the service or with NotFound.            *)
UpdateDecision == (GotService \/ GotCreatedService) /\ Outcome = "ok" /\ readErrors' = readErrors
DeleteDecision == GotServiceToDelete /\ ~IsUnknown(Outcome)

NoteDecision ==
  overlooked' = IF ~(UpdateDecision \/ DeleteDecision) THEN overlooked
                ELSE IF ~Held THEN OwnIds
                ELSE IF UpdateDecision THEN Misjudged(seenPods) ELSE Misjudged(NoPods)

(* The key leaves the queue: taken by Reconcile, or after a failed read.   *)
NoteDropped == dropped' = IF queued /\ ~queued' THEN readErrors' # readErrors ELSE dropped

NoteOutdated == outdated' = IF epc' = "idle" THEN FALSE
                            ELSE IF epc = "idle" THEN seenExport # export ELSE outdated

NextH == Next /\ NoteDecision /\ NoteDropped /\ NoteOutdated
SpecH == InitH /\ [][NextH]_varsH
FairSpecH == SpecH /\ Fairness

-----------------------------------------------------------------------------
(* "Add the finalizer to the service export if not present, ensures the    *)
(* ServiceExport won't be deleted" (serviceexport_controller.go:153): while*)
(* handleUpdate works on Cloud Map, the export it works for is there and   *)
(* has the finalizer, whatever users and the garbage collector do.  Only a *)
(* reconciliation that started from an outdated copy may work without it,  *)
(* and then it is not the last word: the key is in the queue, or the event *)
(* that puts it there is still to come.                                    *)
FinalizerHeldOrNoticed ==
  epc \in UpdateSteps => Held \/ (outdated /\ (queued \/ seenExport # export))

(* "finalizer to perform cloudmap resource cleanup on delete" (utils.go:24)*)
(* : an endpoint that Cloud Map has, or is about to register, is covered by*)
(* the finalizer of the export, except one that the last decision passed   *)
(* over.  So handleDelete never lets go of what it has tried to delete:    *)
(* operations that fail, are lost or end late, a Service that comes back   *)
(* and a restart between any two steps included.                           *)
CleanedUpUnlessOverlooked ==
  \A i \in OwnIds : inst[i] # NoInst \/ pend[i] \in Vals
                      => (export.gen # 0 /\ export.fin) \/ i \in overlooked

(* Nothing is lost between events: at rest Cloud Map has what this cluster *)
(* exports, except for endpoints the last decision passed over, and unless *)
(* the last reconciliation gave up on a failed read of the export or the   *)
(* Service, which nothing puts back (serviceexport_controller.go:68, 83).  *)
RestMeansExportedUnlessOverlooked ==
  AtRest => dropped \/ \A i \in OwnIds \ overlooked : inst[i] = Target[i]
=============================================================================
