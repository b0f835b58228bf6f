------------------------ MODULE OperationPollerProofs ------------------------
(***************************************************************************)
(* The safety properties of OperationPoller and its refinement of          *)
(* BatchAwait, for any number of operations and any timeout.               *)
(***************************************************************************)
EXTENDS OperationPoller, FiniteSetTheorems, TLAPS

(* The goroutines that have been started and have not called Done: what the*)
(* WaitGroup counts.                                                       *)
Running == {o \in Ops : gr[o] \notin {"none", "exit"}}

(* Where caller, closer and goroutines are relative to each other.         *)
ControlInv ==
  /\ main = "submit" <=> closer = "none"
  /\ closed <=> closer = "exit"
  /\ main = "done" => closed
  /\ main # "submit" => \A o \in Ops : gr[o] # "none"
  /\ closed => \A o \in Ops : gr[o] = "exit"

(* What a goroutine knows, and what the caller knows of it.                *)
ResultInv ==
  /\ \A o \in Ops : res[o] = "none" <=> gr[o] \in {"none", "provider", "poll"}
  /\ \A o \in Ops : res[o] = "ok" => status[o] = "success"
  /\ \A o \in Ops : gr[o] \in {"none", "provider"} => status[o] = "absent"
  /\ err = {o \in Ops : gr[o] \in {"sent", "exit"} /\ res[o] = "err"}

(* The inductive invariant.  NoPanic does not survive a step on its own:   *)
(* that nobody sends on the closed channel rests on the WaitGroup being the*)
(* number of running goroutines.                                           *)
PollerInv == TypeOK /\ wg = Cardinality(Running) /\ ControlInv /\ ResultInv

-----------------------------------------------------------------------------
(* The WaitGroup counts a finite set; at zero no goroutine is running.     *)
LEMMA RunningFinite == ASSUME TypeOK PROVE IsFiniteSet(Running)
BY PollerAssumption, FS_Subset, Running \subseteq Ops DEF Running

LEMMA NoneRunning ==
  ASSUME TypeOK, Cardinality(Running) = 0
  PROVE  \A o \in Ops : gr[o] \in {"none", "exit"}
BY RunningFinite, FS_EmptySet DEF Running

(* Where a goroutine starts, the set grows by it.                          *)
LEMMA RunningGrows ==
  ASSUME TypeOK, NEW o \in Ops, gr[o] = "none", NEW l \in {"provider", "poll", "send", "sent"},
         gr' = [gr EXCEPT ![o] = l]
  PROVE  Cardinality(Running') = Cardinality(Running) + 1
<1>1. Running' = Running \cup {o} BY DEF TypeOK, Running
<1>2. o \notin Running BY DEF Running
<1> QED BY <1>1, <1>2, RunningFinite, FS_AddElement

(* Where it exits, the set shrinks by it.                                  *)
LEMMA RunningShrinks ==
  ASSUME TypeOK, NEW o \in Ops, gr[o] = "sent", gr' = [gr EXCEPT ![o] = "exit"]
  PROVE  Cardinality(Running') = Cardinality(Running) - 1
<1>1. Running' = Running \ {o} BY DEF TypeOK, Running
<1>2. o \in Running BY DEF Running
<1> QED BY <1>1, <1>2, RunningFinite, FS_RemoveElement

(* Where it moves on, the set stays.                                       *)
LEMMA RunningStays ==
  ASSUME TypeOK, NEW o \in Ops, gr[o] \in {"provider", "poll", "send"},
         NEW l \in {"poll", "send", "sent"}, gr' = [gr EXCEPT ![o] = l]
  PROVE  Running' = Running
BY DEF TypeOK, Running

-----------------------------------------------------------------------------
LEMMA InitInv == Init => PollerInv
<1> SUFFICES ASSUME Init PROVE PollerInv OBVIOUS
<1>1. TypeOK
  <2>1. 0 \in 0..MaxPolls BY PollerAssumption
  <2>2. polls \in [Ops -> 0..MaxPolls] BY <2>1 DEF Init
  <2>3. gr \in [Ops -> {"none", "provider", "poll", "send", "sent", "exit"}]
    BY DEF Init
  <2>4. res \in [Ops -> {"none", "ok", "err"}] BY DEF Init
  <2>5. status \in [Ops -> Statuses] BY DEF Init, Statuses
  <2>6. main \in {"submit", "range", "done"} /\ closer \in {"none", "wait", "exit"}
        /\ err \in SUBSET Ops
    BY DEF Init
  <2>7. closed \in BOOLEAN BY DEF Init
  <2>8. wg \in Int BY DEF Init
  <2> QED BY <2>2, <2>3, <2>4, <2>5, <2>6, <2>7, <2>8 DEF TypeOK
<1>2. wg = Cardinality(Running)
  <2>1. Running = {} BY DEF Init, Running
  <2> QED BY <2>1, FS_EmptySet DEF Init
<1>3. ControlInv BY DEF Init, ControlInv
<1>4. ResultInv BY DEF Init, ResultInv
<1> QED BY <1>1, <1>2, <1>3, <1>4 DEF PollerInv

(* A step of the type invariant alone.                                     *)
LEMMA NextType == ASSUME TypeOK, [Next]_vars PROVE TypeOK'
<1> USE PollerAssumption DEF TypeOK, Statuses
<1>1. CASE UNCHANGED vars BY <1>1 DEF vars
<1>2. ASSUME NEW o \in Ops, Submit(o) PROVE TypeOK' BY <1>2 DEF Submit
<1>3. ASSUME NEW o \in Ops, Provide(o) PROVE TypeOK' BY <1>3 DEF Provide
<1>4. ASSUME NEW o \in Ops, PollEnds(o) PROVE TypeOK' BY <1>4 DEF PollEnds, Outcome
<1>5. ASSUME NEW o \in Ops, PollErrs(o) PROVE TypeOK' BY <1>5 DEF PollErrs
<1>6. ASSUME NEW o \in Ops, PollPending(o) PROVE TypeOK'
  BY <1>6 DEF PollPending, PollTimedOut
<1>7. ASSUME NEW o \in Ops, SendReceive(o) PROVE TypeOK' BY <1>7 DEF SendReceive, Collect
<1>8. ASSUME NEW o \in Ops, Done(o) PROVE TypeOK' BY <1>8 DEF Done
<1>9. ASSUME NEW o \in Ops, OperationEnds(o) PROVE TypeOK' BY <1>9 DEF OperationEnds
<1>10. CASE StartAwait BY <1>10 DEF StartAwait
<1>11. CASE Close BY <1>11 DEF Close
<1>12. CASE AwaitReturns BY <1>12 DEF AwaitReturns
<1>13. CASE Terminated BY <1>13 DEF Terminated, vars
<1> QED BY <1>1, <1>2, <1>3, <1>4, <1>5, <1>6, <1>7, <1>8, <1>9, <1>10, <1>11, <1>12, <1>13
        DEF Next, Goroutine

(* One step per action: the WaitGroup, the control part, the result part.  *)
LEMMA NextInv == ASSUME PollerInv, [Next]_vars PROVE PollerInv'
<1> USE DEF PollerInv
<1>0. TypeOK' BY NextType
<1>1. CASE UNCHANGED vars
  BY <1>0, <1>1 DEF vars, Running, ControlInv, ResultInv
<1>2. ASSUME NEW o \in Ops, Submit(o) PROVE PollerInv'
  <2>1. wg' = Cardinality(Running') BY <1>2, RunningGrows DEF Submit
  <2>2. ControlInv' BY <1>2 DEF Submit, TypeOK, ControlInv
  <2>3. ResultInv' BY <1>2 DEF Submit, TypeOK, ResultInv
  <2> QED BY <1>0, <2>1, <2>2, <2>3
<1>3. ASSUME NEW o \in Ops, Provide(o) PROVE PollerInv'
  <2>1. wg' = Cardinality(Running') BY <1>3, RunningStays DEF Provide
  <2>2. ControlInv' BY <1>3 DEF Provide, TypeOK, ControlInv
  <2>3. ResultInv' BY <1>3 DEF Provide, TypeOK, ResultInv
  <2> QED BY <1>0, <2>1, <2>2, <2>3
<1>4. ASSUME NEW o \in Ops, PollEnds(o) PROVE PollerInv'
  <2>1. wg' = Cardinality(Running') BY <1>4, RunningStays DEF PollEnds
  <2>2. ControlInv' BY <1>4 DEF PollEnds, TypeOK, ControlInv
  <2>3. ResultInv' BY <1>4 DEF PollEnds, Outcome, TypeOK, ResultInv
  <2> QED BY <1>0, <2>1, <2>2, <2>3
<1>5. ASSUME NEW o \in Ops, PollErrs(o) PROVE PollerInv'
  <2>1. wg' = Cardinality(Running') BY <1>5, RunningStays DEF PollErrs
  <2>2. ControlInv' BY <1>5 DEF PollErrs, TypeOK, ControlInv
  <2>3. ResultInv' BY <1>5 DEF PollErrs, TypeOK, ResultInv
  <2> QED BY <1>0, <2>1, <2>2, <2>3
<1>6. ASSUME NEW o \in Ops, PollPending(o) PROVE PollerInv'
  <2>1. wg' = Cardinality(Running')
    BY <1>6, RunningStays DEF PollPending, PollTimedOut, Running
  <2>2. ControlInv' BY <1>6 DEF PollPending, TypeOK, ControlInv
  <2>3. ResultInv' BY <1>6 DEF PollPending, TypeOK, ResultInv
  <2> QED BY <1>0, <2>1, <2>2, <2>3
<1>7. ASSUME NEW o \in Ops, SendReceive(o) PROVE PollerInv'
  <2>1. wg' = Cardinality(Running') BY <1>7, RunningStays DEF SendReceive
  <2>2. ControlInv' BY <1>7 DEF SendReceive, TypeOK, ControlInv
  <2>3. ResultInv' BY <1>7 DEF SendReceive, Collect, TypeOK, ResultInv
  <2> QED BY <1>0, <2>1, <2>2, <2>3
<1>8. ASSUME NEW o \in Ops, Done(o) PROVE PollerInv'
  <2>1. wg' = Cardinality(Running') BY <1>8, RunningShrinks DEF Done
  <2>2. ControlInv' BY <1>8 DEF Done, TypeOK, ControlInv
  <2>3. ResultInv' BY <1>8 DEF Done, TypeOK, ResultInv
  <2> QED BY <1>0, <2>1, <2>2, <2>3
<1>9. ASSUME NEW o \in Ops, OperationEnds(o) PROVE PollerInv'
  <2>1. wg' = Cardinality(Running') BY <1>9 DEF OperationEnds, Running
  <2>2. ControlInv' BY <1>9 DEF OperationEnds, ControlInv
  <2>3. ResultInv' BY <1>9 DEF OperationEnds, TypeOK, ResultInv
  <2> QED BY <1>0, <2>1, <2>2, <2>3
<1>10. CASE StartAwait
  <2>1. wg' = Cardinality(Running') BY <1>10 DEF StartAwait, Running
  <2>2. ControlInv' BY <1>10 DEF StartAwait, ControlInv
  <2>3. ResultInv' BY <1>10 DEF StartAwait, ResultInv
  <2> QED BY <1>0, <2>1, <2>2, <2>3
<1>11. CASE Close
  <2>1. wg' = Cardinality(Running') BY <1>11 DEF Close, Running
  <2>2. ControlInv' BY <1>11, NoneRunning DEF Close, WaitReturns, ControlInv
  <2>3. ResultInv' BY <1>11 DEF Close, ResultInv
  <2> QED BY <1>0, <2>1, <2>2, <2>3
<1>12. CASE AwaitReturns
  <2>1. wg' = Cardinality(Running') BY <1>12 DEF AwaitReturns, Running
  <2>2. ControlInv' BY <1>12 DEF AwaitReturns, RangeEnds, ControlInv
  <2>3. ResultInv' BY <1>12 DEF AwaitReturns, ResultInv
  <2> QED BY <1>0, <2>1, <2>2, <2>3
<1>13. CASE Terminated BY <1>1, <1>13 DEF Terminated
<1> QED BY <1>1, <1>2, <1>3, <1>4, <1>5, <1>6, <1>7, <1>8, <1>9, <1>10, <1>11, <1>12, <1>13
        DEF Next, Goroutine

(* The inductive invariant holds in every state of the poller.             *)
THEOREM PollerInvariant == Spec => []PollerInv
BY InitInv, NextInv, PTL DEF Spec

(* Every variable of the poller keeps its type.                            *)
THEOREM TypeCorrect == Spec => []TypeOK
BY PollerInvariant, PTL DEF PollerInv

(* No goroutine is left that could send on the closed channel, and the     *)
(* WaitGroup is never negative: Submit and Await cannot panic.             *)
THEOREM PollerNoPanic == Spec => []NoPanic
<1>1. PollerInv => NoPanic
  <2> SUFFICES ASSUME PollerInv PROVE NoPanic OBVIOUS
  <2>1. wg \in Nat BY RunningFinite, FS_CardinalityType DEF PollerInv
  <2> QED BY <2>1 DEF PollerInv, ControlInv, NoPanic
<1> QED BY <1>1, PollerInvariant, PTL

(* Await has the result of every operation when it returns, and its error  *)
(* mentions exactly the failed ones.                                       *)
THEOREM PollerCollectsAll == Spec => []AwaitCollectsAll
<1>1. PollerInv => AwaitCollectsAll
  BY DEF PollerInv, ControlInv, ResultInv, AwaitCollectsAll
<1> QED BY <1>1, PollerInvariant, PTL

(* Await returns nil only if Cloud Map carried out every operation.        *)
THEOREM PollerNilMeansApplied == Spec => []NilMeansApplied
<1>1. PollerInv => NilMeansApplied
  <2> SUFFICES ASSUME PollerInv, main = "done", err = {}, NEW o \in Ops
               PROVE  status[o] = "success"
    BY DEF NilMeansApplied
  <2>1. gr[o] = "exit" BY DEF PollerInv, ControlInv
  <2>2. res[o] # "none" /\ res[o] # "err" BY <2>1 DEF PollerInv, ResultInv
  <2>3. res[o] = "ok" BY <2>2 DEF PollerInv, TypeOK
  <2> QED BY <2>3 DEF PollerInv, ResultInv
<1> QED BY <1>1, PollerInvariant, PTL

-----------------------------------------------------------------------------
(* The refinement mapping of Batch, by name.                               *)
Applied == {o \in Ops : status[o] = "success"}
Result == [o \in Ops |-> IF gr[o] \in {"none", "provider", "poll"}
                         THEN "running" ELSE res[o]]
Returned == main = "done"
Failed == IF main = "done" THEN err ELSE {}

LEMMA BatchInit == Init => Batch!Init
BY DEF Init, Batch!Init

(* A step that leaves the four mapped values alone is invisible.           *)
LEMMA BatchQuiet ==
  ASSUME UNCHANGED <<Applied, Result, Returned, Failed>>
  PROVE  [Batch!Next]_Batch!vars
BY DEF Batch!vars, Applied, Result, Returned, Failed

(* A goroutine that learns its result r is a Finish of BatchAwait.         *)
LEMMA BatchFinish ==
  ASSUME TypeOK, NEW o \in Ops, gr[o] \in {"provider", "poll"},
         NEW r \in {"ok", "err"}, r = "ok" => status[o] = "success",
         gr' = [gr EXCEPT ![o] = "send"], res' = [res EXCEPT ![o] = r],
         UNCHANGED <<Applied, Returned, Failed>>
  PROVE  [Batch!Next]_Batch!vars
<1>1. Result[o] = "running" BY DEF Result
<1>2. Result' = [Result EXCEPT ![o] = r]
  <2>1. \A p \in Ops : Result'[p] = [Result EXCEPT ![o] = r][p]
    BY DEF TypeOK, Result
  <2> QED BY <2>1 DEF Result
<1>3. CASE r = "ok"
  <2>1. o \in Applied BY <1>3 DEF Applied
  <2>2. Batch!Finish(o)
    BY <1>1, <1>2, <1>3, <2>1 DEF Batch!Finish, Applied, Result, Returned, Failed
  <2> QED BY <2>2 DEF Batch!Next
<1>4. CASE r = "err"
  <2>1. Batch!Finish(o)
    BY <1>1, <1>2, <1>4 DEF Batch!Finish, Applied, Result, Returned, Failed
  <2> QED BY <2>1 DEF Batch!Next
<1> QED BY <1>3, <1>4

(* The steps of a goroutine up to its result, the caller's return and the  *)
(* end of an operation in Cloud Map are the steps of BatchAwait; the rest  *)
(* is invisible to it.                                                     *)
LEMMA BatchNext == ASSUME PollerInv, [Next]_vars PROVE [Batch!Next]_Batch!vars
<1> USE DEF PollerInv
<1>1. CASE UNCHANGED vars
  BY <1>1, BatchQuiet DEF vars, Applied, Result, Returned, Failed
<1>2. ASSUME NEW o \in Ops, Submit(o) PROVE [Batch!Next]_Batch!vars
  <2>1. UNCHANGED Result
    <3>1. \A p \in Ops : Result'[p] = Result[p] BY <1>2 DEF Submit, TypeOK, Result
    <3> QED BY <3>1 DEF Result
  <2> QED BY <1>2, <2>1, BatchQuiet DEF Submit, Applied, Returned, Failed
<1>3. ASSUME NEW o \in Ops, Provide(o) PROVE [Batch!Next]_Batch!vars
  <2>1. UNCHANGED <<Applied, Returned, Failed>>
    BY <1>3 DEF Provide, TypeOK, ResultInv, Applied, Returned, Failed
  <2>2. CASE gr' = [gr EXCEPT ![o] = "poll"] /\ UNCHANGED res
    <3>1. \A p \in Ops : Result'[p] = Result[p] BY <1>3, <2>2 DEF Provide, TypeOK, Result
    <3>2. UNCHANGED Result BY <3>1 DEF Result
    <3> QED BY <2>1, <3>2, BatchQuiet
  <2>3. CASE gr' = [gr EXCEPT ![o] = "send"] /\ res' = [res EXCEPT ![o] = "err"]
    BY <1>3, <2>1, <2>3, BatchFinish DEF Provide
  <2> QED BY <1>3, <2>2, <2>3 DEF Provide
<1>4. ASSUME NEW o \in Ops, PollEnds(o) PROVE [Batch!Next]_Batch!vars
  <2>1. UNCHANGED <<Applied, Returned, Failed>>
    BY <1>4 DEF PollEnds, Applied, Returned, Failed
  <2> QED BY <1>4, <2>1, BatchFinish DEF PollEnds, Outcome
<1>5. ASSUME NEW o \in Ops, PollErrs(o) PROVE [Batch!Next]_Batch!vars
  <2>1. UNCHANGED <<Applied, Returned, Failed>>
    BY <1>5 DEF PollErrs, Applied, Returned, Failed
  <2> QED BY <1>5, <2>1, BatchFinish DEF PollErrs
<1>6. ASSUME NEW o \in Ops, PollPending(o) PROVE [Batch!Next]_Batch!vars
  <2>1. UNCHANGED <<Applied, Returned, Failed>>
    BY <1>6 DEF PollPending, Applied, Returned, Failed
  <2>2. CASE UNCHANGED <<gr, res>> BY <2>1, <2>2, BatchQuiet DEF Result
  <2>3. CASE gr' = [gr EXCEPT ![o] = "send"] /\ res' = [res EXCEPT ![o] = "err"]
    BY <1>6, <2>1, <2>3, BatchFinish DEF PollPending
  <2> QED BY <1>6, <2>2, <2>3 DEF PollPending
<1>7. ASSUME NEW o \in Ops, SendReceive(o) PROVE [Batch!Next]_Batch!vars
  <2>1. UNCHANGED Result
    <3>1. \A p \in Ops : Result'[p] = Result[p] BY <1>7 DEF SendReceive, TypeOK, Result
    <3> QED BY <3>1 DEF Result
  <2> QED BY <1>7, <2>1, BatchQuiet DEF SendReceive, Applied, Returned, Failed
<1>8. ASSUME NEW o \in Ops, Done(o) PROVE [Batch!Next]_Batch!vars
  <2>1. UNCHANGED Result
    <3>1. \A p \in Ops : Result'[p] = Result[p] BY <1>8 DEF Done, TypeOK, Result
    <3> QED BY <3>1 DEF Result
  <2> QED BY <1>8, <2>1, BatchQuiet DEF Done, Applied, Returned, Failed
<1>9. ASSUME NEW o \in Ops, OperationEnds(o) PROVE [Batch!Next]_Batch!vars
  <2>1. UNCHANGED <<Result, Returned, Failed>>
    BY <1>9 DEF OperationEnds, Result, Returned, Failed
  <2>2. CASE status' = [status EXCEPT ![o] = "success"]
    <3>1. Applied' = Applied \cup {o} BY <2>2 DEF TypeOK, Applied
    <3>2. Batch!Apply(o)
      BY <2>1, <3>1 DEF Batch!Apply, Applied, Result, Returned, Failed
    <3> QED BY <3>2 DEF Batch!Next
  <2>3. CASE status' = [status EXCEPT ![o] = "fail"]
    <3>1. UNCHANGED Applied BY <1>9, <2>3 DEF OperationEnds, TypeOK, Applied
    <3> QED BY <2>1, <3>1, BatchQuiet
  <2> QED BY <1>9, <2>2, <2>3 DEF OperationEnds
<1>10. CASE StartAwait
  BY <1>10, BatchQuiet DEF StartAwait, Applied, Result, Returned, Failed
<1>11. CASE Close
  BY <1>11, BatchQuiet DEF Close, Applied, Result, Returned, Failed
<1>12. CASE AwaitReturns
  <2>1. ~Returned /\ Returned' BY <1>12 DEF AwaitReturns, Returned
  <2>2. \A o \in Ops : gr[o] = "exit"
    BY <1>12 DEF AwaitReturns, RangeEnds, ControlInv
  <2>3. \A o \in Ops : Result[o] = res[o] /\ res[o] # "running"
    BY <2>2 DEF Result, TypeOK
  <2>4. Failed' = {o \in Ops : Result[o] = "err"}
    BY <1>12, <2>2, <2>3 DEF AwaitReturns, Failed, ResultInv
  <2>5. UNCHANGED <<Applied, Result>> BY <1>12 DEF AwaitReturns, Applied, Result
  <2>6. Batch!Return
    BY <2>1, <2>3, <2>4, <2>5 DEF Batch!Return, Applied, Result, Returned, Failed
  <2> QED BY <2>6 DEF Batch!Next
<1>13. CASE Terminated BY <1>1, <1>13 DEF Terminated
<1> QED BY <1>1, <1>2, <1>3, <1>4, <1>5, <1>6, <1>7, <1>8, <1>9, <1>10, <1>11, <1>12, <1>13
        DEF Next, Goroutine

(* Goroutines, WaitGroup and channel implement BatchAwait: the promise that*)
(* RegisterEndpoints and DeleteEndpoints, and CloudMapClient, build on.    *)
THEOREM PollerRefinesBatch == Spec => BatchSpec
<1>1. Init => Batch!Init BY BatchInit
<1>2. PollerInv /\ [Next]_vars => [Batch!Next]_Batch!vars BY BatchNext
<1> QED BY <1>1, <1>2, PollerInvariant, PTL DEF Spec, BatchSpec, Batch!Spec
=============================================================================
