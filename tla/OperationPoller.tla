--------------------------- MODULE OperationPoller ---------------------------
(***************************************************************************)
(* pkg/cloudmap/operation_poller.go: the caller Submits one goroutine per  *)
(* operation and Awaits their results over one unbuffered channel, which a *)
(* closer goroutine closes when the WaitGroup is back at zero.             *)
(*                                                                         *)
(* Every goroutine is a process: the caller (`main`), one per operation    *)
(* (`gr`), the closer (`closer`).  Cloud Map, which is external, moves the *)
(* status of an operation it has accepted from pending to success or fail  *)
(* at its own pace, also after everybody has stopped polling it.           *)
(*                                                                         *)
(* Abstracted: the operation ids (an element of Ops is the operation and   *)
(* its id), the error texts (the error Await builds with common.Wrap is    *)
(* the set of the operations it mentions; nil is {}), the clock (pollTimeout*)
(* is a number of polls).                                                  *)
(***************************************************************************)
EXTENDS Integers, FiniteSets

CONSTANTS Ops,          \* the operations submitted to one poller
          MaxPolls      \* pollTimeout / pollInterval

ASSUME PollerAssumption == IsFiniteSet(Ops) /\ MaxPolls \in Nat

VARIABLES main,         \* the goroutine that calls Submit, then Await
          gr,           \* gr[o]: where the goroutine of operation o is
          res,          \* res[o]: its local err ("none" while it is not known)
          polls,        \* polls[o]: how often it has seen the operation pending
          wg,           \* waitGroup
          closer,       \* the goroutine started by Await
          closed,       \* is opChan closed?
          err,          \* the named result of Await
          status        \* status[o]: the operation in Cloud Map (external)

vars == <<main, gr, res, polls, wg, closer, closed, err, status>>

Statuses == {"absent", "pending", "success", "fail"}

TypeOK == /\ main \in {"submit", "range", "done"}
          /\ gr \in [Ops -> {"none", "provider", "poll", "send", "sent", "exit"}]
          /\ res \in [Ops -> {"none", "ok", "err"}]
          /\ polls \in [Ops -> 0..MaxPolls]
          /\ wg \in Int
          /\ closer \in {"none", "wait", "exit"}
          /\ closed \in BOOLEAN
          /\ err \in SUBSET Ops
          /\ status \in [Ops -> Statuses]

Init == /\ main = "submit"
        /\ gr = [o \in Ops |-> "none"]
        /\ res = [o \in Ops |-> "none"]
        /\ polls = [o \in Ops |-> 0]
        /\ wg = 0
        /\ closer = "none"
        /\ closed = FALSE
        /\ err = {}
        /\ status = [o \in Ops |-> "absent"]

-----------------------------------------------------------------------------
(* Submit: waitGroup.Add(1) happens before the goroutine is started.       *)
Submit(o) == /\ main = "submit"
             /\ gr[o] = "none"
             /\ wg' = wg + 1
             /\ gr' = [gr EXCEPT ![o] = "provider"]
             /\ UNCHANGED <<main, res, polls, closer, closed, err, status>>

(* opProvider(): the request is accepted and polled next; or it fails, in  *)
(* which case Cloud Map may still have accepted it and the answer got lost.*)
Provide(o) ==
  /\ gr[o] = "provider"
  /\ \/ /\ status' = [status EXCEPT ![o] = "pending"]
        /\ gr' = [gr EXCEPT ![o] = "poll"]
        /\ UNCHANGED res
     \/ /\ \/ UNCHANGED status
           \/ status' = [status EXCEPT ![o] = "pending"]
        /\ gr' = [gr EXCEPT ![o] = "send"]
        /\ res' = [res EXCEPT ![o] = "err"]
  /\ UNCHANGED <<main, polls, wg, closer, closed, err>>

(* Mutated form: a failed operation is taken for a finished one.           *)
OutcomeFailIgnored(s) == "ok"

(* What the poll makes of a terminal status.                               *)
Outcome(s) == IF s = "success" THEN "ok" ELSE "err"

(* One evaluation of the condition wait.Poll runs: a terminal status ends  *)
(* the poll.                                                               *)
PollEnds(o) ==
  /\ gr[o] = "poll"
  /\ status[o] \in {"success", "fail"}
  /\ res' = [res EXCEPT ![o] = Outcome(status[o])]
  /\ gr' = [gr EXCEPT ![o] = "send"]
  /\ UNCHANGED <<main, polls, wg, closer, closed, err, status>>

(* So does an error of GetOperation, whatever became of the operation.     *)
PollErrs(o) ==
  /\ gr[o] = "poll"
  /\ res' = [res EXCEPT ![o] = "err"]
  /\ gr' = [gr EXCEPT ![o] = "send"]
  /\ UNCHANGED <<main, polls, wg, closer, closed, err, status>>

(* Mutated form: the poll outlives pollTimeout by one interval.            *)
PollTimedOutLate(o) == polls[o] > MaxPolls

(* pollTimeout is over for the poll of operation o.                        *)
PollTimedOut(o) == polls[o] = MaxPolls

(* Mutated form: the poll goes on until the operation has ended.           *)
PollPendingForever(o) == gr[o] = "poll" /\ status[o] = "pending" /\ UNCHANGED vars

(* The operation is not finished: poll again after pollInterval, or give up*)
(* with the timeout error when pollTimeout is over.                        *)
PollPending(o) ==
  /\ gr[o] = "poll"
  /\ status[o] = "pending"
  /\ \/ /\ ~PollTimedOut(o)
        /\ polls' = [polls EXCEPT ![o] = @ + 1]
        /\ UNCHANGED <<gr, res>>
     \/ /\ PollTimedOut(o)
        /\ gr' = [gr EXCEPT ![o] = "send"]
        /\ res' = [res EXCEPT ![o] = "err"]
        /\ UNCHANGED polls
  /\ UNCHANGED <<main, wg, closer, closed, err, status>>

(* Mutated form: the error of one operation replaces the others'.          *)
CollectLast(o) == IF res[o] = "err" THEN {o} ELSE err

(* common.Wrap(err, res.err) keeps every error; a nil one changes nothing. *)
Collect(o) == IF res[o] = "err" THEN err \cup {o} ELSE err

(* p.opChan <- opResult meets the range loop of Await: the channel has no  *)
(* buffer, so sender and receiver step together.                           *)
SendReceive(o) ==
  /\ gr[o] = "send"
  /\ main = "range"
  /\ ~closed
  /\ gr' = [gr EXCEPT ![o] = "sent"]
  /\ err' = Collect(o)
  /\ UNCHANGED <<main, res, polls, wg, closer, closed, status>>

(* The deferred waitGroup.Done() of a goroutine that has sent its result.  *)
Done(o) == /\ gr[o] = "sent"
           /\ gr' = [gr EXCEPT ![o] = "exit"]
           /\ wg' = wg - 1
           /\ UNCHANGED <<main, res, polls, closer, closed, err, status>>

-----------------------------------------------------------------------------
(* Await, called when every operation has been submitted.                  *)
StartAwait == /\ main = "submit"
              /\ \A o \in Ops : gr[o] # "none"
              /\ main' = "range"
              /\ closer' = "wait"
              /\ UNCHANGED <<gr, res, polls, wg, closed, err, status>>

(* Mutated form: the closer does not wait for the WaitGroup.               *)
WaitReturnsAtOnce == TRUE

(* waitGroup.Wait() returns when the counter is zero.                      *)
WaitReturns == wg = 0

(* waitGroup.Wait() then close(opChan).                                    *)
Close == /\ closer = "wait"
         /\ WaitReturns
         /\ closer' = "exit"
         /\ closed' = TRUE
         /\ UNCHANGED <<main, gr, res, polls, wg, err, status>>

(* Mutated form: the loop ends at the first failure.                       *)
RangeEndsEarly == closed \/ err # {}

(* A closed channel ends the range loop, nothing else does.                *)
RangeEnds == closed

(* The range loop ends when the channel is closed; Await returns err.      *)
AwaitReturns == /\ main = "range"
                /\ RangeEnds
                /\ main' = "done"
                /\ UNCHANGED <<gr, res, polls, wg, closer, closed, err, status>>

(* Cloud Map (external) ends an accepted operation.                        *)
OperationEnds(o) ==
  /\ status[o] = "pending"
  /\ \E s \in {"success", "fail"} : status' = [status EXCEPT ![o] = s]
  /\ UNCHANGED <<main, gr, res, polls, wg, closer, closed, err>>

-----------------------------------------------------------------------------
Goroutine(o) == \/ Provide(o) \/ PollEnds(o) \/ PollErrs(o) \/ PollPending(o)
                \/ SendReceive(o) \/ Done(o)

Finished == main = "done" /\ closer = "exit" /\ \A o \in Ops : gr[o] = "exit"

(* The caller has its answer; the system may rest.                         *)
Terminated == Finished /\ UNCHANGED vars

Next == \/ \E o \in Ops : Submit(o) \/ Goroutine(o) \/ OperationEnds(o)
        \/ StartAwait \/ Close \/ AwaitReturns
        \/ Terminated

(* Go's scheduler runs every runnable goroutine and the poll's timer ticks.*)
(* Nothing is assumed about Cloud Map, which may leave an operation pending*)
(* forever, and no error is bound to happen.                               *)
Fairness == /\ \A o \in Ops : /\ WF_vars(Submit(o)) /\ WF_vars(Provide(o))
                             /\ WF_vars(PollEnds(o) \/ PollPending(o))
                             /\ WF_vars(SendReceive(o)) /\ WF_vars(Done(o))
            /\ WF_vars(StartAwait) /\ WF_vars(Close) /\ WF_vars(AwaitReturns)

Spec == Init /\ [][Next]_vars
FairSpec == Spec /\ Fairness

-----------------------------------------------------------------------------
(* opChan is closed only when no goroutine can still send on it (a send on *)
(* a closed channel panics the controller), and Done never takes the       *)
(* WaitGroup below zero (which panics as well).                            *)
NoPanic == /\ closed => \A o \in Ops : gr[o] \in {"sent", "exit"}
           /\ wg >= 0

(* When Await returns, it has received the result of every operation and   *)
(* its error mentions exactly the operations that failed: no result is lost*)
(* to an early close and none is made up.                                  *)
AwaitCollectsAll ==
  main = "done" => /\ \A o \in Ops : gr[o] \in {"sent", "exit"}
                   /\ err = {o \in Ops : res[o] = "err"}

(* A nil error from Await means that Cloud Map carried out every operation:*)
(* RegisterEndpoints and DeleteEndpoints report success on this ground.    *)
NilMeansApplied ==
  (main = "done" /\ err = {}) => \A o \in Ops : status[o] = "success"

(* Await returns and no goroutine is left behind, although an operation may*)
(* stay pending in Cloud Map forever: the poll timeout sees to it.         *)
AwaitTerminates == <>[]Finished

(* The goroutines implement the promise of BatchAwait.                     *)
Batch == INSTANCE BatchAwait WITH
  applied  <- {o \in Ops : status[o] = "success"},
  result   <- [o \in Ops |-> IF gr[o] \in {"none", "provider", "poll"}
                             THEN "running" ELSE res[o]],
  returned <- main = "done",
  failed   <- IF main = "done" THEN err ELSE {}

BatchSpec == Batch!Spec
=============================================================================
