------------------------------- MODULE Batch -------------------------------
(***************************************************************************)
(* DB.Batch (db.go): calls of several goroutines are collected in a batch, *)
(* which its timer or the call that fills it triggers; one Update runs the *)
(* functions of all of them.  A function that fails is taken out, its      *)
(* caller told to run it alone, and the rest is tried again.               *)
(*                                                                         *)
(* A goroutine of Call calls Batch once.  Update is atomic: the modules DB *)
(* and Locks are about that.  The order of the functions in a transaction  *)
(* does not matter here, so the calls of a batch are a set.                *)
(***************************************************************************)
EXTENDS Integers, FiniteSets

CONSTANTS
  Call,          \* the goroutines that call Batch
  MaxBatches,    \* bound on the number of batches; Cardinality(Call) is enough
  MaxBatchSize   \* DB.MaxBatchSize

ASSUME BatchAssumption ==
  /\ IsFiniteSet(Call)
  /\ MaxBatches \in Nat
  /\ MaxBatchSize \in Int

VARIABLES
  pc,       \* what each call is doing
  errCh,    \* what is in its channel, which holds one answer
  result,   \* what Batch returned to it
  applied,  \* how often the effect of its function was committed
  current,  \* db.batch, 0 for nil
  calls,    \* b.calls
  timer,    \* b.timer
  woken,    \* goroutines started with "go db.batch.trigger()" that wait to run
  start     \* b.start, and where run() is

vars == <<pc, errCh, result, applied, current, calls, timer, woken, start>>
batches == <<calls, timer, woken, start>>

Batches == 1 .. MaxBatches
Answer == {"none", "ok", "err", "trySolo"}

Init ==
  /\ pc = [c \in Call |-> "new"]
  /\ errCh = [c \in Call |-> "none"]
  /\ result = [c \in Call |-> "none"]
  /\ applied = [c \in Call |-> 0]
  /\ current = 0
  /\ calls = [b \in Batches |-> {}]
  /\ timer = [b \in Batches |-> "none"]
  /\ woken = [b \in Batches |-> FALSE]
  /\ start = [b \in Batches |-> "new"]

\* There is no existing batch, or the existing one is full.
NeedsNew == current = 0 \/ Cardinality(calls[current]) >= MaxBatchSize

\* A batch that has not been created: batches have no names in the code.
Unused == {b \in Batches : timer[b] = "none"}

\* Mutant: the call that fills the batch does not wake it.
SubmitWithoutWaking(c) ==
  \E b \in Batches :
    /\ pc[c] = "new"
    /\ IF NeedsNew THEN b \in Unused /\ \A u \in Unused : b <= u ELSE b = current
    /\ current' = b
    /\ timer' = [timer EXCEPT ![b] = IF NeedsNew THEN "armed" ELSE @]
    /\ calls' = [calls EXCEPT ![b] = @ \cup {c}]
    /\ pc' = [pc EXCEPT ![c] = "waiting"]
    /\ UNCHANGED <<errCh, result, applied, woken, start>>

\* Batch up to the receive, under batchMu: join the current batch or a new one,
\* whose timer starts to run, and wake it up when it is full.
Submit(c) ==
  \E b \in Batches :
    /\ pc[c] = "new"
    /\ IF NeedsNew THEN b \in Unused /\ \A u \in Unused : b <= u ELSE b = current
    /\ current' = b
    /\ timer' = [timer EXCEPT ![b] = IF NeedsNew THEN "armed" ELSE @]
    /\ calls' = [calls EXCEPT ![b] = @ \cup {c}]
    /\ woken' = [woken EXCEPT ![b] = @ \/ Cardinality(calls'[b]) >= MaxBatchSize]
    /\ pc' = [pc EXCEPT ![c] = "waiting"]
    /\ UNCHANGED <<errCh, result, applied, start>>

\* MaxBatchDelay has passed.
TimerFires(b) ==
  /\ timer[b] = "armed"
  /\ timer' = [timer EXCEPT ![b] = "fired"]
  /\ UNCHANGED <<pc, errCh, result, applied, current, calls, woken, start>>

\* Mutant: run() leaves db.batch pointing to itself.
TriggerKeepsCurrent(b) ==
  /\ timer[b] = "fired" \/ woken[b]
  /\ start[b] = "new"
  /\ start' = [start EXCEPT ![b] = "running"]
  /\ timer' = [timer EXCEPT ![b] = IF @ = "armed" THEN "stopped" ELSE @]
  /\ UNCHANGED <<pc, errCh, result, applied, calls, woken, current>>

\* trigger(): the first of the goroutines of the timer and of the full batch goes
\* through start.Do; run() up to the end of its critical section.
Trigger(b) ==
  /\ timer[b] = "fired" \/ woken[b]
  /\ start[b] = "new"
  /\ start' = [start EXCEPT ![b] = "running"]
  /\ timer' = [timer EXCEPT ![b] = IF @ = "armed" THEN "stopped" ELSE @]
  /\ current' = IF current = b THEN 0 ELSE current
  /\ UNCHANGED <<pc, errCh, result, applied, calls, woken>>

\* Mutant: the failing call stays in the batch.
CallFailsStays(b, c) ==
  /\ start[b] = "running" /\ c \in calls[b]
  /\ errCh' = [errCh EXCEPT ![c] = "trySolo"]
  /\ UNCHANGED <<pc, result, applied, current, calls, timer, woken, start>>

\* The loop of run(): the function of c returns an error, or panics, which
\* safelyCall turns into one.  Update rolls back what the functions before it
\* did.  The batch goes on without c.
CallFails(b, c) ==
  /\ start[b] = "running" /\ c \in calls[b]
  /\ calls' = [calls EXCEPT ![b] = @ \ {c}]
  /\ errCh' = [errCh EXCEPT ![c] = "trySolo"]
  /\ UNCHANGED <<pc, result, applied, current, timer, woken, start>>

\* Every function succeeds and Update commits, or Update returns an error of its
\* own, from Begin or Commit, without having run or committed anything.  Either
\* goes to all callers.
Finish(b, err) ==
  /\ start[b] = "running" /\ calls[b] # {}
  /\ errCh' = [c \in Call |-> IF c \in calls[b] THEN err ELSE errCh[c]]
  /\ applied' = [c \in Call |-> IF c \in calls[b] /\ err = "ok" THEN applied[c] + 1
                                ELSE applied[c]]
  /\ start' = [start EXCEPT ![b] = "done"]
  /\ calls' = [calls EXCEPT ![b] = {}]
  /\ UNCHANGED <<pc, result, current, timer, woken>>

\* All calls of the batch have failed.
RunsEmpty(b) ==
  /\ start[b] = "running" /\ calls[b] = {}
  /\ start' = [start EXCEPT ![b] = "done"]
  /\ UNCHANGED <<pc, errCh, result, applied, current, calls, timer, woken>>

\* err := <-errCh
Receive(c) ==
  /\ pc[c] = "waiting" /\ errCh[c] # "none"
  /\ errCh' = [errCh EXCEPT ![c] = "none"]
  /\ IF errCh[c] = "trySolo"
     THEN pc' = [pc EXCEPT ![c] = "solo"] /\ UNCHANGED result
     ELSE pc' = [pc EXCEPT ![c] = "done"] /\ result' = [result EXCEPT ![c] = errCh[c]]
  /\ UNCHANGED <<applied, current, batches>>

\* db.Update(fn): here a panic of fn reaches the caller.
Solo(c, r) ==
  /\ pc[c] = "solo"
  /\ pc' = [pc EXCEPT ![c] = "done"]
  /\ result' = [result EXCEPT ![c] = r]
  /\ applied' = [applied EXCEPT ![c] = IF r = "ok" THEN @ + 1 ELSE @]
  /\ UNCHANGED <<errCh, current, batches>>

Run(b) ==
  \/ Trigger(b) \/ RunsEmpty(b)
  \/ Finish(b, "ok") \/ Finish(b, "err")
  \/ \E c \in Call : CallFails(b, c)

Caller(c) == Receive(c) \/ \E r \in {"ok", "err", "panic"} : Solo(c, r)

\* Every call has returned, every batch has run and no timer is running.
Done == /\ \A c \in Call : pc[c] = "done"
        /\ \A b \in Batches : timer[b] # "armed" /\ (timer[b] # "none" => start[b] = "done")
        /\ UNCHANGED vars

Next ==
  \/ \E c \in Call : Submit(c) \/ Caller(c)
  \/ \E b \in Batches : TimerFires(b) \/ Run(b)
  \/ Done

Spec == Init /\ [][Next]_vars

\* Goroutines that can run do.  Nobody need call Batch, and no timer need fire:
\* MaxBatchDelay may be very long.
FairSpec ==
  /\ Spec
  /\ \A c \in Call : WF_vars(Caller(c))
  /\ \A b \in Batches : WF_vars(Run(b))

-----------------------------------------------------------------------------
(* Properties *)

TypeOK ==
  /\ pc \in [Call -> {"new", "waiting", "solo", "done"}]
  /\ errCh \in [Call -> Answer]
  /\ result \in [Call -> Answer \cup {"panic"}]
  /\ applied \in [Call -> 0 .. 1]
  /\ current \in Batches \cup {0}
  /\ calls \in [Batches -> SUBSET Call]
  /\ timer \in [Batches -> {"none", "armed", "fired", "stopped"}]
  /\ woken \in [Batches -> BOOLEAN]
  /\ start \in [Batches -> {"new", "running", "done"}]

\* However often run() retries, a call whose Batch returned nil took effect once,
\* and one that returned an error or panicked did not take effect.  What a call
\* that has not returned yet did is in its channel.
ExactlyOnce ==
  \A c \in Call :
    /\ pc[c] = "done" => applied[c] = (IF result[c] = "ok" THEN 1 ELSE 0)
    /\ pc[c] # "done" => applied[c] = (IF errCh[c] = "ok" THEN 1 ELSE 0)

\* A waiting call is in exactly one batch that will still run, or has its answer
\* waiting; never both, so that no answer is sent to a channel that is full, and
\* never neither, so that none waits for ever.
NeverLost ==
  /\ \A c \in Call : \A b, d \in Batches : c \in calls[b] \cap calls[d] => b = d
  /\ \A c \in Call : pc[c] = "waiting" =>
       (errCh[c] = "none" <=> \E b \in Batches : c \in calls[b] /\ start[b] # "done")
  /\ \A b \in Batches : \A c \in calls[b] : pc[c] = "waiting"

\* Every call of Batch returns once the timer of its batch has fired or the batch
\* is full, whatever fails in whichever order: a full batch does not wait for
\* MaxBatchDelay.
EveryCallReturns ==
  \A c \in Call :
    (\E b \in Batches :
       c \in calls[b] /\ (timer[b] = "fired" \/ Cardinality(calls[b]) >= MaxBatchSize))
      ~> pc[c] = "done"
=============================================================================
