---------------------------- MODULE BatchProofs ----------------------------
(***************************************************************************)
(* Batch answers and applies every call exactly once, and loses none, for  *)
(* any finite set of calls, any number of batches and any MaxBatchSize.    *)
(***************************************************************************)
EXTENDS Batch, FiniteSetTheorems, TLAPS

\* Only db.batch takes calls, and it has not started; a batch that has not been
\* created is empty and a batch that is done is empty again.
BatchesInv ==
  /\ current # 0 => timer[current] # "none" /\ start[current] = "new"
  /\ \A b \in Batches :
       /\ timer[b] = "none" => start[b] = "new" /\ calls[b] = {} /\ ~woken[b]
       /\ start[b] = "done" => calls[b] = {}

\* Only a waiting call has an answer in its channel.
AnswersInv == \A c \in Call : pc[c] # "waiting" => errCh[c] = "none"

\* The inductive invariant.
IInv == TypeOK /\ BatchesInv /\ AnswersInv /\ ExactlyOnce /\ NeverLost

\* Nothing has been called at first.
LEMMA InitInv == Init => IInv
BY DEF Init, IInv, TypeOK, BatchesInv, AnswersInv, ExactlyOnce, NeverLost, Answer, Batches

\* Batch, up to the receive, puts a new call into one batch that has not run.
LEMMA SubmitInv == ASSUME IInv, NEW c \in Call, Submit(c) PROVE IInv'
<1> PICK b \in Batches :
      /\ pc[c] = "new"
      /\ IF NeedsNew THEN b \in Unused ELSE b = current
      /\ current' = b
      /\ timer' = [timer EXCEPT ![b] = IF NeedsNew THEN "armed" ELSE @]
      /\ calls' = [calls EXCEPT ![b] = @ \cup {c}]
      /\ woken' = [woken EXCEPT ![b] = @ \/ Cardinality(calls'[b]) >= MaxBatchSize]
      /\ pc' = [pc EXCEPT ![c] = "waiting"]
      /\ UNCHANGED <<errCh, result, applied, start>>
  BY Zenon DEF Submit
<1>1. start[b] = "new" /\ (timer[b] = "none" \/ b = current)
  BY DEF IInv, BatchesInv, Unused, NeedsNew
<1>2. TypeOK'
  <2>1. woken' \in [Batches -> BOOLEAN]
    BY Zenon DEF IInv, TypeOK
  <2> QED
    BY <2>1 DEF IInv, TypeOK, Answer
<1>3. timer'[b] # "none"
  BY DEF IInv, TypeOK, BatchesInv, NeedsNew, Unused
<1>4. BatchesInv'
  BY <1>1, <1>3 DEF IInv, TypeOK, BatchesInv
<1>5. AnswersInv' /\ ExactlyOnce'
  BY DEF IInv, TypeOK, AnswersInv, ExactlyOnce
<1>6. NeverLost'
  BY <1>1 DEF IInv, TypeOK, AnswersInv, NeverLost
<1> QED
  BY <1>2, <1>4, <1>5, <1>6 DEF IInv

\* Timers and the trigger move no calls.
LEMMA TriggerInv ==
  ASSUME IInv, NEW b \in Batches, TimerFires(b) \/ Trigger(b) \/ RunsEmpty(b) PROVE IInv'
<1> USE DEF IInv, TypeOK, BatchesInv, AnswersInv, ExactlyOnce, NeverLost
<1>1. CASE TimerFires(b)
  BY <1>1 DEF TimerFires
<1>2. CASE Trigger(b)
  BY <1>2 DEF Trigger
<1>3. CASE RunsEmpty(b)
  BY <1>3 DEF RunsEmpty
<1> QED
  BY <1>1, <1>2, <1>3

\* A failing call leaves its batch with an answer.
LEMMA CallFailsInv ==
  ASSUME IInv, NEW b \in Batches, NEW c \in Call, CallFails(b, c) PROVE IInv'
<1>1. TypeOK' /\ BatchesInv'
  BY DEF IInv, TypeOK, BatchesInv, CallFails, Answer
<1>2. pc[c] = "waiting" /\ errCh[c] = "none" /\ \A d \in Batches : c \in calls[d] => d = b
  BY DEF IInv, NeverLost, CallFails
<1>3. AnswersInv' /\ ExactlyOnce'
  BY <1>2 DEF IInv, TypeOK, AnswersInv, ExactlyOnce, CallFails
<1>4. NeverLost'
  BY <1>2 DEF IInv, TypeOK, NeverLost, CallFails
<1> QED
  BY <1>1, <1>3, <1>4 DEF IInv

\* The calls of a batch whose Update returns all get its error and leave.
LEMMA FinishInv ==
  ASSUME IInv, NEW b \in Batches, NEW err \in {"ok", "err"}, Finish(b, err) PROVE IInv'
<1>1. \A c \in calls[b] : /\ c \in Call /\ pc[c] = "waiting" /\ errCh[c] = "none"
                          /\ applied[c] = 0
                          /\ \A d \in Batches : c \in calls[d] => d = b
  BY DEF IInv, TypeOK, NeverLost, ExactlyOnce, Finish
<1>2. TypeOK'
  BY <1>1 DEF IInv, TypeOK, Finish, Answer
<1>3. BatchesInv'
  BY DEF IInv, TypeOK, BatchesInv, Finish
<1>4. AnswersInv' /\ ExactlyOnce'
  BY <1>1 DEF IInv, TypeOK, AnswersInv, ExactlyOnce, Finish
<1>5. NeverLost'
  BY <1>1 DEF IInv, TypeOK, NeverLost, Finish
<1> QED
  BY <1>2, <1>3, <1>4, <1>5 DEF IInv

\* A call that receives its answer is in no batch any more.
LEMMA CallerInv == ASSUME IInv, NEW c \in Call, Caller(c) PROVE IInv'
<1>1. CASE Receive(c)
  <2>1. \A b \in Batches : c \notin calls[b]
    BY <1>1 DEF IInv, NeverLost, BatchesInv, Receive
  <2>2. TypeOK'
    BY <1>1 DEF IInv, TypeOK, Receive, batches, Answer
  <2>3. BatchesInv' /\ AnswersInv'
    BY <1>1 DEF IInv, TypeOK, BatchesInv, AnswersInv, Receive, batches
  <2>4. ExactlyOnce'
    BY <1>1 DEF IInv, TypeOK, ExactlyOnce, Receive, batches, Answer
  <2>5. NeverLost'
    BY <1>1, <2>1 DEF IInv, TypeOK, NeverLost, Receive, batches
  <2> QED
    BY <2>2, <2>3, <2>4, <2>5 DEF IInv
<1>2. ASSUME NEW r \in {"ok", "err", "panic"}, Solo(c, r) PROVE IInv'
  <2>1. errCh[c] = "none" /\ applied[c] = 0 /\ \A b \in Batches : c \notin calls[b]
    BY <1>2 DEF IInv, TypeOK, AnswersInv, ExactlyOnce, NeverLost, Solo
  <2>2. TypeOK'
    BY <1>2, <2>1 DEF IInv, TypeOK, Solo, batches, Answer
  <2>3. BatchesInv' /\ AnswersInv'
    BY <1>2 DEF IInv, TypeOK, BatchesInv, AnswersInv, Solo, batches
  <2>4. ExactlyOnce'
    BY <1>2, <2>1 DEF IInv, TypeOK, ExactlyOnce, Solo, batches
  <2>5. NeverLost'
    BY <1>2, <2>1 DEF IInv, TypeOK, NeverLost, Solo, batches
  <2> QED
    BY <2>2, <2>3, <2>4, <2>5 DEF IInv
<1> QED
  BY <1>1, <1>2 DEF Caller

\* Every step preserves the invariant.
LEMMA NextInv == IInv /\ [Next]_vars => IInv'
<1> SUFFICES ASSUME IInv, [Next]_vars PROVE IInv'
  OBVIOUS
<1>1. ASSUME NEW c \in Call, Submit(c) PROVE IInv'
  BY <1>1, SubmitInv
<1>2. ASSUME NEW c \in Call, Caller(c) PROVE IInv'
  BY <1>2, CallerInv
<1>3. ASSUME NEW b \in Batches, TimerFires(b) PROVE IInv'
  BY <1>3, TriggerInv
<1>4. ASSUME NEW b \in Batches, Run(b) PROVE IInv'
  BY <1>4, TriggerInv, FinishInv, CallFailsInv DEF Run
<1>5. CASE Done \/ UNCHANGED vars
  BY <1>5 DEF Done, vars, IInv, TypeOK, BatchesInv, AnswersInv, ExactlyOnce, NeverLost
<1> QED
  BY <1>1, <1>2, <1>3, <1>4, <1>5 DEF Next

\* A call whose Batch returned nil took effect once, any other never, however
\* often run() retries and whoever wins the race to trigger the batch.
THEOREM AppliedOnce == Spec => []ExactlyOnce
<1>1. IInv => ExactlyOnce
  BY DEF IInv
<1> QED
  BY InitInv, NextInv, <1>1, PTL DEF Spec

\* A waiting call is in one batch that will still run, or has its answer.
THEOREM NoCallLost == Spec => []NeverLost
<1>1. IInv => NeverLost
  BY DEF IInv
<1> QED
  BY InitInv, NextInv, <1>1, PTL DEF Spec
=============================================================================
