--------------------------- MODULE MessageBatcher ---------------------------
(***************************************************************************)
(* llm_batch.MessageBatcher: collects the live calls of a run's threads    *)
(* into Message Batches and hands each answer back to the threads waiting  *)
(* for it.                                                                 *)
(*                                                                         *)
(* Three kinds of thread meet here.  Calling threads queue a request and   *)
(* block on a future.  One gathering thread at a time waits for the queue  *)
(* to go quiet and splits it into batches.  One thread per batch creates   *)
(* it, polls it and settles the futures of its requests.  They share the   *)
(* queue and the table of waiting futures, under one lock; each action     *)
(* below is one critical section, or one call to the Batches API.          *)
(*                                                                         *)
(* Time is abstracted: the queue may be found quiet at any moment.  Which  *)
(* of the queued requests share a batch is left open, since nothing here   *)
(* depends on it.                                                          *)
(***************************************************************************)
EXTENDS Integers, FiniteSets

CONSTANTS
    Callers,      \* the threads that call the model
    Requests,     \* what they may ask, by custom_id
    None,         \* no future, no request
    BatchLimits,  \* the values MAX_REQUESTS_PER_BATCH may have
    MaxAttempts,  \* how often one thread may try: _MAX_ATTEMPTS
    MaxBatches    \* bound: how many batches there may be

\* A future is named by the attempt that created it.
Future == Callers \X (1..MaxAttempts)

ASSUME BatcherAssumption ==
    /\ BatchLimits \subseteq Nat \ {0}
    /\ MaxAttempts \in Nat
    /\ MaxBatches \in Nat
    /\ None \notin Future \union Requests

Batch == 1..MaxBatches

\* What a future holds: an answer, or an error.  The request failed in a way
\* worth asking again, or not; or its batch ended without mentioning it.
Outcomes == {"unborn", "pending", "answer", "transient", "permanent", "noresult"}
Phases == {"unborn", "live", "reading", "done"}

VARIABLES
    batchLimit, \* MAX_REQUESTS_PER_BATCH, the same for the whole run
    queued,     \* _queued: the requests waiting to be sent
    waiting,    \* _waiting: the future of each request not yet settled
    gathering,  \* _gathering
    gatherers,  \* how many threads are waiting for the queue to go quiet
    spawned,    \* how many batch threads have been started
    carries,    \* the requests of each batch
    phase,      \* where each batch's thread is
    unread,     \* the results of each batch not read yet
    outcome,    \* what each future holds
    asks,       \* the request each future was created for
    replyTo,    \* the request whose answer each future was given
    attempts,   \* how many attempts each thread has made
    awaits      \* the future each thread is blocked on

callVars == <<attempts, awaits>>
queueVars == <<batchLimit, queued, waiting, gathering, gatherers>>
batchVars == <<spawned, carries, phase, unread>>
futureVars == <<outcome, asks, replyTo>>
vars == <<queueVars, batchVars, futureVars, callVars>>

Init ==
    /\ batchLimit \in BatchLimits
    /\ queued = {}
    /\ waiting = [r \in Requests |-> None]
    /\ gathering = FALSE
    /\ gatherers = 0
    /\ spawned = 0
    /\ carries = [b \in Batch |-> {}]
    /\ phase = [b \in Batch |-> "unborn"]
    /\ unread = [b \in Batch |-> {}]
    /\ outcome = [f \in Future |-> "unborn"]
    /\ asks = [f \in Future |-> None]
    /\ replyTo = [f \in Future |-> None]
    /\ attempts = [c \in Callers |-> 0]
    /\ awaits = [c \in Callers |-> None]
-----------------------------------------------------------------------------
(* Calling threads.                                                        *)

\* Under the lock: join the future already waiting for this request, or
\* create one and queue the request; start a gathering thread if none waits.
Send(c, r) ==
    LET f == <<c, attempts[c] + 1>> IN
    /\ awaits[c] = None
    /\ attempts[c] < MaxAttempts
    /\ attempts' = [attempts EXCEPT ![c] = @ + 1]
    /\ IF waiting[r] # None
         THEN /\ awaits' = [awaits EXCEPT ![c] = waiting[r]]
              /\ UNCHANGED <<waiting, queued, futureVars>>
         ELSE /\ awaits' = [awaits EXCEPT ![c] = f]
              /\ waiting' = [waiting EXCEPT ![r] = f]
              /\ queued' = queued \union {r}
              /\ outcome' = [outcome EXCEPT ![f] = "pending"]
              /\ asks' = [asks EXCEPT ![f] = r]
              /\ UNCHANGED replyTo
    /\ gathering' = TRUE
    /\ gatherers' = IF gathering THEN gatherers ELSE gatherers + 1
    /\ UNCHANGED <<batchLimit, batchVars>>

\* An attempt that fails before it reaches `send`: building the request asks
\* the provider for the output ceiling and the opening's exact length.
FailUnsent(c) ==
    /\ awaits[c] = None
    /\ attempts[c] < MaxAttempts
    /\ attempts' = [attempts EXCEPT ![c] = @ + 1]
    /\ UNCHANGED <<awaits, queueVars, batchVars, futureVars>>

\* `future.result()` hands the caller its answer, or raises.
Return(c) ==
    /\ awaits[c] # None
    /\ outcome[awaits[c]] # "pending"
    /\ awaits' = [awaits EXCEPT ![c] = None]
    /\ UNCHANGED <<attempts, queueVars, batchVars, futureVars>>
-----------------------------------------------------------------------------
(* The gathering thread.                                                   *)

\* The queue split into n batches, every one full but the last.
Splits(n) ==
    {split \in [queued -> (spawned + 1)..(spawned + n)] :
        \A b \in (spawned + 1)..(spawned + n) :
            LET size == Cardinality({r \in queued : split[r] = b}) IN
            /\ size \in 1..batchLimit
            /\ b < spawned + n => size = batchLimit}

StartBatches(n, split) ==
    /\ spawned' = spawned + n
    /\ carries' = [b \in Batch |-> IF b \in (spawned + 1)..(spawned + n)
                                   THEN {r \in queued : split[r] = b}
                                   ELSE carries[b]]
    /\ phase' = [b \in Batch |-> IF b \in (spawned + 1)..(spawned + n)
                                 THEN "live" ELSE phase[b]]

\* Mutant: the flag is not reset with the queue.
GatherKeepingFlag ==
    /\ gatherers > 0
    /\ gatherers' = gatherers - 1
    /\ queued' = {}
    /\ \E n \in 0..(MaxBatches - spawned) :
         \E split \in Splits(n) : StartBatches(n, split)
    /\ UNCHANGED <<batchLimit, gathering, waiting, unread, futureVars, callVars>>

\* The queue is quiet: under the lock, take it and let the next call start a
\* gathering thread of its own; then start a thread per batch.
Gather ==
    /\ gatherers > 0
    /\ gatherers' = gatherers - 1
    /\ gathering' = FALSE
    /\ queued' = {}
    /\ \E n \in 0..(MaxBatches - spawned) :
         \E split \in Splits(n) : StartBatches(n, split)
    /\ UNCHANGED <<batchLimit, waiting, unread, futureVars, callVars>>
-----------------------------------------------------------------------------
(* A batch's thread.                                                       *)

Active(b) == phase[b] \in {"live", "reading"}

\* Mutant: the futures are looked up and left in the table.
SettleLeavingTheFuture(ids, kind, reply) ==
    LET found == {waiting[r] : r \in ids} \ {None} IN
    /\ outcome' = [f \in Future |-> IF f \in found THEN kind ELSE outcome[f]]
    /\ replyTo' = [f \in Future |-> IF f \in found THEN reply ELSE replyTo[f]]
    /\ UNCHANGED <<asks, waiting>>

\* Pop the futures waiting for these requests and give each the outcome.
Settle(ids, kind, reply) ==
    LET popped == {waiting[r] : r \in ids} \ {None} IN
    /\ waiting' = [r \in Requests |-> IF r \in ids THEN None ELSE waiting[r]]
    /\ outcome' = [f \in Future |-> IF f \in popped THEN kind ELSE outcome[f]]
    /\ replyTo' = [f \in Future |-> IF f \in popped THEN reply ELSE replyTo[f]]
    /\ UNCHANGED asks

\* The batch was created and a poll finds it ended; in between the thread only
\* asks the provider.  The results may leave some requests out.
End(b) ==
    /\ phase[b] = "live"
    /\ phase' = [phase EXCEPT ![b] = "reading"]
    /\ unread' = [unread EXCEPT ![b] = carries[b]]
    /\ UNCHANGED <<spawned, carries, queueVars, futureVars, callVars>>

\* Mutant: results taken to arrive in the order the requests were sent.
ReadByPosition(b, r) ==
    /\ phase[b] = "reading"
    /\ r \in unread[b]
    /\ unread' = [unread EXCEPT ![b] = @ \ {r}]
    /\ \E position \in unread[b] : Settle({position}, "answer", r)
    /\ UNCHANGED <<spawned, carries, phase, batchLimit, queued, gathering, gatherers,
                   callVars>>

\* One result of the stream: it succeeded, errored with a status, or expired.
Read(b, r) ==
    /\ phase[b] = "reading"
    /\ r \in unread[b]
    /\ unread' = [unread EXCEPT ![b] = @ \ {r}]
    /\ \/ Settle({r}, "answer", r)
       \/ \E kind \in {"transient", "permanent"} : Settle({r}, kind, None)
    /\ UNCHANGED <<spawned, carries, phase, batchLimit, queued, gathering, gatherers,
                   callVars>>

\* Mutant: requests the results did not mention are forgotten.
SweepNothing(b) ==
    /\ phase[b] = "reading"
    /\ phase' = [phase EXCEPT ![b] = "done"]
    /\ unread' = [unread EXCEPT ![b] = {}]
    /\ UNCHANGED <<spawned, carries, queueVars, futureVars, callVars>>

\* The stream is over: every request of the batch still waited for gets "no
\* result".  The batch's whole request table is swept, not what is left of it.
Sweep(b) ==
    /\ phase[b] = "reading"
    /\ phase' = [phase EXCEPT ![b] = "done"]
    /\ unread' = [unread EXCEPT ![b] = {}]
    /\ Settle(carries[b], "noresult", None)
    /\ UNCHANGED <<spawned, carries, batchLimit, queued, gathering, gatherers,
                   callVars>>

\* Mutant: an exception ends the batch's thread and nobody hears of it.
FailSilently(b) ==
    /\ Active(b)
    /\ phase' = [phase EXCEPT ![b] = "done"]
    /\ unread' = [unread EXCEPT ![b] = {}]
    /\ UNCHANGED <<spawned, carries, queueVars, futureVars, callVars>>

\* An exception anywhere in the thread settles every request of the batch.
Fail(b) ==
    /\ Active(b)
    /\ phase' = [phase EXCEPT ![b] = "done"]
    /\ unread' = [unread EXCEPT ![b] = {}]
    /\ \E kind \in {"transient", "permanent"} : Settle(carries[b], kind, None)
    /\ UNCHANGED <<spawned, carries, batchLimit, queued, gathering, gatherers,
                   callVars>>
-----------------------------------------------------------------------------
BatchThread(b) ==
    \/ End(b) \/ Sweep(b) \/ Fail(b)
    \/ \E r \in Requests : Read(b, r)

Batcher == Gather \/ \E b \in Batch : BatchThread(b)

Next ==
    \/ \E c \in Callers : Return(c) \/ FailUnsent(c) \/ \E r \in Requests : Send(c, r)
    \/ Batcher

Spec == Init /\ [][Next]_vars
-----------------------------------------------------------------------------
TypeOK ==
    /\ batchLimit \in BatchLimits
    /\ queued \in SUBSET Requests
    /\ waiting \in [Requests -> Future \union {None}]
    /\ gathering \in BOOLEAN
    /\ gatherers \in Nat
    /\ spawned \in 0..MaxBatches
    /\ carries \in [Batch -> SUBSET Requests]
    /\ phase \in [Batch -> Phases]
    /\ unread \in [Batch -> SUBSET Requests]
    /\ outcome \in [Future -> Outcomes]
    /\ asks \in [Future -> Requests \union {None}]
    /\ replyTo \in [Future -> Requests \union {None}]
    /\ attempts \in [Callers -> 0..MaxAttempts]
    /\ awaits \in [Callers -> Future \union {None}]

\* Somebody is going to settle request r: it is on the queue and a thread is
\* waiting to send the queue, or a live batch carries it.
InGoodHands(r) ==
    \/ r \in queued /\ gatherers > 0
    \/ \E b \in Batch : Active(b) /\ r \in carries[b]

\* No call waits for an answer nobody owes it.  However retries, identical
\* requests, batch failures and missing results interleave, a future without
\* an outcome is in the table, and a gathering thread or a live batch is bound
\* to settle it (llm_batch.py: "a call left waiting would hang its stage").
NoCallIsStranded ==
    \A f \in Future : outcome[f] = "pending" =>
        /\ asks[f] \in Requests
        /\ waiting[asks[f]] = f
        /\ InGoodHands(asks[f])

\* An answer settles a future of the request it answers.
AnswersMatchQuestions ==
    \A f \in Future : outcome[f] = "answer" => replyTo[f] = asks[f]

\* A future is settled once: a second set_result or set_exception would raise
\* InvalidStateError in the batch's thread, and leave the rest of its calls
\* waiting.  `_settle` pops under the lock so that batches that carry the same
\* request, and the sweep after the results, never meet the same future twice.
SettledOnce ==
    [][\A f \in Future :
         outcome[f] \notin {"unborn", "pending"} =>
            outcome'[f] = outcome[f] /\ replyTo'[f] = replyTo[f]]_vars

\* llm_batch.py: "A request the results did not mention is as unanswered as one
\* that expired".  Only such a request is told that its batch had no result.
NoResultMeansUnmentioned ==
    [][\A b \in Batch, f \in Future :
         /\ phase[b] = "reading" /\ phase'[b] = "done"
         /\ outcome[f] = "pending" /\ outcome'[f] = "noresult"
         => asks[f] \in unread[b]]_vars
=============================================================================
