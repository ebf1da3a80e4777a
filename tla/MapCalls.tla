------------------------------ MODULE MapCalls ------------------------------
(***************************************************************************)
(* concurrency.map_calls: one stage's independent calls, issued from a     *)
(* pool of worker threads while the calling thread collects the answers.   *)
(*                                                                         *)
(* The standard library's ThreadPoolExecutor is modelled by what           *)
(* map_calls relies on: `map` submits every item to a first-in-first-out   *)
(* work queue before it yields anything, workers start on the queue while  *)
(* it is still being filled, the iterator waits for the answers in input   *)
(* order and re-raises the first failure it meets, what no worker has      *)
(* begun by then is cancelled, the last item first, and leaving the `with` *)
(* block waits until the workers have emptied the queue and are idle.      *)
(*                                                                         *)
(* A worker takes an item off the queue and begins its call in two steps,  *)
(* with no lock around them: in between, another worker may begin a later  *)
(* item, and the calling thread may cancel this one.  A cancelled item     *)
(* stays on the queue, and the worker that takes it drops it.              *)
(***************************************************************************)
EXTENDS Integers, Sequences, FiniteSets

CONSTANTS ItemCounts, Limits, NoLimit, DefaultMaxInFlight

ASSUME MapCallsAssumption ==
    /\ ItemCounts \subseteq Nat
    /\ Limits \subseteq Int \union {NoLimit}
    /\ NoLimit \notin Int
    /\ DefaultMaxInFlight \in Nat \ {0}

VARIABLES
    items, limit, failing,  \* the stage's input, as in SerialStage
    main,     \* where the calling thread is
    raising,  \* whether it is leaving the pool with an exception
    status,   \* the future of each item
    queue,    \* the items on the work queue; they were put there in input order
    task,     \* the item each worker has taken from it, 0 when idle
    results   \* what list(pool.map(...)) has collected

vars == <<items, limit, failing, main, raising, status, queue, task, results>>
pool == <<status, queue, task>>
input == <<items, limit, failing>>

InFlight(given) == IF given = NoLimit THEN DefaultMaxInFlight ELSE given

Item == 1..items
Idle == 0

\* min(max_in_flight, len(ordered)) threads, at most.
Workers == {w \in Item : w <= InFlight(limit)}

Statuses == {"unsubmitted", "pending", "running", "done", "cancelled"}
Stages == {"start", "inline", "submitting", "collecting", "cancelling",
           "closing", "returned", "raised", "rejected"}

Init ==
    /\ items \in ItemCounts
    /\ limit \in Limits
    /\ failing \in SUBSET (1..items)
    /\ main = "start"
    /\ raising = FALSE
    /\ status = [i \in 1..items |-> "unsubmitted"]
    /\ queue = {}
    /\ task = [w \in Workers |-> Idle]
    /\ results = <<>>
-----------------------------------------------------------------------------
(* The calling thread.                                                     *)

\* A limit below one is refused; one item, or a limit of one, needs no pool.
Start ==
    /\ main = "start"
    /\ main' = IF InFlight(limit) < 1 THEN "rejected"
               ELSE IF items <= 1 \/ InFlight(limit) = 1 THEN "inline"
               ELSE "submitting"
    /\ UNCHANGED <<input, raising, pool, results>>

NextItem == Len(results) + 1

\* `[call(item) for item in ordered]`
CallInline ==
    /\ main = "inline"
    /\ NextItem \in Item
    /\ status' = [status EXCEPT ![NextItem] = "done"]
    /\ IF NextItem \in failing
         THEN main' = "raised" /\ UNCHANGED results
         ELSE results' = Append(results, NextItem) /\ UNCHANGED main
    /\ UNCHANGED <<input, raising, queue, task>>

ReturnInline ==
    /\ main = "inline"
    /\ Len(results) = items
    /\ main' = "returned"
    /\ UNCHANGED <<input, raising, pool, results>>

Submit(i) ==
    /\ main = "submitting"
    /\ status[i] = "unsubmitted"
    /\ \A j \in Item : j < i => status[j] # "unsubmitted"
    /\ status' = [status EXCEPT ![i] = "pending"]
    /\ queue' = queue \union {i}
    /\ main' = IF i = items THEN "collecting" ELSE main
    /\ UNCHANGED <<input, raising, task, results>>

\* Mutant: collecting the answers as they complete.
CollectAsCompleted(i) ==
    /\ main = "collecting"
    /\ i \notin {results[k] : k \in 1..Len(results)}
    /\ status[i] = "done"
    /\ IF i \in failing
         THEN main' = "cancelling" /\ raising' = TRUE /\ UNCHANGED results
         ELSE results' = Append(results, i) /\ UNCHANGED <<main, raising>>
    /\ UNCHANGED <<input, pool>>

\* `yield fs.pop().result()`: wait for the next item's future and no other.
Collect(i) ==
    /\ main = "collecting"
    /\ i = NextItem
    /\ status[i] = "done"
    /\ IF i \in failing
         THEN main' = "cancelling" /\ raising' = TRUE /\ UNCHANGED results
         ELSE results' = Append(results, i) /\ UNCHANGED <<main, raising>>
    /\ UNCHANGED <<input, pool>>

CollectedAll ==
    /\ main = "collecting"
    /\ Len(results) = items
    /\ main' = "closing"
    /\ UNCHANGED <<input, raising, pool, results>>

\* Mutant: cancelling the first item first.
CancelFirstToLast(i) ==
    /\ main = "cancelling"
    /\ status[i] = "pending"
    /\ \A j \in Item : j < i => status[j] # "pending"
    /\ status' = [status EXCEPT ![i] = "cancelled"]
    /\ UNCHANGED <<input, main, raising, queue, task, results>>

\* The iterator's `finally`: cancel each future that is left and whose call has
\* not begun, the last item first, whether or not a worker has taken it.
Cancel(i) ==
    /\ main = "cancelling"
    /\ status[i] = "pending"
    /\ \A j \in Item : j > i => status[j] # "pending"
    /\ status' = [status EXCEPT ![i] = "cancelled"]
    /\ UNCHANGED <<input, main, raising, queue, task, results>>

CancelledAll ==
    /\ main = "cancelling"
    /\ \A i \in Item : status[i] # "pending"
    /\ main' = "closing"
    /\ UNCHANGED <<input, raising, pool, results>>

\* Mutant: `shutdown(wait=False)`.
CloseAtOnce ==
    /\ main = "closing"
    /\ main' = IF raising THEN "raised" ELSE "returned"
    /\ UNCHANGED <<input, raising, pool, results>>

\* Leaving the `with` block joins the workers, which first empty the queue.
Close ==
    /\ main = "closing"
    /\ queue = {}
    /\ \A w \in Workers : task[w] = Idle
    /\ main' = IF raising THEN "raised" ELSE "returned"
    /\ UNCHANGED <<input, raising, pool, results>>
-----------------------------------------------------------------------------
(* A worker thread.                                                        *)

\* `work_queue.get()`: the item that has waited longest.
Take(w, i) ==
    /\ task[w] = Idle
    /\ i \in queue /\ \A j \in queue : i <= j
    /\ queue' = queue \ {i}
    /\ task' = [task EXCEPT ![w] = i]
    /\ UNCHANGED <<input, main, raising, status, results>>

\* `future.set_running_or_notify_cancel()`: from here on the call is made, and
\* can no longer be cancelled ...
Begin(w) ==
    /\ task[w] # Idle
    /\ status[task[w]] = "pending"
    /\ status' = [status EXCEPT ![task[w]] = "running"]
    /\ UNCHANGED <<input, main, raising, queue, task, results>>

\* ... unless it was before, and is not made.
Drop(w) ==
    /\ task[w] # Idle
    /\ status[task[w]] = "cancelled"
    /\ task' = [task EXCEPT ![w] = Idle]
    /\ UNCHANGED <<input, main, raising, status, queue, results>>

\* Mutant: a raising call takes its worker down without settling its future.
FinishLosingFailures(w) ==
    /\ task[w] # Idle
    /\ status[task[w]] = "running"
    /\ status' = IF task[w] \in failing THEN status
                 ELSE [status EXCEPT ![task[w]] = "done"]
    /\ task' = [task EXCEPT ![w] = Idle]
    /\ UNCHANGED <<input, main, raising, queue, results>>

\* The call comes back: with an answer, or with the exception `failing` names.
Finish(w) ==
    /\ task[w] # Idle
    /\ status[task[w]] = "running"
    /\ status' = [status EXCEPT ![task[w]] = "done"]
    /\ task' = [task EXCEPT ![w] = Idle]
    /\ UNCHANGED <<input, main, raising, queue, results>>
-----------------------------------------------------------------------------
Ended == main \in {"returned", "raised", "rejected"}

Main ==
    \/ Start \/ CallInline \/ ReturnInline
    \/ \E i \in Item : Submit(i) \/ Collect(i) \/ Cancel(i)
    \/ CollectedAll \/ CancelledAll \/ Close

Worker(w) ==
    \/ \E i \in Item : Take(w, i)
    \/ Begin(w) \/ Drop(w) \/ Finish(w)

Next == Main \/ \E w \in Workers : Worker(w)

Spec == Init /\ [][Next]_vars

\* Threads are scheduled and every call comes back.  Which idle worker takes
\* the head of the queue is the pool's choice, so fairness is over them all.
FairSpec ==
    /\ Spec
    /\ WF_vars(Main)
    /\ WF_vars(\E w \in Workers : Worker(w))
-----------------------------------------------------------------------------
TypeOK ==
    /\ items \in ItemCounts
    /\ limit \in Limits
    /\ failing \in SUBSET Item
    /\ main \in Stages
    /\ raising \in BOOLEAN
    /\ status \in [Item -> Statuses]
    /\ queue \in SUBSET Item
    /\ task \in [Workers -> Item \union {Idle}]
    /\ results \in Seq(Item)

Asked(i) == status[i] \in {"running", "done"}

\* No call is still running, or waiting to run, once map_calls has handed
\* control back: a stage that aborted cannot keep spending, and the next stage
\* never runs beside the last one (the `with` block joins its workers).
NothingOutlivesTheStage ==
    Ended => /\ \A w \in Workers : task[w] = Idle
             /\ \A i \in Item : status[i] \notin {"pending", "running"}

Unasked(i) == {j \in Item : j < i /\ ~Asked(j)}

\* Items are asked about in their turn, with and without a failure.  A worker can
\* be overtaken between taking an item and beginning it, and the item cancelled,
\* so what was asked about need not be a prefix of the input; but it is one except
\* for the items other workers held at that moment, which are fewer than the
\* workers.  And a stage that raises has asked about each item as far as the
\* failing one: what a sequential run would have recorded is recorded.
AskedInTurn ==
    /\ \A i \in Item : Asked(i) => Cardinality(Unasked(i)) < Cardinality(Workers)
    /\ main = "raised" => \A i \in Item : i <= NextItem => Asked(i)

\* The stage is the sequential loop it replaced: the same answers in the same
\* order, and on failure the exception of the first failing item in input
\* order, whatever order the calls finished in (concurrency.py, rule 1).
Serial == INSTANCE SerialStage
    WITH outcome <- IF Ended THEN main ELSE "running"

ImplementsSerialStage == Serial!Spec

\* map_calls always hands control back: no lost future, and no worker waiting
\* on another, keeps the calling thread in `result()` or in the pool's exit.
StageEnds == <>Ended
=============================================================================
