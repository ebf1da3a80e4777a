---------------------------- MODULE BatchedCalls ----------------------------
(***************************************************************************)
(* The threads of one stage, each with one live call to make through the   *)
(* MessageBatcher: ModelClient._call_provider around AnthropicAdapter.send *)
(* around MessageBatcher.send.                                             *)
(*                                                                         *)
(* A failure that is transient is asked again, after a pause, until the    *)
(* attempts are used up; any other failure is raised.  Two threads may     *)
(* have the same request: both missed it in the transcript store.          *)
(***************************************************************************)
EXTENDS MessageBatcher

VARIABLES
    want,   \* the request each thread was given
    state   \* "ready", "waiting", "pausing", "answered" or "raised"

allVars == <<vars, want, state>>

\* _is_transient: a batch without a result is reported as status 500.
Transient == {"transient", "noresult"}

\* What becomes of a call whose n-th attempt came to this.
After(got, n) ==
    IF got = "answer" THEN "answered"
    ELSE IF got \in Transient /\ n < MaxAttempts THEN "pausing"
    ELSE "raised"

InitCalls ==
    /\ Init
    /\ want \in [Callers -> Requests]
    /\ state = [c \in Callers |-> "ready"]

Ask(c) ==
    /\ state[c] \in {"ready", "pausing"}
    /\ Send(c, want[c])
    /\ state' = [state EXCEPT ![c] = "waiting"]
    /\ UNCHANGED want

Hear(c) ==
    /\ Return(c)
    /\ state' = [state EXCEPT ![c] = After(outcome[awaits[c]], attempts[c])]
    /\ UNCHANGED want

Falter(c) ==
    /\ state[c] \in {"ready", "pausing"}
    /\ FailUnsent(c)
    /\ \E kind \in {"transient", "permanent"} :
         state' = [state EXCEPT ![c] = After(kind, attempts'[c])]
    /\ UNCHANGED want

NextCalls ==
    \/ \E c \in Callers : Ask(c) \/ Falter(c) \/ Hear(c)
    \/ Batcher /\ UNCHANGED <<want, state>>

\* Threads are scheduled, the queue goes quiet (a thread makes no new call
\* while it waits), and the provider ends every batch.
FairCalls ==
    /\ \A c \in Callers : WF_allVars(Ask(c) \/ Falter(c) \/ Hear(c))
    /\ WF_allVars(Gather /\ UNCHANGED <<want, state>>)
    /\ \A b \in Batch : WF_allVars(BatchThread(b) /\ UNCHANGED <<want, state>>)

SpecCalls == InitCalls /\ [][NextCalls]_allVars
FairSpecCalls == SpecCalls /\ FairCalls
-----------------------------------------------------------------------------
CallerInv ==
    \A c \in Callers : awaits[c] # None =>
        /\ asks[awaits[c]] = want[c]
        /\ outcome[awaits[c]] # "unborn"

\* A call that comes back with an answer comes back with the answer to its own
\* question, whatever order the results arrive in and however many calls,
\* attempts and batches share the request (llm_batch.py: "each answer is handed
\* back to the thread that asked for it, matched by custom_id").
AnswerIsForTheAsker ==
    \A c \in Callers :
        awaits[c] # None /\ outcome[awaits[c]] = "answer" =>
            replyTo[awaits[c]] = want[c]

\* Every call ends, with an answer or with an error: no interleaving of joined
\* futures, retries, failed batches and missing results hangs its stage.
EveryCallEnds == \A c \in Callers : <>(state[c] \in {"answered", "raised"})
=============================================================================
