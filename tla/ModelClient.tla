----------------------------- MODULE ModelClient -----------------------------
(***************************************************************************)
(* llm.ModelClient and llm.TranscriptStore: a model call is answered from  *)
(* its recording on disk when there is one, and otherwise made live,       *)
(* validated and recorded (RECORD), or refused (REPLAY).                   *)
(*                                                                         *)
(* Several runs of the program share one store, each with several threads  *)
(* calling at a time, and a run may be killed at any moment.  A recording  *)
(* is written in place: the file is truncated when it is opened and filled *)
(* by a later write, and nothing keeps two writers of one file apart.      *)
(*                                                                         *)
(* A call is one complete(), embed() or replay_or_run(); the retry loop    *)
(* around the provider is in BatchedCalls.  replay_or_run asks its work    *)
(* for no key and no effort and keeps what it returned unvalidated: the    *)
(* case of a model that has its key, no effort and no Bad reply.           *)
(***************************************************************************)
EXTENDS Integers

CONSTANTS
    Runs,        \* the runs of the program
    Calls,       \* the calls that may be in flight, over all runs
    RunOf,       \* the run each call belongs to
    Keys,        \* request keys
    Request,     \* of each key: its kind (completion or embedding), the stage
                 \* that asks, the label, the effort and the size of the
                 \* partition, or None
    Model,           \* the run's model
    StageModels,     \* those of the stages that name one of their own
    EmbeddingModel,
    Provider,        \* of each model: whose key it takes
    Honours,         \* of each model: the controls its provider applies
    Answers,     \* replies that validate
    Older,       \* those an earlier version of the program recorded
    Bad,         \* a reply that does not
    None,        \* no recording, no reply
    Partial,     \* a file that exists but does not parse: empty, cut short or mixed
    MaxKills     \* bound: how often a run is killed

ASSUME ClientAssumption ==
    /\ RunOf \in [Calls -> Runs]
    /\ Older \subseteq Answers
    /\ Bad \notin Answers /\ None \notin Answers /\ Partial \notin Answers
    /\ Bad # None /\ Partial # None /\ Partial # Bad
    /\ MaxKills \in Nat

VARIABLES
    file,       \* the transcript of each key
    mode,       \* the mode of each run
    keyless,    \* of each run: the providers whose key is not set; a replay looks at none
    pc,         \* where each call is
    key,        \* what it asks
    record,     \* the record it holds
    disturbed,  \* the writers whose file was written by another since they opened it
    kills       \* how many runs have been killed

vars == <<file, mode, keyless, pc, key, record, disturbed, kills>>
run == <<mode, keyless>>

Raised == {"missing", "unkeyed", "unhonoured", "failed", "rejected", "corrupt"}
Ended == {"answered", "dead"} \union Raised
InFlight == {"calling", "storing", "writing"}

\* The models a run's configuration names, and whose keys they take.
Models == {Model, EmbeddingModel} \union {StageModels[s] : s \in DOMAIN StageModels}
Providers == {Provider[m] : m \in Models}

\* The model a request goes to: the stage's, if it names one.
ModelFor(stage) == IF stage \in DOMAIN StageModels THEN StageModels[stage] ELSE Model

ModelOf(c) ==
    LET request == Request[key[c]]
    IN  IF request.kind = "embedding" THEN EmbeddingModel ELSE ModelFor(request.stage)

\* The provider would discard the effort that is asked for.
EffortDropped(c) ==
    Request[key[c]].effort # None /\ "reasoning_effort" \notin Honours[ModelOf(c)]

\* A run's mode and keys.
Settings(m, unset) == unset \subseteq Providers /\ (m = "replay" => unset = {})

Whole(content) == content \notin {None, Partial}

Init ==
    /\ file \in [Keys -> Older \union {None}]
    /\ mode \in [Runs -> {"record", "replay"}]
    /\ keyless \in [Runs -> SUBSET Providers]
    /\ \A r \in Runs : Settings(mode[r], keyless[r])
    /\ pc = [c \in Calls |-> "idle"]
    /\ key \in [Calls -> Keys]
    /\ record = [c \in Calls |-> None]
    /\ disturbed = {}
    /\ kills = 0
-----------------------------------------------------------------------------
Go(c, place) == pc' = [pc EXCEPT ![c] = place]

\* Mutant: RECORD mode asks the provider again.
LookUpRecordingAnew(c) ==
    /\ pc[c] = "idle"
    /\ IF file[key[c]] = Partial
         THEN Go(c, "corrupt") /\ UNCHANGED record
       ELSE IF Whole(file[key[c]]) /\ mode[RunOf[c]] = "replay"
         THEN Go(c, "answered") /\ record' = [record EXCEPT ![c] = file[key[c]]]
       ELSE /\ UNCHANGED record
            /\ Go(c, IF mode[RunOf[c]] = "replay" THEN "missing" ELSE "calling")
    /\ UNCHANGED <<file, run, key, disturbed, kills>>

\* store.read: a recording answers the call, a file that does not parse raises,
\* and a missing one is a live call, except in REPLAY; it is stopped, for want of a
\* key first, before anything is sent.
LookUp(c) ==
    /\ pc[c] = "idle"
    /\ IF file[key[c]] = Partial
         THEN Go(c, "corrupt") /\ UNCHANGED record
       ELSE IF Whole(file[key[c]])
         THEN Go(c, "answered") /\ record' = [record EXCEPT ![c] = file[key[c]]]
       ELSE /\ UNCHANGED record
            /\ Go(c, IF mode[RunOf[c]] = "replay" THEN "missing"
                     ELSE IF Provider[ModelOf(c)] \in keyless[RunOf[c]] THEN "unkeyed"
                     ELSE IF EffortDropped(c) THEN "unhonoured"
                     ELSE "calling")
    /\ UNCHANGED <<file, run, key, disturbed, kills>>

\* Mutant: the reply is kept before it is validated (#160).
ReplyKeptUnvalidated(c) ==
    /\ pc[c] = "calling"
    /\ \/ Go(c, "failed") /\ UNCHANGED record
       \/ \E a \in (Answers \ Older) \union {Bad} :
            Go(c, "storing") /\ record' = [record EXCEPT ![c] = a]
    /\ UNCHANGED <<file, run, key, disturbed, kills>>

\* The provider fails, or replies; the reply is kept only if it validates.
Reply(c) ==
    /\ pc[c] = "calling"
    /\ \/ Go(c, "failed") /\ UNCHANGED record
       \/ \E a \in (Answers \ Older) \union {Bad} :
            /\ record' = [record EXCEPT ![c] = a]
            /\ Go(c, IF a = Bad THEN "rejected" ELSE "storing")
    /\ UNCHANGED <<file, run, key, disturbed, kills>>

\* store.write opens the file, which empties it ...
Open(c) ==
    /\ pc[c] = "storing"
    /\ file' = [file EXCEPT ![key[c]] = Partial]
    /\ Go(c, "writing")
    /\ disturbed' = disturbed \ {c}
    /\ UNCHANGED <<run, key, record, kills>>

\* ... and writes the record from the start of it.  What another writer put
\* there meanwhile is overwritten, unless it was longer.
Write(c) ==
    /\ pc[c] = "writing"
    /\ \E content \in {record[c]} \union (IF c \in disturbed THEN {Partial} ELSE {}) :
         file' = [file EXCEPT ![key[c]] = content]
    /\ disturbed' = disturbed \union
         {d \in Calls \ {c} : pc[d] = "writing" /\ key[d] = key[c]}
    /\ Go(c, "answered")
    /\ UNCHANGED <<run, key, record, kills>>

\* The write raises part of the way: the disk is full.
WriteFails(c) ==
    /\ pc[c] = "writing"
    /\ file' = [file EXCEPT ![key[c]] = Partial]
    /\ disturbed' = disturbed \union
         {d \in Calls \ {c} : pc[d] = "writing" /\ key[d] = key[c]}
    /\ Go(c, "failed")
    /\ UNCHANGED <<run, key, record, kills>>

\* A run is killed, and its calls with it; only the store is left.
Kill(r) ==
    /\ kills < MaxKills
    /\ \E c \in Calls : RunOf[c] = r /\ pc[c] \notin Ended
    /\ kills' = kills + 1
    /\ pc' = [c \in Calls |-> IF RunOf[c] = r THEN "dead" ELSE pc[c]]
    /\ UNCHANGED <<file, run, key, record, disturbed>>

\* Another run takes the place of one that is over, in either mode.
Rerun(r) ==
    /\ \A c \in Calls : RunOf[c] = r => pc[c] \in Ended
    /\ \E m \in {"record", "replay"}, unset \in SUBSET Providers :
         /\ Settings(m, unset)
         /\ mode' = [mode EXCEPT ![r] = m]
         /\ keyless' = [keyless EXCEPT ![r] = unset]
    /\ pc' = [c \in Calls |-> IF RunOf[c] = r THEN "idle" ELSE pc[c]]
    /\ record' = [c \in Calls |-> IF RunOf[c] = r THEN None ELSE record[c]]
    /\ UNCHANGED <<file, key, disturbed, kills>>
-----------------------------------------------------------------------------
Call(c) == LookUp(c) \/ Reply(c) \/ Open(c) \/ Write(c) \/ WriteFails(c)

Next ==
    \/ \E c \in Calls : Call(c)
    \/ \E r \in Runs : Kill(r) \/ Rerun(r)

Spec == Init /\ [][Next]_vars
-----------------------------------------------------------------------------
TypeOK ==
    /\ file \in [Keys -> Answers \union {None, Partial, Bad}]
    /\ mode \in [Runs -> {"record", "replay"}]
    /\ keyless \in [Runs -> SUBSET Providers]
    /\ pc \in [Calls -> {"idle"} \union InFlight \union Ended]
    /\ key \in [Calls -> Keys]
    /\ record \in [Calls -> Answers \union {None, Bad}]
    /\ disturbed \in SUBSET Calls
    /\ kills \in 0..MaxKills

\* A reply the harness rejects is never served again: every recording that
\* parses holds a validated reply, and so does every call that was answered,
\* through kills, concurrent recordings of one key and re-runs.
\* (_persist_live_call: "A response the harness rejects is not evidence and
\* must not be stored", #160.)
OnlyValidatedRepliesServe ==
    /\ \A k \in Keys : file[k] # Bad
    /\ \A c \in Calls : pc[c] = "answered" => record[c] \in Answers

\* Nobody is about to write the recording of k, and it is whole.
Finished(k) == Whole(file[k]) /\ \A c \in Calls : key[c] = k => pc[c] \notin InFlight

\* A recording is final: once it is whole and the calls that missed it are over,
\* it stays so.  No later call of any run, in either mode, makes the request
\* again or changes the file, so every replay returns the same answers.
RecordingIsFinal ==
    [][\A k \in Keys : Finished(k) => file'[k] = file[k] /\ Finished(k)']_vars
=============================================================================
