-------------------------- MODULE ModelClient_proofs --------------------------
(***************************************************************************)
(* Theorems about ModelClient, for any number of runs, calls, keys,        *)
(* replies and kills, and about Provenance, for any number of stages,      *)
(* models, labels and amounts too.                                         *)
(***************************************************************************)
EXTENDS Provenance, FiniteSetTheorems, FunctionTheorems, WellFoundedInduction, TLAPS

\* A record on its way to the store, or handed to a caller, validates.
IInv ==
    /\ TypeOK
    /\ \A k \in Keys : file[k] # Bad
    /\ \A c \in Calls : pc[c] \in {"storing", "writing", "answered"} => record[c] \in Answers

\* So it is at first, so it stays.
LEMMA InitIInv == Init => IInv
  BY ClientAssumption DEF Init, IInv, TypeOK

LEMMA StepIInv == IInv /\ [Next]_vars => IInv'
<1> SUFFICES ASSUME IInv, [Next]_vars PROVE IInv'
  OBVIOUS
<1> USE DEF IInv, Go, run
<1>1. ASSUME NEW c \in Calls, LookUp(c) PROVE IInv'
  <2>1. pc'[c] \in {"corrupt", "answered", "missing", "unkeyed", "unhonoured", "calling"}
    BY <1>1 DEF LookUp, TypeOK
  <2>2. pc' = [pc EXCEPT ![c] = pc'[c]] BY <1>1 DEF LookUp, TypeOK
  <2>3. pc' \in [Calls -> {"idle"} \union InFlight \union Ended]
    BY <2>1, <2>2 DEF TypeOK, InFlight, Ended, Raised
  <2>4. /\ \A d \in Calls \ {c} : pc'[d] = pc[d] /\ record'[d] = record[d]
        /\ pc'[c] = "answered" => record'[c] \in Answers
        /\ record' \in [Calls -> Answers \union {None, Bad}]
    BY <1>1 DEF LookUp, TypeOK, Whole
  <2> QED BY <1>1, <2>1, <2>3, <2>4 DEF LookUp, TypeOK
<1>2. ASSUME NEW c \in Calls, Reply(c) PROVE IInv'
  <2>1. pc'[c] \in {"failed", "rejected", "storing"} /\ pc' = [pc EXCEPT ![c] = pc'[c]]
    BY <1>2 DEF Reply, TypeOK
  <2>2. pc' \in [Calls -> {"idle"} \union InFlight \union Ended]
    BY <2>1 DEF TypeOK, InFlight, Ended, Raised
  <2>3. /\ \A d \in Calls \ {c} : pc'[d] = pc[d] /\ record'[d] = record[d]
        /\ pc'[c] = "storing" => record'[c] \in Answers
        /\ record' \in [Calls -> Answers \union {None, Bad}]
    BY <1>2 DEF Reply, TypeOK
  <2> QED BY <1>2, <2>1, <2>2, <2>3 DEF Reply, TypeOK
<1>3. ASSUME NEW c \in Calls, Open(c) PROVE IInv'
  BY <1>3, ClientAssumption DEF Open, TypeOK, InFlight, Ended, Raised
<1>4. ASSUME NEW c \in Calls, Write(c) PROVE IInv'
  <2>1. PICK content \in {record[c]} \union (IF c \in disturbed THEN {Partial} ELSE {}) :
          file' = [file EXCEPT ![key[c]] = content]
    BY <1>4 DEF Write
  <2>2. content \in Answers \union {Partial} BY <1>4, <2>1 DEF Write
  <2>3. file' \in [Keys -> Answers \union {None, Partial, Bad}] /\ \A k \in Keys : file'[k] # Bad
    BY <2>1, <2>2, ClientAssumption DEF TypeOK
  <2>4. pc' \in [Calls -> {"idle"} \union InFlight \union Ended]
    BY <1>4 DEF Write, TypeOK, Ended
  <2> QED BY <1>4, <2>3, <2>4 DEF Write, TypeOK
<1>5. ASSUME NEW r \in Runs, Kill(r) PROVE IInv'
  <2>1. kills' \in 0..MaxKills BY <1>5, ClientAssumption DEF Kill, TypeOK
  <2>2. pc' \in [Calls -> {"idle"} \union InFlight \union Ended]
    BY <1>5 DEF Kill, TypeOK, Ended
  <2> QED BY <1>5, <2>1, <2>2 DEF Kill, TypeOK
<1>6. ASSUME NEW r \in Runs, Rerun(r) PROVE IInv'
  <2>1. pc' \in [Calls -> {"idle"} \union InFlight \union Ended]
    BY <1>6 DEF Rerun, TypeOK
  <2>2. record' \in [Calls -> Answers \union {None, Bad}] BY <1>6 DEF Rerun, TypeOK
  <2>3. mode' \in [Runs -> {"record", "replay"}] /\ keyless' \in [Runs -> SUBSET Providers]
    BY <1>6 DEF Rerun, TypeOK
  <2>4. \A c \in Calls : pc'[c] \in {"storing", "writing", "answered"} => record'[c] \in Answers
    BY <1>6 DEF Rerun, TypeOK
  <2> QED BY <1>6, <2>1, <2>2, <2>3, <2>4 DEF Rerun, TypeOK
<1>7. ASSUME NEW c \in Calls, WriteFails(c) PROVE IInv'
  <2>1. file' \in [Keys -> Answers \union {None, Partial, Bad}] /\ \A k \in Keys : file'[k] # Bad
    BY <1>7, ClientAssumption DEF WriteFails, TypeOK
  <2>2. pc' \in [Calls -> {"idle"} \union InFlight \union Ended]
    BY <1>7 DEF WriteFails, TypeOK, Ended, Raised
  <2> QED BY <1>7, <2>1, <2>2 DEF WriteFails, TypeOK
<1>8. CASE UNCHANGED vars
  BY <1>8 DEF vars, TypeOK
<1> QED BY <1>1, <1>2, <1>3, <1>4, <1>5, <1>6, <1>7, <1>8 DEF Next, Call

LEMMA Invariance == Spec => []IInv
  BY InitIInv, StepIInv, PTL DEF Spec

\* The client's state keeps its types: in particular a call never holds half a record.
THEOREM TypeCorrect == Spec => []TypeOK
  BY Invariance, PTL DEF IInv

\* Whatever runs share the store, and whenever they are killed, a reply that
\* does not validate is neither stored nor handed to a stage.
THEOREM OnlyValidated == Spec => []OnlyValidatedRepliesServe
<1>1. IInv => OnlyValidatedRepliesServe
  BY DEF IInv, OnlyValidatedRepliesServe
<1> QED BY <1>1, Invariance, PTL

\* Once a recording is finished it stays so, and no run ever changes it: a call
\* of its key is answered from it without a word to the provider.
THEOREM RecordingsAreFinal == Spec => RecordingIsFinal
<1>1. ASSUME IInv, [Next]_vars, NEW k \in Keys, Finished(k)
      PROVE  file'[k] = file[k] /\ Finished(k)'
  <2> USE <1>1 DEF IInv, TypeOK, Finished, InFlight, Ended, Raised
  <2>1. ASSUME NEW c \in Calls, Reply(c) \/ Open(c) \/ Write(c) \/ WriteFails(c)
        PROVE  file'[k] = file[k] /\ Finished(k)'
    <3>1. key[c] # k
      BY <2>1 DEF Reply, Open, Write, WriteFails
    <3>2. file'[k] = file[k] /\ key' = key
      BY <2>1, <3>1 DEF Reply, Open, Write, WriteFails, run
    <3>3. \A d \in Calls \ {c} : pc'[d] = pc[d]
      BY <2>1 DEF Reply, Open, Write, WriteFails, Go
    <3> QED BY <3>1, <3>2, <3>3 DEF Whole
  <2>2. ASSUME NEW c \in Calls, LookUp(c)
        PROVE  file'[k] = file[k] /\ Finished(k)'
    <3>1. file' = file /\ key' = key
      BY <2>2 DEF LookUp, run
    <3>2. \A d \in Calls \ {c} : pc'[d] = pc[d]
      BY <2>2 DEF LookUp, Go
    <3>3. key[c] = k => pc'[c] = "answered"
      BY <2>2 DEF LookUp, Go, Whole
    <3> QED BY <3>1, <3>2, <3>3 DEF Whole
  <2>3. ASSUME NEW r \in Runs, Kill(r) \/ Rerun(r)
        PROVE  file'[k] = file[k] /\ Finished(k)'
    BY <2>3 DEF Kill, Rerun, run, Whole
  <2>4. CASE UNCHANGED vars
    BY <2>4 DEF vars, run, Whole
  <2> QED BY <2>1, <2>2, <2>3, <2>4 DEF Next, Call
<1>2. IInv /\ [Next]_vars =>
        [\A k \in Keys : Finished(k) => file'[k] = file[k] /\ Finished(k)']_vars
  BY <1>1
<1> QED BY <1>2, Invariance, PTL DEF Spec, RecordingIsFinal
-----------------------------------------------------------------------------
(***************************************************************************)
(* What is noted of the calls.                                             *)
(***************************************************************************)

\* What is noted of a call is so: where its answer came from, in which mode, under
\* which recording.  A recording of an earlier version stays, and every answer to
\* its request comes from it; a later one was made with the effort it asks for.
Noted(c) ==
    /\ pc[c] = "answered" => observed[c] # None
    /\ observed[c] # None => pc[c] \in {"answered", "dead"} /\ record[c] \in Answers
    /\ pc[c] \in InFlight \union {"unkeyed"} \/ observed[c] = "provider" => mode[RunOf[c]] = "record"
    /\ pc[c] = "unkeyed" => Provider[ModelOf(c)] \in keyless[RunOf[c]]
    /\ pc[c] \in InFlight \/ {file[key[c]], record[c]} \cap (Answers \ Older) # {} =>
          ~EffortDropped(c)
    /\ record[c] \in Older => file[key[c]] \in Older
    /\ file[key[c]] \in Older =>
          pc[c] \notin InFlight /\ (record[c] \in Answers => record[c] \in Older)

PInv ==
    /\ IInv
    /\ observed \in [Calls -> {None, "recording", "provider"}]
    /\ \A c \in Calls : Noted(c)

\* Noting a call is a step of the client, or none.
LEMMA Refines ==
    /\ InitProvenance => Init
    /\ [NextProvenance]_provenanceVars => [Next]_vars
<1>1. InitProvenance => Init
  BY DEF InitProvenance
<1>2. NextProvenance => Next
  BY DEF NextProvenance, Next, Call
<1>3. UNCHANGED provenanceVars => UNCHANGED vars
  BY DEF provenanceVars
<1> QED BY <1>1, <1>2, <1>3

\* What holds of the client holds of the clients whose calls are noted.
THEOREM NotedCallsAreCalls == ProvenanceSpec => Spec
  BY Refines, PTL DEF ProvenanceSpec, Spec

\* Nothing is noted before the first call.
LEMMA InitPInv == InitProvenance => PInv
<1> SUFFICES ASSUME InitProvenance PROVE PInv
  OBVIOUS
<1>1. IInv
  BY Refines, InitIInv
<1>2. observed \in [Calls -> {None, "recording", "provider"}]
  BY DEF InitProvenance
<1>3. ASSUME NEW c \in Calls PROVE Noted(c)
  <2>1. pc[c] = "idle" /\ observed[c] = None /\ record[c] = None
    BY DEF InitProvenance, Init
  <2>2. None \notin Answers /\ None \notin Older /\ None # "provider"
    BY ClientAssumption, ProvenanceAssumption
  <2>3. file[key[c]] \in Older \union {None}
    BY DEF InitProvenance, Init
  <2> QED BY <2>1, <2>2, <2>3 DEF Noted, InFlight
<1> QED BY <1>1, <1>2, <1>3 DEF PInv

\* A call that a step leaves alone is noted as it was.
LEMMA Alone ==
    ASSUME NEW c \in Calls, Noted(c), pc'[c] = pc[c], observed'[c] = observed[c],
           record'[c] = record[c], mode'[RunOf[c]] = mode[RunOf[c]],
           keyless'[RunOf[c]] = keyless[RunOf[c]], key'[c] = key[c],
           \/ file'[key[c]] = file[key[c]]
           \/ file[key[c]] \notin Older /\ file'[key[c]] \notin Older /\ ~EffortDropped(c)
    PROVE  Noted(c)'
  BY DEF Noted, ModelOf, EffortDropped

\* Each step keeps what is noted so.
LEMMA StepPInv == PInv /\ [NextProvenance]_provenanceVars => PInv'
<1> SUFFICES ASSUME PInv, [NextProvenance]_provenanceVars PROVE PInv'
  OBVIOUS
<1> USE DEF PInv
<1>0. IInv'
  BY Refines, StepIInv
<1>a. TypeOK
  BY DEF IInv
<1>b. /\ None \notin Answers /\ Older \subseteq Answers /\ Partial \notin Older /\ Bad \notin Older
      /\ None \notin {"recording", "provider"} /\ RunOf \in [Calls -> Runs]
  BY ClientAssumption, ProvenanceAssumption
<1>c. \A c \in Calls : Noted(c)
  OBVIOUS
<1>1. ASSUME NEW c \in Calls, LookUp(c), Observe(c, "recording") PROVE PInv'
  <2>1. pc' = [pc EXCEPT ![c] = pc'[c]] /\ pc[c] = "idle"
    BY <1>1, <1>a DEF LookUp, Go, TypeOK
  <2>2. UNCHANGED <<file, mode, keyless, key>>
    BY <1>1 DEF LookUp, run
  <2>3. observed' \in [Calls -> {None, "recording", "provider"}]
    BY <1>1 DEF Observe
  <2>4. ASSUME NEW d \in Calls \ {c} PROVE Noted(d)'
    <3>1. pc'[d] = pc[d] /\ observed'[d] = observed[d] /\ record'[d] = record[d]
      BY <1>1, <1>a, <2>1 DEF LookUp, Observe, TypeOK
    <3> QED BY <1>c, <2>2, <3>1, Alone
  <2>5. Noted(c)'
    <3>0. observed[c] = None
      BY <1>c, <2>1 DEF Noted
    <3>1. CASE pc'[c] = "answered"
      <4>1. record'[c] = file[key[c]] /\ observed'[c] = "recording"
        BY <1>1, <1>a, <3>1 DEF LookUp, Observe, Go, TypeOK
      <4>2. file[key[c]] \in Answers
        BY <1>1, <1>a, <3>1 DEF LookUp, Go, IInv, TypeOK, Whole
      <4>3. file[key[c]] \notin Older => ~EffortDropped(c)
        BY <1>c, <4>2 DEF Noted
      <4>4. EffortDropped(c)' = EffortDropped(c)
        BY <2>2 DEF EffortDropped, ModelOf
      <4> QED BY <1>b, <2>2, <3>1, <4>1, <4>2, <4>3, <4>4 DEF Noted, InFlight
    <3>2. CASE pc'[c] # "answered"
      <4>1. observed'[c] = None /\ record'[c] = record[c]
        BY <1>1, <1>a, <3>0, <3>2 DEF LookUp, Observe, Go, TypeOK
      <4>2. pc'[c] \in {"calling", "unkeyed"} =>
                mode[RunOf[c]] = "record" /\ file[key[c]] \notin Answers
        BY <1>1, <1>a, <1>b, <3>2 DEF LookUp, Go, TypeOK, Whole
      <4>3. /\ pc'[c] = "unkeyed" => Provider[ModelOf(c)] \in keyless[RunOf[c]]
            /\ pc'[c] = "calling" => ~EffortDropped(c)
        BY <1>1, <1>a, <3>2 DEF LookUp, Go, TypeOK
      <4>4. pc'[c] \in {"corrupt", "missing", "unkeyed", "unhonoured", "calling"}
        BY <1>1, <1>a, <3>2 DEF LookUp, Go, TypeOK
      <4>5. (record[c] \in Older => file[key[c]] \in Older) /\
            (file[key[c]] \in Older => (record[c] \in Answers => record[c] \in Older))
        BY <1>c DEF Noted
      <4>6. {file[key[c]], record[c]} \cap (Answers \ Older) # {} => ~EffortDropped(c)
        BY <1>c DEF Noted
      <4>7. EffortDropped(c)' = EffortDropped(c) /\ ModelOf(c)' = ModelOf(c)
        BY <2>2 DEF EffortDropped, ModelOf
      <4> QED BY <1>b, <2>2, <3>2, <4>1, <4>2, <4>3, <4>4, <4>5, <4>6, <4>7 DEF Noted, InFlight
    <3> QED BY <3>1, <3>2
  <2> QED BY <1>0, <2>3, <2>4, <2>5
<1>2. ASSUME NEW c \in Calls, Reply(c), UNCHANGED observed PROVE PInv'
  <2>1. pc[c] = "calling" /\ pc' = [pc EXCEPT ![c] = pc'[c]] /\ pc'[c] \in {"failed", "rejected", "storing"}
    BY <1>2, <1>a DEF Reply, Go, TypeOK
  <2>2. UNCHANGED <<file, mode, keyless, key>>
    BY <1>2 DEF Reply, run
  <2>3. ASSUME NEW d \in Calls \ {c} PROVE Noted(d)'
    <3>1. pc'[d] = pc[d] /\ record'[d] = record[d]
      BY <1>2, <1>a, <2>1 DEF Reply, TypeOK
    <3> QED BY <1>2, <1>c, <2>2, <3>1, Alone
  <2>4. Noted(c)'
    <3>1. observed[c] = None /\ mode[RunOf[c]] = "record" /\ file[key[c]] \notin Older
      BY <1>c, <2>1 DEF Noted, InFlight
    <3>2. record[c] \notin Older
      BY <1>c, <3>1 DEF Noted
    <3>3. record'[c] \notin Older
      BY <1>2, <1>a, <1>b, <3>2 DEF Reply, TypeOK
    <3>4. ~EffortDropped(c) /\ EffortDropped(c)' = EffortDropped(c)
      BY <1>c, <2>1, <2>2 DEF Noted, InFlight, EffortDropped, ModelOf
    <3> QED BY <1>2, <1>b, <2>1, <2>2, <3>1, <3>3, <3>4 DEF Noted, InFlight
  <2> QED BY <1>0, <1>2, <2>3, <2>4
<1>3. ASSUME NEW c \in Calls, pc[c] \in {"storing", "writing"},
             UNCHANGED <<run, key, record>>, pc' = [pc EXCEPT ![c] = pc'[c]],
             pc'[c] \in {"writing", "failed", "answered"},
             NEW content \in {record[c], Partial}, file' = [file EXCEPT ![key[c]] = content],
             observed' = IF pc'[c] = "answered" THEN [observed EXCEPT ![c] = "provider"]
                         ELSE observed
      PROVE  PInv'
  <2>1. observed' \in [Calls -> {None, "recording", "provider"}]
    BY <1>3
  <2>2. observed[c] = None /\ mode[RunOf[c]] = "record" /\ file[key[c]] \notin Older
    BY <1>c, <1>3 DEF Noted, InFlight
  <2>3. record[c] \notin Older /\ record[c] \in Answers
    BY <1>c, <1>3, <2>2 DEF Noted, IInv
  <2>4. content \notin Older
    BY <1>b, <1>3, <2>3
  <2>7. ~EffortDropped(c)
    BY <1>c, <1>3 DEF Noted, InFlight
  <2>5. ASSUME NEW d \in Calls \ {c} PROVE Noted(d)'
    <3>1. pc'[d] = pc[d] /\ observed'[d] = observed[d]
      BY <1>3, <1>a DEF TypeOK
    <3>2. \/ file'[key[d]] = file[key[d]]
          \/ file[key[d]] \notin Older /\ file'[key[d]] \notin Older /\ ~EffortDropped(d)
      <4>1. key[d] = key[c] => ~EffortDropped(d)
        BY <2>7 DEF EffortDropped, ModelOf
      <4> QED BY <1>3, <1>a, <2>2, <2>4, <4>1 DEF TypeOK
    <3> QED BY <1>3, <1>c, <3>1, <3>2, Alone DEF run
  <2>6. Noted(c)'
    <3>1. file'[key[c]] \notin Older /\ pc'[c] # "unkeyed" /\ mode' = mode /\ key' = key
      BY <1>3, <1>a, <2>4 DEF TypeOK, run
    <3>2. IF pc'[c] = "answered" THEN observed'[c] = "provider" ELSE observed'[c] = None
      BY <1>3, <2>2
    <3>3. ~EffortDropped(c)'
      BY <2>7, <3>1 DEF EffortDropped, ModelOf
    <3> QED BY <1>3, <1>b, <2>2, <2>3, <3>1, <3>2, <3>3 DEF Noted
  <2> QED BY <1>0, <2>1, <2>5, <2>6
<1>4. ASSUME NEW c \in Calls, Open(c), UNCHANGED observed PROVE PInv'
  <2>1. pc[c] = "storing" /\ pc' = [pc EXCEPT ![c] = "writing"]
    BY <1>4 DEF Open, Go
  <2>2. pc'[c] = "writing" /\ pc' = [pc EXCEPT ![c] = pc'[c]]
    BY <2>1, <1>a DEF TypeOK
  <2> QED BY <1>3, <1>4, <2>1, <2>2 DEF Open
<1>5. ASSUME NEW c \in Calls, WriteFails(c), UNCHANGED observed PROVE PInv'
  <2>1. pc[c] = "writing" /\ pc' = [pc EXCEPT ![c] = "failed"]
    BY <1>5 DEF WriteFails, Go
  <2>2. pc'[c] = "failed" /\ pc' = [pc EXCEPT ![c] = pc'[c]]
    BY <2>1, <1>a DEF TypeOK
  <2> QED BY <1>3, <1>5, <2>1, <2>2 DEF WriteFails
<1>6. ASSUME NEW c \in Calls, Write(c), Observe(c, "provider") PROVE PInv'
  <2>1. pc[c] = "writing" /\ pc' = [pc EXCEPT ![c] = "answered"]
    BY <1>6 DEF Write, Go
  <2>2. pc'[c] = "answered" /\ pc' = [pc EXCEPT ![c] = pc'[c]]
    BY <2>1, <1>a DEF TypeOK
  <2>3. PICK content \in {record[c], Partial} : file' = [file EXCEPT ![key[c]] = content]
    BY <1>6 DEF Write
  <2> QED BY <1>3, <1>6, <2>1, <2>2, <2>3 DEF Write, Observe
<1>7. ASSUME NEW r \in Runs, Kill(r), UNCHANGED observed PROVE PInv'
  <2>1. UNCHANGED <<file, mode, keyless, key, record>>
    BY <1>7 DEF Kill, run
  <2>2. ASSUME NEW c \in Calls PROVE Noted(c)'
    <3>1. CASE RunOf[c] # r
      <4>1. pc'[c] = pc[c]
        BY <1>7, <3>1 DEF Kill
      <4> QED BY <1>7, <1>c, <2>1, <4>1, Alone
    <3>2. CASE RunOf[c] = r
      <4>1. pc'[c] = "dead"
        BY <1>7, <3>2 DEF Kill
      <4>2. EffortDropped(c)' = EffortDropped(c)
        BY <2>1 DEF EffortDropped, ModelOf
      <4> QED BY <1>7, <1>c, <2>1, <4>1, <4>2 DEF Noted, InFlight
    <3> QED BY <3>1, <3>2
  <2> QED BY <1>0, <1>7, <2>2
<1>8. ASSUME NEW r \in Runs, Rerun(r),
             observed' = [c \in Calls |-> IF RunOf[c] = r THEN None ELSE observed[c]]
      PROVE  PInv'
  <2>1. UNCHANGED <<file, key>>
    BY <1>8 DEF Rerun
  <2>2. observed' \in [Calls -> {None, "recording", "provider"}]
    BY <1>8
  <2>3. ASSUME NEW c \in Calls PROVE Noted(c)'
    <3>1. CASE RunOf[c] # r
      <4>1. pc'[c] = pc[c] /\ record'[c] = record[c] /\ observed'[c] = observed[c]
        BY <1>8, <3>1 DEF Rerun
      <4>2. mode'[RunOf[c]] = mode[RunOf[c]] /\ keyless'[RunOf[c]] = keyless[RunOf[c]]
        BY <1>8, <1>a, <1>b, <3>1 DEF Rerun, TypeOK
      <4> QED BY <1>c, <2>1, <4>1, <4>2, Alone
    <3>2. CASE RunOf[c] = r
      <4>1. pc'[c] = "idle" /\ record'[c] = None /\ observed'[c] = None
        BY <1>8, <3>2 DEF Rerun
      <4>2. EffortDropped(c)' = EffortDropped(c)
        BY <2>1 DEF EffortDropped, ModelOf
      <4> QED BY <1>b, <1>c, <2>1, <4>1, <4>2 DEF Noted, InFlight
    <3> QED BY <3>1, <3>2
  <2> QED BY <1>0, <2>2, <2>3
<1>9. CASE UNCHANGED provenanceVars
  <2>1. \A c \in Calls : Noted(c)'
    BY <1>9, <1>c, Alone DEF provenanceVars, vars
  <2> QED BY <1>0, <1>9, <2>1 DEF provenanceVars, vars
<1> QED BY <1>1, <1>2, <1>4, <1>5, <1>6, <1>7, <1>8, <1>9 DEF NextProvenance

\* What is noted is so throughout.
LEMMA AlwaysNoted == ProvenanceSpec => []PInv
  BY InitPInv, StepPInv, PTL DEF ProvenanceSpec
-----------------------------------------------------------------------------
(***************************************************************************)
(* Sums, and what does not depend on their order.                          *)
(***************************************************************************)

\* A set of numbers that holds 0 and, with a number, the next one holds them all.
LEMMA Counting ==
    ASSUME NEW T, 0 \in T, \A n \in Nat : n \in T => n + 1 \in T
    PROVE  Nat \subseteq T
<1> SUFFICES ASSUME Nat \ T # {} PROVE FALSE
  OBVIOUS
<1>1. IsWellFoundedOn(OpToRel(<, Nat), Nat)
  BY NatLessThanWellFounded
<1>2. PICK least \in Nat \ T : \A n \in Nat \ T : ~ (<<n, least>> \in OpToRel(<, Nat))
  BY <1>1, WFMin
<1>3. least - 1 \in Nat /\ least - 1 < least
  OBVIOUS
<1>4. <<least - 1, least>> \in OpToRel(<, Nat)
  BY <1>3 DEF OpToRel
<1>5. least - 1 \in T
  BY <1>2, <1>3, <1>4
<1>. QED
  BY <1>3, <1>5

\* A family that has the empty set and, with a set, each set of one element more
\* has every finite set.
LEMMA Growing ==
    ASSUME NEW S, IsFiniteSet(S), NEW F, {} \in F,
           \A T \in SUBSET S, x \in S : T \in F /\ x \notin T => T \cup {x} \in F
    PROVE  S \in F
<1> DEFINE N == {n \in Nat : \A T \in SUBSET S : Cardinality(T) = n => T \in F}
<1>1. 0 \in N
  <2>1. \A T \in SUBSET S : Cardinality(T) = 0 => T = {}
    BY FS_Subset, FS_EmptySet
  <2> QED BY <2>1
<1>2. ASSUME NEW n \in Nat, n \in N PROVE n + 1 \in N
  <2>1. ASSUME NEW T \in SUBSET S, Cardinality(T) = n + 1 PROVE T \in F
    <3>1. IsFiniteSet(T)
      BY FS_Subset
    <3>2. T # {}
      <4>1. Cardinality({}) = 0
        BY FS_EmptySet
      <4> HIDE DEF N
      <4> QED BY <2>1, <4>1
    <3>3. PICK x : x \in T
      BY <3>2
    <3>4. Cardinality(T \ {x}) = n
      <4>1. Cardinality(T \ {x}) = Cardinality(T) - 1
        BY <3>1, <3>3, FS_RemoveElement
      <4> HIDE DEF N
      <4> QED BY <2>1, <4>1
    <3>5. T \ {x} \in F
      BY <1>2, <3>4
    <3>6. T = (T \ {x}) \cup {x}
      BY <3>3
    <3> QED BY <3>3, <3>5, <3>6
  <2> QED BY <2>1
<1>3. Nat \subseteq N
  <2> HIDE DEF N
  <2> QED BY <1>1, <1>2, Counting
<1>4. Cardinality(S) \in N
  BY <1>3, FS_CardinalityType
<1> QED BY <1>4

\* What a sum holds of each set of places, taking out one after another.
Pick(s) == CHOOSE x \in s : TRUE
Adds(f, S, g) ==
    \A s \in SUBSET S : g[s] = IF s = {} THEN 0 ELSE f[Pick(s)] + g[s \ {Pick(s)}]

\* One is taken while there is one.
LEMMA Picked == ASSUME NEW s, s # {} PROVE Pick(s) \in s
  BY DEF Pick

\* There is such a function.
LEMMA AddsExist ==
    ASSUME NEW S, IsFiniteSet(S), NEW f \in [S -> Nat]
    PROVE  \E g \in [SUBSET S -> Nat] : Adds(f, S, g)
<1> DEFINE Small(n) == {s \in SUBSET S : Cardinality(s) <= n}
           N == {n \in Nat : \E g \in [Small(n) -> Nat] : \A s \in Small(n) :
                    g[s] = IF s = {} THEN 0 ELSE f[Pick(s)] + g[s \ {Pick(s)}]}
<1>0. \A s \in SUBSET S : IsFiniteSet(s) /\ Cardinality(s) \in Nat
  BY FS_Subset, FS_CardinalityType
<1>1. 0 \in N
  <2>1. \A s \in Small(0) : s = {}
    BY <1>0, FS_EmptySet
  <2> DEFINE g == [s \in Small(0) |-> 0]
  <2>2. g \in [Small(0) -> Nat] /\ \A s \in Small(0) : g[s] = 0
    OBVIOUS
  <2> QED BY <2>1, <2>2
<1>2. ASSUME NEW n \in Nat, n \in N PROVE n + 1 \in N
  <2>1. PICK g \in [Small(n) -> Nat] : \A s \in Small(n) :
            g[s] = IF s = {} THEN 0 ELSE f[Pick(s)] + g[s \ {Pick(s)}]
    BY <1>2
  <2>2. ASSUME NEW s \in Small(n + 1), s # {} PROVE s \ {Pick(s)} \in Small(n) /\ f[Pick(s)] \in Nat
    <3>1. Pick(s) \in s
      BY <2>2, Picked
    <3>2. IsFiniteSet(s) /\ Cardinality(s) \in Nat
      BY <1>0
    <3>3. Cardinality(s \ {Pick(s)}) = Cardinality(s) - 1
      BY <3>1, <3>2, FS_RemoveElement
    <3> QED BY <3>1, <3>2, <3>3
  <2> DEFINE h == [s \in Small(n + 1) |->
                      IF s = {} THEN 0 ELSE f[Pick(s)] + g[s \ {Pick(s)}]]
  <2>3. h \in [Small(n + 1) -> Nat]
    BY <2>1, <2>2
  <2>4. \A s \in Small(n) : s \in Small(n + 1)
    BY <1>0
  <2>5. \A s \in Small(n) : h[s] = g[s]
    BY <2>1, <2>4
  <2>6. \A s \in Small(n + 1) : h[s] = IF s = {} THEN 0 ELSE f[Pick(s)] + g[s \ {Pick(s)}]
    OBVIOUS
  <2>7. \A s \in Small(n + 1) : h[s] = IF s = {} THEN 0 ELSE f[Pick(s)] + h[s \ {Pick(s)}]
    <3> HIDE DEF h
    <3> QED BY <2>2, <2>5, <2>6
  <2>8. \E k \in [Small(n + 1) -> Nat] : \A s \in Small(n + 1) :
            k[s] = IF s = {} THEN 0 ELSE f[Pick(s)] + k[s \ {Pick(s)}]
    <3> HIDE DEF h, N, Small
    <3> QED BY <2>3, <2>7
  <2>9. n + 1 \in Nat
    OBVIOUS
  <2> HIDE DEF Small, h
  <2> QED BY <2>8, <2>9
<1>3. Nat \subseteq N
  <2> HIDE DEF N
  <2> QED BY <1>1, <1>2, Counting
<1>4. Cardinality(S) \in N
  BY <1>3, FS_CardinalityType
<1>5. Small(Cardinality(S)) = SUBSET S
  BY FS_Subset
<1>6. PICK g \in [SUBSET S -> Nat] : \A s \in SUBSET S :
            g[s] = IF s = {} THEN 0 ELSE f[Pick(s)] + g[s \ {Pick(s)}]
  BY <1>4, <1>5
<1> QED BY <1>6 DEF Adds

\* And no other: it depends on the figures alone.
LEMMA AddsAgree ==
    ASSUME NEW S, IsFiniteSet(S), NEW T \in SUBSET S, NEW f, NEW h, \A x \in T : f[x] = h[x],
           NEW g, NEW k, Adds(f, S, g), Adds(h, T, k)
    PROVE  \A s \in SUBSET T : g[s] = k[s]
<1> DEFINE N == {n \in Nat : \A s \in SUBSET T : Cardinality(s) <= n => g[s] = k[s]}
<1>0. \A s \in SUBSET T : s \in SUBSET S /\ IsFiniteSet(s) /\ Cardinality(s) \in Nat
  BY FS_Subset, FS_CardinalityType
<1>1. 0 \in N
  <2>1. \A s \in SUBSET T : Cardinality(s) <= 0 => s = {}
    BY <1>0, FS_EmptySet
  <2>2. g[{}] = 0 /\ k[{}] = 0
    BY DEF Adds
  <2> QED BY <2>1, <2>2
<1>2. ASSUME NEW n \in Nat, n \in N PROVE n + 1 \in N
  <2>1. ASSUME NEW s \in SUBSET T, Cardinality(s) <= n + 1, s # {} PROVE g[s] = k[s]
    <3>1. Pick(s) \in s /\ s \ {Pick(s)} \in SUBSET T
      BY <2>1, Picked
    <3>2. Cardinality(s \ {Pick(s)}) = Cardinality(s) - 1
      BY <1>0, <3>1, FS_RemoveElement
    <3>3. Cardinality(s \ {Pick(s)}) <= n
      BY <1>0, <2>1, <3>2
    <3>4. g[s \ {Pick(s)}] = k[s \ {Pick(s)}]
      BY <1>2, <3>1, <3>3
    <3>5. f[Pick(s)] = h[Pick(s)]
      BY <3>1
    <3> QED BY <1>0, <2>1, <3>4, <3>5 DEF Adds
  <2>2. g[{}] = k[{}]
    BY DEF Adds
  <2> QED BY <2>1, <2>2
<1>3. Nat \subseteq N
  <2> HIDE DEF N
  <2> QED BY <1>1, <1>2, Counting
<1>4. ASSUME NEW s \in SUBSET T PROVE g[s] = k[s]
  <2>1. Cardinality(s) \in N
    BY <1>0, <1>3
  <2> QED BY <1>0, <2>1
<1> QED BY <1>4

AddsAny(f, S, g) == \A s \in SUBSET S : \A x \in s : g[s] = f[x] + g[s \ {x}]

\* The order in which they are taken does not matter.
LEMMA TakingAny ==
    ASSUME NEW S, IsFiniteSet(S), NEW f \in [S -> Nat], NEW g \in [SUBSET S -> Nat], Adds(f, S, g)
    PROVE  AddsAny(f, S, g)
<1> DEFINE N == {n \in Nat : \A s \in SUBSET S : \A x \in s :
                    Cardinality(s) <= n => g[s] = f[x] + g[s \ {x}]}
<1>0. \A s \in SUBSET S : IsFiniteSet(s) /\ Cardinality(s) \in Nat
  BY FS_Subset, FS_CardinalityType
<1>1. 0 \in N
  <2>1. \A s \in SUBSET S : Cardinality(s) <= 0 => s = {}
    BY <1>0, FS_EmptySet
  <2> QED BY <2>1
<1>2. ASSUME NEW n \in Nat, n \in N PROVE n + 1 \in N
  <2>1. ASSUME NEW s \in SUBSET S, NEW x \in s, Cardinality(s) <= n + 1
        PROVE  g[s] = f[x] + g[s \ {x}]
    <3> DEFINE y == Pick(s)
    <3>1. y \in s
      BY <2>1, Picked
    <3>2. g[s] = f[y] + g[s \ {y}]
      BY <2>1 DEF Adds
    <3> HIDE DEF y
    <3>3. CASE x = y
      BY <3>2, <3>3
    <3>4. CASE x # y
      <4>1. Cardinality(s \ {y}) <= n /\ Cardinality(s \ {x}) <= n
        BY <1>0, <2>1, <3>1, FS_RemoveElement
      <4>2. s \ {y} \in SUBSET S /\ s \ {x} \in SUBSET S /\ x \in s \ {y} /\ y \in s \ {x}
        BY <3>1, <3>4
      <4>3. g[s \ {y}] = f[x] + g[(s \ {y}) \ {x}]
        BY <1>2, <4>1, <4>2
      <4>4. g[s \ {x}] = f[y] + g[(s \ {x}) \ {y}]
        BY <1>2, <4>1, <4>2
      <4>5. (s \ {y}) \ {x} = (s \ {x}) \ {y} /\ (s \ {y}) \ {x} \in SUBSET S
        OBVIOUS
      <4>6. f[x] \in Nat /\ f[y] \in Nat /\ g[(s \ {y}) \ {x}] \in Nat
        BY <3>1, <4>5
      <4> DEFINE rest == g[(s \ {y}) \ {x}]
      <4>7. g[s] = f[y] + (f[x] + rest) /\ g[s \ {x}] = f[y] + rest
        BY <3>2, <4>3, <4>4, <4>5
      <4>8. rest \in Nat
        BY <4>6
      <4> HIDE DEF rest, N
      <4> QED BY <4>6, <4>7, <4>8
    <3> QED BY <3>3, <3>4
  <2> QED BY <2>1
<1>3. Nat \subseteq N
  <2> HIDE DEF N
  <2> QED BY <1>1, <1>2, Counting
<1>4. ASSUME NEW s \in SUBSET S, NEW x \in s PROVE g[s] = f[x] + g[s \ {x}]
  <2>1. Cardinality(s) \in N
    BY <1>0, <1>3
  <2> QED BY <1>0, <2>1
<1> QED BY <1>4 DEF AddsAny

\* A sum is the figure that all of its places come to.
LEMMA SumIs ==
    ASSUME NEW S, IsFiniteSet(S), NEW f \in [S -> Nat]
    PROVE  \E g \in [SUBSET S -> Nat] : Adds(f, S, g) /\ Sum(f) = g[S]
<1>1. PICK g \in [SUBSET S -> Nat] : Adds(f, S, g)
  BY AddsExist
<1> DEFINE iter == CHOOSE h : h = [s \in SUBSET S |->
                       IF s = {} THEN 0
                       ELSE f[CHOOSE x \in s : TRUE] + h[s \ {CHOOSE x \in s : TRUE}]]
<1>2. g = [s \in SUBSET S |->
              IF s = {} THEN 0
              ELSE f[CHOOSE x \in s : TRUE] + g[s \ {CHOOSE x \in s : TRUE}]]
  BY <1>1 DEF Adds, Pick
<1>3. iter = [s \in SUBSET S |->
              IF s = {} THEN 0
              ELSE f[CHOOSE x \in s : TRUE] + iter[s \ {CHOOSE x \in s : TRUE}]]
  BY <1>2
<1>4. DOMAIN f = S
  OBVIOUS
<1>5. Sum(f) = iter[S]
  BY <1>4 DEF Sum, MapThenSumSet, MapThenFoldSet
<1> HIDE DEF iter
<1>6. Adds(f, S, iter)
  BY <1>3 DEF Adds, Pick
<1>7. iter[S] = g[S]
  BY <1>1, <1>6, AddsAgree
<1> QED BY <1>1, <1>5, <1>7

\* A sum is over nothing, or one of its figures and the sum of the others.
LEMMA SumTakes ==
    ASSUME NEW S, IsFiniteSet(S), NEW f \in [S -> Nat]
    PROVE  /\ Sum(f) \in Nat
           /\ S = {} => Sum(f) = 0
           /\ \A x \in S : Sum(f) = f[x] + Sum([y \in S \ {x} |-> f[y]])
<1>1. PICK g \in [SUBSET S -> Nat] : Adds(f, S, g) /\ Sum(f) = g[S]
  BY SumIs
<1>2. S = {} => g[S] = 0
  BY <1>1 DEF Adds
<1>a. AddsAny(f, S, g)
  BY <1>1, TakingAny
<1>3. ASSUME NEW x \in S PROVE Sum(f) = f[x] + Sum([y \in S \ {x} |-> f[y]])
  <2> DEFINE T == S \ {x}
             h == [y \in T |-> f[y]]
  <2>1. IsFiniteSet(T) /\ T \in SUBSET S /\ h \in [T -> Nat] /\ \A y \in T : f[y] = h[y]
    BY FS_Subset
  <2> HIDE DEF h
  <2>2. PICK k \in [SUBSET T -> Nat] : Adds(h, T, k) /\ Sum(h) = k[T]
    BY <2>1, SumIs
  <2>3. g[T] = k[T]
    BY <1>1, <2>1, <2>2, AddsAgree
  <2>4. g[S] = f[x] + g[T]
    <3>2. S \in SUBSET S
      OBVIOUS
    <3> QED BY <1>a, <3>2 DEF AddsAny
  <2> QED BY <1>1, <2>2, <2>3, <2>4 DEF h
<1> QED BY <1>1, <1>2, <1>3

\* The figures of some of the places.
Of(f, S) == [x \in S |-> f[x]]

\* The sum of the figures of some places.
LEMMA SumOf ==
    ASSUME NEW S, IsFiniteSet(S), NEW f, \A x \in S : f[x] \in Nat
    PROVE  /\ Sum(Of(f, S)) \in Nat
           /\ S = {} => Sum(Of(f, S)) = 0
           /\ \A x \in S : Sum(Of(f, S)) = f[x] + Sum(Of(f, S \ {x}))
<1> DEFINE h == Of(f, S)
<1>1. h \in [S -> Nat] /\ \A x \in S : h[x] = f[x]
  BY DEF Of
<1>2. \A x \in S : [y \in S \ {x} |-> h[y]] = Of(f, S \ {x})
  BY DEF Of
<1> HIDE DEF h
<1>3. /\ Sum(h) \in Nat
      /\ S = {} => Sum(h) = 0
      /\ \A x \in S : Sum(h) = h[x] + Sum([y \in S \ {x} |-> h[y]])
  BY <1>1, SumTakes
<1>4. /\ Sum(h) \in Nat
      /\ S = {} => Sum(h) = 0
      /\ \A x \in S : Sum(h) = f[x] + Sum(Of(f, S \ {x}))
  BY <1>1, <1>2, <1>3
<1> QED BY <1>4 DEF h

\* With one more place, one more figure.
LEMMA SumGrows ==
    ASSUME NEW S, IsFiniteSet(S), NEW f, NEW x, x \notin S, \A y \in S \cup {x} : f[y] \in Nat
    PROVE  Sum(Of(f, S \cup {x})) = f[x] + Sum(Of(f, S))
<1>1. IsFiniteSet(S \cup {x})
  BY FS_AddElement
<1>2. (S \cup {x}) \ {x} = S
  OBVIOUS
<1> QED BY <1>1, <1>2, SumOf

\* Figures added place by place.
LEMMA SumPlus ==
    ASSUME NEW S, IsFiniteSet(S), NEW f, NEW g, NEW h,
           \A x \in S : f[x] \in Nat /\ g[x] \in Nat /\ h[x] = f[x] + g[x]
    PROVE  Sum(Of(h, S)) = Sum(Of(f, S)) + Sum(Of(g, S))
<1> DEFINE F == {T \in SUBSET S : Sum(Of(h, T)) = Sum(Of(f, T)) + Sum(Of(g, T))}
<1>0. \A T \in SUBSET S : IsFiniteSet(T)
  BY FS_Subset
<1>1. {} \in F
  <2>1. Sum(Of(h, {})) = 0 /\ Sum(Of(f, {})) = 0 /\ Sum(Of(g, {})) = 0
    BY SumOf, FS_EmptySet
  <2> QED BY <2>1
<1>2. ASSUME NEW T \in SUBSET S, NEW x \in S, T \in F, x \notin T PROVE T \cup {x} \in F
  <2>1. \A y \in T \cup {x} : f[y] \in Nat /\ g[y] \in Nat /\ h[y] \in Nat
    OBVIOUS
  <2>2. Sum(Of(h, T)) = Sum(Of(f, T)) + Sum(Of(g, T))
    BY <1>2
  <2>3. /\ Sum(Of(f, T)) \in Nat /\ Sum(Of(g, T)) \in Nat
    BY <1>0, <2>1, SumOf
  <2>4. Sum(Of(h, T \cup {x})) = h[x] + Sum(Of(h, T))
    BY <1>0, <1>2, <2>1, SumGrows
  <2>5. Sum(Of(f, T \cup {x})) = f[x] + Sum(Of(f, T))
    BY <1>0, <1>2, <2>1, SumGrows
  <2>6. Sum(Of(g, T \cup {x})) = g[x] + Sum(Of(g, T))
    BY <1>0, <1>2, <2>1, SumGrows
  <2>7. h[x] = f[x] + g[x] /\ f[x] \in Nat /\ g[x] \in Nat
    OBVIOUS
  <2>8. Sum(Of(h, T \cup {x})) = Sum(Of(f, T \cup {x})) + Sum(Of(g, T \cup {x}))
    <3> HIDE DEF F
    <3> QED BY <2>2, <2>3, <2>4, <2>5, <2>6, <2>7
  <2> QED BY <2>8
<1>3. S \in F
  <2> HIDE DEF F
  <2> QED BY <1>1, <1>2, Growing
<1> QED BY <1>3

\* A number that is twice itself.
LEMMA Doubled == \A n \in Nat : n = n + n => n = 0
  OBVIOUS

\* Greater figures come to a greater sum, and none to nothing.
LEMMA SumLess ==
    ASSUME NEW S, IsFiniteSet(S), NEW f, NEW g,
           \A x \in S : f[x] \in Nat /\ g[x] \in Nat /\ f[x] <= g[x]
    PROVE  /\ Sum(Of(f, S)) <= Sum(Of(g, S))
           /\ (\A x \in S : f[x] = 0) => Sum(Of(f, S)) = 0
<1>1. Sum(Of(f, S)) <= Sum(Of(g, S))
  <2> DEFINE d == [x \in S |-> g[x] - f[x]]
  <2>1. \A x \in S : f[x] \in Nat /\ d[x] \in Nat /\ g[x] = f[x] + d[x]
    OBVIOUS
  <2> HIDE DEF d
  <2>2. Sum(Of(g, S)) = Sum(Of(f, S)) + Sum(Of(d, S))
    BY <2>1, SumPlus
  <2>3. Sum(Of(f, S)) \in Nat /\ Sum(Of(d, S)) \in Nat
    BY <2>1, SumOf
  <2> QED BY <2>2, <2>3
<1>2. ASSUME \A x \in S : f[x] = 0 PROVE Sum(Of(f, S)) = 0
  <2>1. \A x \in S : f[x] \in Nat /\ f[x] = f[x] + f[x]
    BY <1>2
  <2>2. Sum(Of(f, S)) = Sum(Of(f, S)) + Sum(Of(f, S))
    BY <2>1, SumPlus
  <2>3. Sum(Of(f, S)) \in Nat
    BY <2>1, SumOf
  <2> QED BY <2>2, <2>3, Doubled
<1> QED BY <1>1, <1>2

\* The sum over places of two kinds is the sum over each.
LEMMA SumSplits ==
    ASSUME NEW S, NEW T, IsFiniteSet(S), IsFiniteSet(T), S \cap T = {}, NEW f,
           \A x \in S \cup T : f[x] \in Nat
    PROVE  Sum(Of(f, S \cup T)) = Sum(Of(f, S)) + Sum(Of(f, T))
<1> DEFINE F == {U \in SUBSET T : Sum(Of(f, S \cup U)) = Sum(Of(f, S)) + Sum(Of(f, U))}
<1>0. \A U \in SUBSET T : IsFiniteSet(U) /\ IsFiniteSet(S \cup U)
  BY FS_Subset, FS_Union
<1>1. {} \in F
  <2>1. Sum(Of(f, {})) = 0 /\ Sum(Of(f, S)) \in Nat /\ S \cup {} = S
    BY SumOf, FS_EmptySet
  <2> QED BY <2>1
<1>2. ASSUME NEW U \in SUBSET T, NEW x \in T, U \in F, x \notin U PROVE U \cup {x} \in F
  <2>1. x \notin S \cup U /\ (S \cup U) \cup {x} = S \cup (U \cup {x})
    BY <1>2
  <2>2. \A y \in (S \cup U) \cup {x} : f[y] \in Nat
    OBVIOUS
  <2>3. Sum(Of(f, S \cup (U \cup {x}))) = f[x] + Sum(Of(f, S \cup U))
    BY <1>0, <2>1, <2>2, SumGrows
  <2>4. Sum(Of(f, U \cup {x})) = f[x] + Sum(Of(f, U))
    BY <1>0, <1>2, <2>2, SumGrows
  <2>5. Sum(Of(f, S)) \in Nat /\ Sum(Of(f, U)) \in Nat /\ f[x] \in Nat
    BY <1>0, <2>2, SumOf
  <2>6. Sum(Of(f, S \cup (U \cup {x}))) = Sum(Of(f, S)) + Sum(Of(f, U \cup {x}))
    <3>1. Sum(Of(f, S \cup U)) = Sum(Of(f, S)) + Sum(Of(f, U))
      BY <1>2
    <3> HIDE DEF F
    <3> QED BY <2>3, <2>4, <2>5, <3>1
  <2> QED BY <2>6
<1>3. T \in F
  <2> HIDE DEF F
  <2> QED BY <1>1, <1>2, Growing
<1> QED BY <1>3

\* Where a function has a value, and the values it has.
Where(f, S, y) == {x \in S : f[x] = y}
Values(f, S) == {f[x] : x \in S}

\* Places sorted into parts: the sums over the parts come to the sum over all.
LEMMA SumOfParts ==
    ASSUME NEW R, IsFiniteSet(R), NEW C, IsFiniteSet(C), NEW f, \A c \in C : f[c] \in Nat,
           NEW p, \A c \in C : p[c] \in R,
           NEW h, \A r \in R : h[r] = Sum(Of(f, Where(p, C, r)))
    PROVE  Sum(Of(h, R)) = Sum(Of(f, C))
<1> DEFINE In(U) == {c \in C : p[c] \in U}
           F == {U \in SUBSET R : Sum(Of(h, U)) = Sum(Of(f, In(U)))}
<1>0. \A U \in SUBSET R : IsFiniteSet(U) /\ IsFiniteSet(In(U))
  BY FS_Subset
<1>1. {} \in F
  <2>1. Sum(Of(h, {})) = 0 /\ Sum(Of(f, {})) = 0 /\ In({}) = {}
    BY SumOf, FS_EmptySet
  <2> QED BY <2>1
<1>2. ASSUME NEW U \in SUBSET R, NEW x \in R, U \in F, x \notin U PROVE U \cup {x} \in F
  <2>1. /\ In(U \cup {x}) = In(U) \cup In({x}) /\ In(U) \cap In({x}) = {}
        /\ In({x}) = Where(p, C, x)
    BY <1>2 DEF Where
  <2>2. IsFiniteSet(In(U)) /\ IsFiniteSet(In({x}))
    BY <1>0
  <2>3. \A r \in R : h[r] \in Nat
    <3> TAKE r \in R
    <3>1. IsFiniteSet(Where(p, C, r))
      BY FS_Subset DEF Where
    <3>2. \A c \in Where(p, C, r) : f[c] \in Nat
      BY DEF Where
    <3> QED BY <3>1, <3>2, SumOf
  <2>4. Sum(Of(h, U \cup {x})) = h[x] + Sum(Of(h, U))
    BY <1>0, <1>2, <2>3, SumGrows
  <2>5. Sum(Of(f, In(U) \cup In({x}))) = Sum(Of(f, In(U))) + Sum(Of(f, In({x})))
    BY <2>1, <2>2, SumSplits
  <2>6. h[x] = Sum(Of(f, In({x}))) /\ Sum(Of(h, U)) = Sum(Of(f, In(U)))
    BY <1>2, <2>1
  <2>7. Sum(Of(f, In({x}))) \in Nat /\ Sum(Of(f, In(U))) \in Nat
    BY <2>2, SumOf
  <2>8. Sum(Of(h, U \cup {x})) = Sum(Of(f, In(U \cup {x})))
    <3> HIDE DEF F, In
    <3>1. Sum(Of(f, In(U \cup {x}))) = Sum(Of(f, In(U))) + Sum(Of(f, In({x})))
      BY <2>1, <2>5, Zenon
    <3>2. Sum(Of(h, U \cup {x})) = Sum(Of(f, In({x}))) + Sum(Of(f, In(U)))
      BY <2>4, <2>6, Zenon
    <3>3. \A m, n \in Nat : m + n = n + m
      OBVIOUS
    <3> QED BY <2>7, <3>1, <3>2, <3>3, Zenon
  <2> QED BY <2>8
<1>3. R \in F
  <2> HIDE DEF F
  <2> QED BY <1>1, <1>2, Growing
<1>4. In(R) = C
  OBVIOUS
<1> QED BY <1>3, <1>4

\* Ones come to how many there are.
LEMMA SumOfOnes ==
    ASSUME NEW S, IsFiniteSet(S), NEW f, \A x \in S : f[x] = 1
    PROVE  Sum(Of(f, S)) = Cardinality(S)
<1> DEFINE F == {T \in SUBSET S : Sum(Of(f, T)) = Cardinality(T)}
<1>0. \A T \in SUBSET S : IsFiniteSet(T) /\ Cardinality(T) \in Nat
  BY FS_Subset, FS_CardinalityType
<1>1. {} \in F
  BY SumOf, FS_EmptySet
<1>2. ASSUME NEW T \in SUBSET S, NEW x \in S, T \in F, x \notin T PROVE T \cup {x} \in F
  <2>1. \A y \in T \cup {x} : f[y] \in Nat
    OBVIOUS
  <2>2. Sum(Of(f, T \cup {x})) = f[x] + Sum(Of(f, T))
    BY <1>0, <1>2, <2>1, SumGrows
  <2>3. Cardinality(T \cup {x}) = Cardinality(T) + 1
    BY <1>0, <1>2, FS_AddElement
  <2>4. Sum(Of(f, T \cup {x})) = Cardinality(T \cup {x})
    <3>1. Sum(Of(f, T)) = Cardinality(T) /\ f[x] = 1 /\ Cardinality(T) \in Nat
      BY <1>0, <1>2
    <3> HIDE DEF F
    <3> QED BY <2>2, <2>3, <3>1
  <2> QED BY <2>4
<1>3. S \in F
  <2> HIDE DEF F
  <2> QED BY <1>1, <1>2, Growing
<1> QED BY <1>3
-----------------------------------------------------------------------------
(***************************************************************************)
(* Lists.                                                                  *)
(***************************************************************************)

\* What is made of each member of a finite set is finitely many things.
LEMMA Images ==
    ASSUME NEW S, IsFiniteSet(S), NEW f
    PROVE  IsFiniteSet({f[x] : x \in S})
<1> DEFINE T == {f[x] : x \in S}
           g == [x \in S |-> f[x]]
<1>1. g \in Surjection(S, T)
  BY DEF Surjection
<1> QED BY <1>1, FS_Surjection

\* The members of a list that are in a set, listed: as many as its places that
\* hold one.
Those(list, A) == [n \in DOMAIN list |-> IF list[n] \in A THEN <<list[n]>> ELSE <<>>]
Joins(h, parts, n) ==
    \A i \in 1..n : h[i] = IF i = 1 THEN parts[i] ELSE h[i - 1] \o parts[i]

\* There is such a function.
LEMMA JoinsExist ==
    ASSUME NEW X, NEW m \in Nat, NEW parts \in [1..m -> Seq(X)]
    PROVE  \E h \in [1..m -> Seq(X)] : Joins(h, parts, m)
<1> DEFINE N == {n \in Nat : n <= m => \E h \in [1..n -> Seq(X)] : Joins(h, parts, n)}
<1>1. 0 \in N
  <2> DEFINE h == [i \in 1..0 |-> <<>>]
  <2>1. h \in [1..0 -> Seq(X)] /\ Joins(h, parts, 0)
    BY DEF Joins
  <2> QED BY <2>1
<1>2. ASSUME NEW n \in Nat, n \in N PROVE n + 1 \in N
  <2>1. ASSUME n + 1 <= m
        PROVE  \E h \in [1..(n + 1) -> Seq(X)] : Joins(h, parts, n + 1)
    <3>1. PICK h \in [1..n -> Seq(X)] : Joins(h, parts, n)
      BY <1>2, <2>1
    <3> DEFINE last == IF n = 0 THEN parts[1] ELSE h[n] \o parts[n + 1]
               k == [i \in 1..(n + 1) |-> IF i = n + 1 THEN last ELSE h[i]]
    <3>2. last \in Seq(X)
      <4>1. parts[n + 1] \in Seq(X)
        BY <2>1
      <4>2. n # 0 => h[n] \in Seq(X)
        OBVIOUS
      <4> QED BY <4>1, <4>2
    <3> HIDE DEF last
    <3>3. \A i \in 1..(n + 1) : i # n + 1 => i \in 1..n
      OBVIOUS
    <3>4. k \in [1..(n + 1) -> Seq(X)]
      BY <3>2, <3>3
    <3>5. ASSUME NEW i \in 1..(n + 1)
          PROVE  k[i] = IF i = 1 THEN parts[i] ELSE k[i - 1] \o parts[i]
      <4>1. CASE i = n + 1
        <5>1. i # 1 => i - 1 \in 1..(n + 1) /\ i - 1 # n + 1 /\ i - 1 = n /\ n # 0
          BY <4>1
        <5>2. k[i] = last
          BY <4>1
        <5>3. i # 1 => k[i - 1] = h[n]
          BY <5>1
        <5> HIDE DEF k
        <5> QED BY <4>1, <5>1, <5>2, <5>3 DEF last
      <4>2. CASE i # n + 1
        <5>1. i \in 1..n /\ k[i] = h[i]
          BY <3>3, <4>2
        <5>2. i # 1 => i - 1 \in 1..n /\ i - 1 # n + 1 /\ i - 1 \in 1..(n + 1)
          BY <5>1
        <5>3. i # 1 => k[i - 1] = h[i - 1]
          BY <5>2
        <5> HIDE DEF k
        <5> QED BY <3>1, <5>1, <5>3 DEF Joins
      <4> QED BY <4>1, <4>2
    <3> HIDE DEF k
    <3>6. Joins(k, parts, n + 1)
      BY <3>5 DEF Joins
    <3> QED BY <3>4, <3>6
  <2>2. n + 1 \in Nat
    OBVIOUS
  <2> QED BY <2>1, <2>2
<1>3. Nat \subseteq N
  <2> HIDE DEF N
  <2> QED BY <1>1, <1>2, Counting
<1> QED BY <1>3

\* They are as many as the places that hold one of them.
LEMMA Listed ==
    ASSUME NEW X, NEW list \in Seq(X), NEW A
    PROVE  /\ FlattenSeq(Those(list, A)) \in Seq(X)
           /\ Len(FlattenSeq(Those(list, A))) = Cardinality({n \in DOMAIN list : list[n] \in A})
<1> DEFINE m == Len(list)
           parts == Those(list, A)
           Up(n) == {i \in 1..n : list[i] \in A}
<1>1. m \in Nat /\ DOMAIN list = 1..m
  OBVIOUS
<1>2. parts \in [1..m -> Seq(X)] /\ parts \in Seq(Seq(X)) /\ Len(parts) = m
  BY <1>1 DEF Those
<1>3. \A n \in 1..m : parts[n] = IF list[n] \in A THEN <<list[n]>> ELSE <<>>
  BY <1>1 DEF Those
<1> HIDE DEF m, parts
<1>4. CASE m = 0
  <2>1. FlattenSeq(parts) = parts
    BY <1>2, <1>4 DEF FlattenSeq
  <2>2. parts \in Seq(X) /\ Len(parts) = 0
    BY <1>2, <1>4
  <2>3. {n \in DOMAIN list : list[n] \in A} = {}
    BY <1>1, <1>4
  <2> QED BY <2>1, <2>2, <2>3, FS_EmptySet DEF parts
<1>5. CASE m # 0
  <2> DEFINE flatten == CHOOSE h : h = [i \in 1..m |-> IF i = 1 THEN parts[i] ELSE h[i - 1] \o parts[i]]
  <2>1. FlattenSeq(parts) = flatten[m]
    BY <1>2, <1>5 DEF FlattenSeq
  <2>2. flatten = [i \in 1..m |-> IF i = 1 THEN parts[i] ELSE flatten[i - 1] \o parts[i]]
    <3>1. PICK h \in [1..m -> Seq(X)] : Joins(h, parts, m)
      BY <1>1, <1>2, JoinsExist
    <3>2. h = [i \in 1..m |-> IF i = 1 THEN parts[i] ELSE h[i - 1] \o parts[i]]
      BY <3>1 DEF Joins
    <3> QED BY <3>2
  <2> HIDE DEF flatten
  <2>3. Joins(flatten, parts, m)
    BY <2>2 DEF Joins
  <2> DEFINE N == {n \in Nat : n + 1 <= m =>
                     flatten[n + 1] \in Seq(X) /\ Len(flatten[n + 1]) = Cardinality(Up(n + 1))}
  <2>4. \A n \in 1..m : parts[n] \in Seq(X) /\ Len(parts[n]) = IF list[n] \in A THEN 1 ELSE 0
    BY <1>2, <1>3
  <2>5. Cardinality({}) = 0 /\ IsFiniteSet({})
    BY FS_EmptySet
  <2>6. 0 \in N
    <3>1. 1 \in 1..m
      BY <1>1, <1>5
    <3>2. flatten[1] = parts[1]
      BY <2>3, <3>1 DEF Joins
    <3>3. Up(1) = IF list[1] \in A THEN {1} ELSE {}
      OBVIOUS
    <3>4. Cardinality({1}) = 1
      BY FS_Singleton
    <3>5. Cardinality(Up(1)) = IF list[1] \in A THEN 1 ELSE 0
      BY <2>5, <3>3, <3>4
    <3> HIDE DEF Up
    <3> QED BY <2>4, <3>1, <3>2, <3>5
  <2>7. ASSUME NEW n \in Nat, n \in N PROVE n + 1 \in N
    <3>1. ASSUME n + 2 <= m
          PROVE  flatten[n + 2] \in Seq(X) /\ Len(flatten[n + 2]) = Cardinality(Up(n + 2))
      <4>1. flatten[n + 1] \in Seq(X) /\ Len(flatten[n + 1]) = Cardinality(Up(n + 1))
        BY <1>1, <2>7, <3>1
      <4>2. n + 2 \in 1..m /\ n + 2 # 1 /\ (n + 2) - 1 = n + 1
        BY <1>1, <3>1
      <4>3. flatten[n + 2] = flatten[n + 1] \o parts[n + 2]
        BY <2>3, <4>2 DEF Joins
      <4>4. IsFiniteSet(Up(n + 1)) /\ n + 2 \notin Up(n + 1)
        <5>1. IsFiniteSet(1..(n + 1))
          BY FS_Interval
        <5>2. Up(n + 1) \in SUBSET (1..(n + 1))
          OBVIOUS
        <5> QED BY <5>1, <5>2, FS_Subset
      <4>5. Up(n + 2) = IF list[n + 2] \in A THEN Up(n + 1) \cup {n + 2} ELSE Up(n + 1)
        <5>1. \A i \in 1..(n + 2) : i = n + 2 \/ i \in 1..(n + 1)
          OBVIOUS
        <5>2. \A i \in 1..(n + 1) : i \in 1..(n + 2)
          OBVIOUS
        <5>3. n + 2 \in 1..(n + 2)
          OBVIOUS
        <5> QED BY <5>1, <5>2, <5>3
      <4>6. Cardinality(Up(n + 2)) = IF list[n + 2] \in A THEN Cardinality(Up(n + 1)) + 1
                                     ELSE Cardinality(Up(n + 1))
        <5> HIDE DEF Up
        <5>1. Cardinality(Up(n + 1) \cup {n + 2}) = Cardinality(Up(n + 1)) + 1
          BY <4>4, FS_AddElement
        <5> QED BY <4>5, <5>1
      <4>7. /\ parts[n + 2] \in Seq(X)
            /\ Len(parts[n + 2]) = IF list[n + 2] \in A THEN 1 ELSE 0
        BY <2>4, <4>2
      <4> DEFINE a == flatten[n + 1]
                 b == parts[n + 2]
      <4>8. a \o b \in Seq(X) /\ Len(a \o b) = Len(a) + Len(b)
        <5>1. a \in Seq(X) /\ b \in Seq(X)
          BY <4>1, <4>7
        <5> HIDE DEF a, b
        <5> QED BY <5>1
      <4>9. Len(a) + Len(b) = IF list[n + 2] \in A THEN Len(a) + 1 ELSE Len(a)
        <5>1. Len(a) \in Nat
          BY <4>1
        <5> HIDE DEF a
        <5> QED BY <4>7, <5>1
      <4> HIDE DEF Up, N
      <4> QED BY <4>1, <4>3, <4>6, <4>8, <4>9
    <3>2. n + 1 \in Nat /\ (n + 1) + 1 = n + 2
      OBVIOUS
    <3> HIDE DEF Up
    <3> QED BY <3>1, <3>2
  <2>8. Nat \subseteq N
    <3> HIDE DEF N
    <3> QED BY <2>6, <2>7, Counting
  <2>9. flatten[m] \in Seq(X) /\ Len(flatten[m]) = Cardinality(Up(m))
    <3>1. m - 1 \in Nat /\ (m - 1) + 1 = m /\ m <= m
      BY <1>1, <1>5
    <3>2. m - 1 \in N
      BY <2>8, <3>1
    <3> HIDE DEF Up
    <3> QED BY <3>1, <3>2
  <2> QED BY <1>1, <2>1, <2>9 DEF parts
<1> QED BY <1>4, <1>5
-----------------------------------------------------------------------------
(***************************************************************************)
(* What was in force.                                                      *)
(***************************************************************************)

\* The one value that several have, if they have one.
LEMMA OneValue ==
    ASSUME NEW V, IsFiniteSet(V)
    PROVE  /\ \A x : V = {x} => Agreed(V) = x
           /\ (\A x : V # {x}) => Agreed(V) = None
           /\ Agreed(V) # None => V = {Agreed(V)}
           /\ Agreed(V) \in V \cup {None}
<1>1. Cardinality(V) = 1 <=> \E x : V = {x}
  BY FS_Singleton
<1>2. ASSUME NEW x, V = {x} PROVE Agreed(V) = x
  BY <1>1, <1>2 DEF Agreed
<1>3. (\A x : V # {x}) => Agreed(V) = None
  BY <1>1 DEF Agreed
<1> QED BY <1>2, <1>3

\* Several agree on a value if and only if the groups they are sorted into each
\* agree on it.
LEMMA OneValueByGroups ==
    ASSUME NEW C, IsFiniteSet(C), C # {}, NEW v, NEW p, NEW agreed,
           \A s \in Values(p, C) : agreed[s] = Agreed(Values(v, Where(p, C, s)))
    PROVE  Agreed(Values(v, C)) = Agreed(Values(agreed, Values(p, C)))
<1> DEFINE V == Values(v, C)
           S == Values(p, C)
           W == Values(agreed, S)
           In(s) == Values(v, Where(p, C, s))
<1>1. IsFiniteSet(V) /\ IsFiniteSet(S)
  BY Images DEF Values
<1>2. ASSUME NEW s \in S PROVE IsFiniteSet(In(s))
  <2>1. IsFiniteSet(Where(p, C, s))
    BY FS_Subset DEF Where
  <2> QED BY <2>1, Images DEF Values
<1>3. IsFiniteSet(W)
  BY <1>1, Images DEF Values
<1>4. \A s \in S : In(s) # {} /\ In(s) \subseteq V
  BY DEF Values, Where
<1>5. \A x \in V : \E s \in S : x \in In(s)
  BY DEF Values, Where
<1>6. S # {} /\ \A y : y \in W <=> \E s \in S : y = agreed[s]
  BY DEF Values
<1>7. \A s \in S : agreed[s] = Agreed(In(s))
  OBVIOUS
<1> HIDE DEF V, S, W, In
<1>8. ASSUME NEW x, V = {x} PROVE Agreed(V) = Agreed(W)
  <2>1. \A s \in S : In(s) = {x}
    BY <1>4, <1>8
  <2>2. \A s \in S : agreed[s] = x
    BY <1>2, <1>7, <2>1, OneValue
  <2>3. W = {x}
    BY <1>6, <2>2
  <2> QED BY <1>1, <1>3, <1>8, <2>3, OneValue
<1>9. ASSUME \A x : V # {x} PROVE Agreed(V) = Agreed(W)
  <2>1. Agreed(V) = None
    BY <1>1, <1>9, OneValue
  <2>2. ASSUME NEW x, W = {x}, x # None PROVE FALSE
    <3>1. \A s \in S : agreed[s] = x
      BY <1>6, <2>2
    <3>2. \A s \in S : In(s) = {x}
      BY <1>2, <1>7, <2>2, <3>1, OneValue
    <3>3. V = {x}
      BY <1>4, <1>5, <1>6, <3>2
    <3> QED BY <1>9, <3>3
  <2>3. Agreed(W) = None
    BY <1>3, <2>2, OneValue
  <2> QED BY <2>1, <2>3
<1> QED BY <1>8, <1>9 DEF V, W, S

\* The calls of a run that is over are those that were answered.
LEMMA TheAnswered ==
    ASSUME PInv, NEW r \in Over
    PROVE  /\ Observed(r) = {c \in Calls : RunOf[c] = r /\ pc[c] = "answered"}
           /\ r \in Runs /\ Observed(r) \in SUBSET Calls /\ IsFiniteSet(Observed(r))
           /\ \A c \in Observed(r) : RunOf[c] = r /\ record[c] \in Answers /\ key[c] \in Keys
<1>1. \A c \in Calls : Noted(c)
  BY DEF PInv
<1>2. \A c \in Calls : RunOf[c] = r => (observed[c] # None <=> pc[c] = "answered")
  BY <1>1 DEF Over, Noted
<1>3. Observed(r) \in SUBSET Calls
  BY DEF Observed
<1>4. IsFiniteSet(Observed(r))
  BY <1>3, ProvenanceAssumption, FS_Subset
<1>5. \A c \in Observed(r) : RunOf[c] = r /\ record[c] \in Answers
  BY <1>1 DEF Observed, Noted
<1>6. \A c \in Calls : key[c] \in Keys
  BY DEF PInv, IInv, TypeOK
<1>7. r \in Runs
  BY DEF Over
<1>8. Observed(r) = {c \in Calls : RunOf[c] = r /\ pc[c] = "answered"}
  BY <1>2 DEF Observed
<1> QED BY <1>3, <1>4, <1>5, <1>6, <1>7, <1>8

\* The calls of a stage that asks are some, and each is of a stage listed.
LEMMA OfListedStages ==
    ASSUME PInv, NEW r \in Over
    PROVE  /\ Completions(r) \in SUBSET Observed(r)
           /\ IsFiniteSet(Completions(r))
           /\ StagesOf(Completions(r)) \in SUBSET ToSet(Stages)
           /\ StagesOf(Observed(r)) \in SUBSET ToSet(Stages)
<1>1. Completions(r) \in SUBSET Observed(r)
  BY DEF Completions
<1>2. IsFiniteSet(Completions(r))
  BY <1>1, TheAnswered, FS_Subset
<1>3. \A c \in Observed(r) : Request[key[c]].stage \in ToSet(Stages)
  BY TheAnswered, ProvenanceAssumption
<1> QED BY <1>1, <1>2, <1>3 DEF StagesOf

\* What a call says was in force.
Said(c, name) == IF Controls(c) = None THEN None ELSE Controls(c)[name]
Names == {"temperature", "seed", "reasoning_effort"}

\* A control in force was asked for.
LEMMA Controlled ==
    ASSUME NEW c, Controls(c) # None
    PROVE  /\ Controls(c) = EffectiveControls(c)
           /\ Controls(c).temperature \in {Temperature, None}
           /\ Controls(c).seed \in {Seed, None}
           /\ Controls(c).reasoning_effort \in {Request[key[c]].effort, None}
<1>1. Controls(c) = EffectiveControls(c)
  BY DEF Controls
<1>2. /\ DOMAIN Requested(c) = Names
      /\ Requested(c)["temperature"] = Temperature /\ Requested(c)["seed"] = Seed
      /\ Requested(c)["reasoning_effort"] = Request[key[c]].effort
  BY DEF Requested, Names
<1>3. \A name \in Names :
        EffectiveControls(c)[name] = IF name \in Honours[ModelOf(c)]
                                     THEN Requested(c)[name] ELSE None
  BY <1>2 DEF EffectiveControls
<1>4. EffectiveControls(c)["temperature"] \in {Temperature, None}
  BY <1>2, <1>3 DEF Names
<1>5. EffectiveControls(c)["seed"] \in {Seed, None}
  BY <1>2, <1>3 DEF Names
<1>6. EffectiveControls(c)["reasoning_effort"] \in {Request[key[c]].effort, None}
  BY <1>2, <1>3 DEF Names
<1> QED BY <1>1, <1>4, <1>5, <1>6

\* The value in force is what some call said, or none.
LEMMA InForceIs ==
    ASSUME NEW C, IsFiniteSet(C), NEW name
    PROVE  /\ InForce(C, name) # None => \A c \in C : Said(c, name) = InForce(C, name)
           /\ InForce(C, name) = None \/ \E c \in C : InForce(C, name) = Said(c, name)
<1> DEFINE said == [c \in C |-> Said(c, name)]
           V == {said[c] : c \in C}
<1>1. IsFiniteSet(V)
  <2> HIDE DEF said
  <2> QED BY Images
<1>2. V = {Said(c, name) : c \in C}
  OBVIOUS
<1>3. InForce(C, name) = Agreed(V)
  BY <1>2 DEF InForce, Said
<1> HIDE DEF V
<1>4. /\ Agreed(V) # None => V = {Agreed(V)}
      /\ Agreed(V) \in V \cup {None}
  BY <1>1, OneValue
<1> QED BY <1>1, <1>2, <1>3, <1>4

\* A value given for some of the stages.
LEMMA SomeStages ==
    ASSUME NEW values, NEW D \in SUBSET ToSet(Stages), NEW f \in [D -> values]
    PROVE  f \in OfSome(values)
  BY DEF OfSome

\* The one value of several is one of them.
LEMMA AgreedIn == ASSUME NEW V, V # {}, Cardinality(V) = 1 PROVE Agreed(V) \in V
  BY DEF Agreed

\* What is in force for some calls was asked for.
LEMMA InForceTyped ==
    ASSUME PInv, NEW r \in Over, NEW C \in SUBSET Completions(r)
    PROVE  /\ IsFiniteSet(C)
           /\ InForce(C, "temperature") \in {Temperature, None}
           /\ InForce(C, "seed") \in {Seed, None}
           /\ InForce(C, "reasoning_effort") \in {Request[k].effort : k \in Keys} \union {None}
<1>1. IsFiniteSet(C)
  BY OfListedStages, FS_Subset
<1>2. \A c \in C : key[c] \in Keys
  BY OfListedStages, TheAnswered
<1>3. \A c \in C : /\ Said(c, "temperature") \in {Temperature, None}
                   /\ Said(c, "seed") \in {Seed, None}
                   /\ Said(c, "reasoning_effort") \in {Request[k].effort : k \in Keys} \union {None}
  BY <1>2, Controlled DEF Said
<1>4. InForce(C, "temperature") \in {Temperature, None}
  BY <1>1, <1>3, InForceIs
<1>5. InForce(C, "seed") \in {Seed, None}
  BY <1>1, <1>3, InForceIs
<1>6. InForce(C, "reasoning_effort") \in {Request[k].effort : k \in Keys} \union {None}
  <2> DEFINE efforts == {Request[k].effort : k \in Keys} \union {None}
  <2>1. \A c \in C : Said(c, "reasoning_effort") \in efforts
    BY <1>3
  <2>2. None \in efforts
    OBVIOUS
  <2> HIDE DEF efforts
  <2>3. InForce(C, "reasoning_effort") \in efforts
    BY <1>1, <2>1, <2>2, InForceIs
  <2> QED BY <2>3 DEF efforts
<1> QED BY <1>1, <1>4, <1>5, <1>6

\* The sizes of the partitions are those the calls were made with.
LEMMA PartitionsTyped ==
    ASSUME PInv, NEW r \in Over
    PROVE  PartitionSizesInForce(r) \in OfSome({Request[k].partition : k \in Keys} \ {None})
<1> DEFINE parted == {c \in Completions(r) : Request[key[c]].partition # None}
           sizes(stage) == {Request[key[c]].partition : c \in OfStage(parted, stage)}
           D == {s \in StagesOf(parted) : Cardinality(sizes(s)) = 1}
           given == {Request[k].partition : k \in Keys} \ {None}
           f == [stage \in D |-> Agreed(sizes(stage))]
<1>1. \A c \in parted : key[c] \in Keys
  BY OfListedStages, TheAnswered
<1>2. D \in SUBSET ToSet(Stages)
  <2>1. \A c \in parted : Request[key[c]].stage \in ToSet(Stages)
    BY <1>1, ProvenanceAssumption
  <2> QED BY <2>1 DEF StagesOf
<1>3. ASSUME NEW s \in D PROVE Agreed(sizes(s)) \in given
  <2>1. sizes(s) # {}
    BY DEF StagesOf, OfStage
  <2>2. sizes(s) \subseteq given
    BY <1>1 DEF OfStage
  <2>3. Cardinality(sizes(s)) = 1
    OBVIOUS
  <2> HIDE DEF sizes, given
  <2> QED BY <2>1, <2>2, <2>3, AgreedIn
<1>4. f \in [D -> given]
  BY <1>3
<1>5. PartitionSizesInForce(r) = f
  BY DEF PartitionSizesInForce
<1> HIDE DEF D, f, given
<1>6. f \in OfSome(given)
  BY <1>2, <1>4, SomeStages
<1> QED BY <1>5, <1>6 DEF given

\* A stage's model is its own, the run's or the embedding model.
LEMMA ModelsTyped ==
    ASSUME PInv, NEW r \in Over
    PROVE  StageModelsInForce(r) \in OfSome({ModelFor(s) : s \in ToSet(Stages)} \union {EmbeddingModel})
<1> DEFINE models(stage) == {ModelOf(c) : c \in OfStage(Observed(r), stage)}
           D == {s \in StagesOf(Observed(r)) : Cardinality(models(s)) = 1}
           given == {ModelFor(s) : s \in ToSet(Stages)} \union {EmbeddingModel}
           f == [stage \in D |-> Agreed(models(stage))]
<1>1. \A c \in Observed(r) : Request[key[c]].stage \in ToSet(Stages)
  BY TheAnswered, ProvenanceAssumption
<1>2. D \in SUBSET ToSet(Stages)
  BY <1>1 DEF StagesOf
<1>3. ASSUME NEW s \in D PROVE Agreed(models(s)) \in given
  <2>1. models(s) # {}
    BY DEF StagesOf, OfStage
  <2>2. \A c \in Observed(r) : ModelOf(c) \in given
    BY <1>1 DEF ModelOf
  <2>3. models(s) \subseteq given
    <3> HIDE DEF given
    <3> QED BY <2>2 DEF OfStage
  <2>4. Cardinality(models(s)) = 1
    OBVIOUS
  <2> HIDE DEF models, given
  <2> QED BY <2>1, <2>3, <2>4, AgreedIn
<1>4. f \in [D -> given]
  BY <1>3
<1>5. StageModelsInForce(r) = f
  BY DEF StageModelsInForce
<1> HIDE DEF D, f, given
<1>6. f \in OfSome(given)
  BY <1>2, <1>4, SomeStages
<1> QED BY <1>5, <1>6 DEF given

\* The controls of a stage were asked for.
LEMMA StageControlsTyped ==
    ASSUME PInv, NEW r \in Over
    PROVE  StageControlsInForce(r) \in OfSome(StageControls)
<1> DEFINE D == StagesOf(Completions(r))
           inForce(stage) == [name \in {"temperature", "seed", "reasoning_effort"} |->
                                 InForce(OfStage(Completions(r), stage), name)]
           f == [stage \in D |-> inForce(stage)]
<1>1. D \in SUBSET ToSet(Stages)
  BY OfListedStages
<1>2. ASSUME NEW s \in D PROVE inForce(s) \in StageControls
  <2>1. OfStage(Completions(r), s) \in SUBSET Completions(r)
    BY DEF OfStage
  <2> DEFINE C == OfStage(Completions(r), s)
  <2> HIDE DEF C
  <2>2. /\ InForce(C, "temperature") \in {Temperature, None}
        /\ InForce(C, "seed") \in {Seed, None}
        /\ InForce(C, "reasoning_effort") \in {Request[k].effort : k \in Keys} \union {None}
    BY <2>1, InForceTyped DEF C
  <2>3. inForce(s) = [temperature |-> InForce(C, "temperature"), seed |-> InForce(C, "seed"),
                      reasoning_effort |-> InForce(C, "reasoning_effort")]
    BY DEF C
  <2> HIDE DEF inForce
  <2> QED BY <2>2, <2>3 DEF StageControls
<1>3. f \in [D -> StageControls]
  <2> HIDE DEF inForce
  <2> QED BY <1>2
<1>4. StageControlsInForce(r) = f
  BY DEF StageControlsInForce
<1> HIDE DEF D, f
<1> QED BY <1>1, <1>3, <1>4, SomeStages

\* So were those of the run.
LEMMA ControlsTyped ==
    ASSUME PInv, NEW r \in Over
    PROVE  ControlsInForce(r) \in DeterminismControls \union {None}
<1> DEFINE t == InForce(Completions(r), "temperature")
           s == InForce(Completions(r), "seed")
<1>1. t \in {Temperature, None} /\ s \in {Seed, None}
  BY InForceTyped
<1>2. [name \in {"temperature", "seed"} |-> InForce(Completions(r), name)]
        = [temperature |-> t, seed |-> s]
  OBVIOUS
<1> HIDE DEF t, s
<1>3. [temperature |-> t, seed |-> s] \in DeterminismControls
  BY <1>1 DEF DeterminismControls
<1> QED BY <1>2, <1>3 DEF ControlsInForce

\* Nothing is said to be in force that was not asked for.
LEMMA NothingMadeUp ==
    ASSUME PInv, NEW r \in Over
    PROVE  ProvenanceFor(r) \in ReviewProvenance
<1>1. mode[r] \in {"record", "replay"}
  BY TheAnswered DEF PInv, IInv, TypeOK
<1>2. [temperature |-> Temperature, seed |-> Seed] \in DeterminismControls
  BY DEF DeterminismControls
<1> QED BY <1>1, <1>2, ControlsTyped, PartitionsTyped, ModelsTyped, StageControlsTyped
       DEF ProvenanceFor, ReviewProvenance

\* A run is called pinned only if each completion is known to have run as asked.
LEMMA PinnedIsKnown ==
    ASSUME PInv, NEW r \in Over, Determinism(ProvenanceFor(r)) = "pinned", NEW c \in Completions(r)
    PROVE  /\ Controls(c) # None /\ Controls(c).temperature = Temperature
           /\ Seed # None => Controls(c).seed = Seed
<1> DEFINE p == ProvenanceFor(r)
           q == [temperature |-> Temperature, seed |-> Seed]
<1>1. p.controls_requested = q /\ p.controls_in_force = ControlsInForce(r)
  BY DEF ProvenanceFor
<1> HIDE DEF p
<1>2. /\ ControlsInForce(r) # None
      /\ \A name \in DOMAIN q : q[name] \in {None, ControlsInForce(r)[name]}
  BY <1>1 DEF Determinism, p
<1>3. ControlsInForce(r) = [name \in {"temperature", "seed"} |-> InForce(Completions(r), name)]
  BY <1>2 DEF ControlsInForce
<1>4. /\ Temperature = InForce(Completions(r), "temperature")
      /\ Seed # None => Seed = InForce(Completions(r), "seed")
  BY <1>2, <1>3, ProvenanceAssumption DEF RunConfig
<1>5. Temperature # None
  BY ProvenanceAssumption DEF RunConfig
<1>6. Said(c, "temperature") = Temperature /\ (Seed # None => Said(c, "seed") = Seed)
  BY <1>4, <1>5, OfListedStages, InForceIs
<1> QED BY <1>5, <1>6 DEF Said

\* The controls of a run are those all its stages agree on.
LEMMA AllStagesAgree ==
    ASSUME PInv, NEW r \in Over, ControlsInForce(r) # None, NEW name \in {"temperature", "seed"}
    PROVE  ControlsInForce(r)[name] =
               Agreed({StageControlsInForce(r)[s][name] : s \in DOMAIN StageControlsInForce(r)})
<1> DEFINE C == Completions(r)
           v == [c \in C |-> Said(c, name)]
           p == [c \in C |-> Request[key[c]].stage]
           D == Values(p, C)
           agreed == [s \in D |-> StageControlsInForce(r)[s][name]]
<1>1. C # {} /\ IsFiniteSet(C)
  BY OfListedStages DEF ControlsInForce
<1>2. ControlsInForce(r)[name] = InForce(C, name)
  BY DEF ControlsInForce
<1>3. DOMAIN StageControlsInForce(r) = D
  BY DEF StageControlsInForce, StagesOf, Values
<1>4. ASSUME NEW S \in SUBSET C PROVE InForce(S, name) = Agreed(Values(v, S))
  <2>1. \A c \in S : v[c] = IF Controls(c) = None THEN None ELSE Controls(c)[name]
    BY DEF Said
  <2> HIDE DEF v
  <2>2. Values(v, S) = {IF Controls(c) = None THEN None ELSE Controls(c)[name] : c \in S}
    BY <2>1 DEF Values
  <2> QED BY <2>2 DEF InForce
<1>5. ASSUME NEW s \in D PROVE agreed[s] = Agreed(Values(v, Where(p, C, s)))
  <2>1. OfStage(C, s) = Where(p, C, s) /\ Where(p, C, s) \in SUBSET C
    BY DEF OfStage, Where
  <2>2. StageControlsInForce(r)[s][name] = InForce(OfStage(C, s), name)
    BY <1>3 DEF StageControlsInForce
  <2> QED BY <1>4, <2>1, <2>2
<1>6. {StageControlsInForce(r)[s][name] : s \in DOMAIN StageControlsInForce(r)} = Values(agreed, D)
  BY <1>3 DEF Values
<1>7. Agreed(Values(v, C)) = Agreed(Values(agreed, D))
  <2> HIDE DEF v, p, C, agreed
  <2> QED BY <1>1, <1>5, OneValueByGroups
<1>8. InForce(C, name) = Agreed(Values(v, C))
  BY <1>4
<1> QED BY <1>2, <1>6, <1>7, <1>8

\* One request is said to have run under the same controls by whoever made it.
LEMMA SameRequestSameControls ==
    ASSUME PInv, NEW r \in Over, NEW c \in Completions(r), NEW d \in Calls,
           observed[d] # None, pc[d] # "dead", key[d] = key[c]
    PROVE  Controls(d) = Controls(c)
<1>1. c \in Calls /\ record[c] \in Answers
  BY TheAnswered, OfListedStages
<1>2. Noted(c) /\ Noted(d)
  BY <1>1 DEF PInv
<1>3. record[d] \in Answers
  BY <1>2 DEF Noted
<1>4. record[c] \in Older <=> record[d] \in Older
  BY <1>1, <1>2, <1>3 DEF Noted
<1>5. EffectiveControls(c) = EffectiveControls(d)
  BY DEF EffectiveControls, Requested, ModelOf
<1> QED BY <1>4, <1>5 DEF Controls

\* A call that was stopped for want of a key is of a model the run was warned about.
LEMMA UnkeyedIsWarned ==
    ASSUME PInv, NEW r \in Over, NEW c \in Calls, RunOf[c] = r, pc[c] = "unkeyed"
    PROVE  ModelOf(c) \in MissingKeysByModel(r)
<1>1. mode[r] = "record" /\ Provider[ModelOf(c)] \in keyless[r]
  BY DEF PInv, Noted
<1>2. ModelOf(c) \in Models
  BY DEF ModelOf, ModelFor, Models
<1> QED BY <1>1, <1>2 DEF MissingKeysByModel

\* A call of which the controls are known ran with the effort it asked for.
LEMMA EffortIsNotDropped ==
    ASSUME PInv, NEW r \in Over, NEW c \in Completions(r), Controls(c) # None
    PROVE  Controls(c).reasoning_effort = Request[key[c]].effort
<1>1. c \in Calls /\ record[c] \in Answers \ Older
  BY TheAnswered, OfListedStages DEF Controls
<1>2. ~EffortDropped(c)
  BY <1>1 DEF PInv, Noted
<1>3. Controls(c) = EffectiveControls(c)
  BY DEF Controls
<1> QED BY <1>2, <1>3 DEF EffectiveControls, Requested, EffortDropped
-----------------------------------------------------------------------------
(***************************************************************************)
(* What it cost.                                                           *)
(***************************************************************************)

\* What each call cost, or nothing where its recording does not say.
Cost == [c \in Calls |-> IF Number(c, "cost") # None THEN Number(c, "cost") ELSE 0]

\* A cost is a number.
LEMMA CostTyped ==
    ASSUME PInv, NEW r \in Over, NEW c \in Observed(r)
    PROVE  Cost[c] \in Nat /\ (Number(c, "cost") # None => Cost[c] = Number(c, "cost"))
<1>1. c \in Calls /\ record[c] \in Answers
  BY TheAnswered
<1>2. Number(c, "cost") # None => Number(c, "cost") \in Nat
  BY <1>1, ProvenanceAssumption DEF Number
<1> QED BY <1>1, <1>2 DEF Cost

\* A total is the sum of what each call cost.
LEMMA TotalIs ==
    ASSUME PInv, NEW r \in Over, NEW S \in SUBSET Observed(r)
    PROVE  Total(S, "cost") = Sum(Of(Cost, S)) /\ Total(S, "cost") \in Nat /\ IsFiniteSet(S)
<1> DEFINE W == Reporting(S, "cost")
<1>1. IsFiniteSet(S)
  BY TheAnswered, FS_Subset
<1>2. W \in SUBSET S /\ \A c \in S : c \in W <=> Number(c, "cost") # None
  BY DEF Reporting
<1>3. \A c \in S : Cost[c] \in Nat
  BY CostTyped
<1>4. Total(S, "cost") = Sum(Of(Cost, W))
  <2>1. [c \in W |-> Number(c, "cost")] = Of(Cost, W)
    <3>1. \A c \in W : Number(c, "cost") = Cost[c]
      BY <1>2, CostTyped
    <3> HIDE DEF W
    <3> QED BY <3>1 DEF Of
  <2> QED BY <2>1 DEF Total
<1> HIDE DEF W
<1>5. IsFiniteSet(W) /\ IsFiniteSet(S \ W)
  BY <1>1, <1>2, FS_Subset
<1>6. \A c \in S \ W : c \in Observed(r) /\ Cost[c] = 0
  BY <1>2, TheAnswered DEF Cost
<1>7. Sum(Of(Cost, S \ W)) = 0
  <2>1. \A c \in S \ W : Cost[c] \in Nat /\ Cost[c] <= Cost[c]
    BY <1>3
  <2> QED BY <1>5, <1>6, <2>1, SumLess
<1>8. W \cup (S \ W) = S /\ W \cap (S \ W) = {}
  BY <1>2
<1>9. Sum(Of(Cost, W \cup (S \ W))) = Sum(Of(Cost, W)) + Sum(Of(Cost, S \ W))
  <2>1. \A c \in W \cup (S \ W) : Cost[c] \in Nat
    BY <1>3, <1>8
  <2> QED BY <1>5, <1>8, <2>1, SumSplits
<1>10. Sum(Of(Cost, W)) \in Nat
  BY <1>2, <1>3, <1>5, SumOf
<1>11. Sum(Of(Cost, S)) = Sum(Of(Cost, W)) + 0
  BY <1>7, <1>8, <1>9, Zenon
<1> QED BY <1>1, <1>4, <1>10, <1>11

\* The total of some calls is that of a part of them and that of the others.
LEMMA TotalsAdd ==
    ASSUME PInv, NEW r \in Over, NEW S \in SUBSET Observed(r), NEW T \in SUBSET S
    PROVE  /\ Total(S, "cost") = Total(T, "cost") + Total(S \ T, "cost")
           /\ Total(S, "cost") \in Nat /\ Total(T, "cost") \in Nat /\ Total(S \ T, "cost") \in Nat
           /\ Total(T, "cost") <= Total(S, "cost")
<1>1. T \in SUBSET Observed(r) /\ S \ T \in SUBSET Observed(r)
  OBVIOUS
<1>2. /\ Total(S, "cost") = Sum(Of(Cost, S)) /\ Total(T, "cost") = Sum(Of(Cost, T))
      /\ Total(S \ T, "cost") = Sum(Of(Cost, S \ T))
      /\ Total(S, "cost") \in Nat /\ Total(T, "cost") \in Nat /\ Total(S \ T, "cost") \in Nat
      /\ IsFiniteSet(T) /\ IsFiniteSet(S \ T)
  BY <1>1, TotalIs
<1>3. T \cup (S \ T) = S /\ T \cap (S \ T) = {} /\ \A c \in S : Cost[c] \in Nat
  BY CostTyped
<1>4. Sum(Of(Cost, T \cup (S \ T))) = Sum(Of(Cost, T)) + Sum(Of(Cost, S \ T))
  BY <1>2, <1>3, SumSplits
<1>5. Sum(Of(Cost, S)) = Sum(Of(Cost, T)) + Sum(Of(Cost, S \ T))
  BY <1>3, <1>4, Zenon
<1>6. Total(S, "cost") = Total(T, "cost") + Total(S \ T, "cost")
  BY <1>2, <1>5, Zenon
<1> QED BY <1>2, <1>6

\* The calls of one stage.
LEMMA OfOneStage ==
    ASSUME PInv, NEW r \in Over, NEW s
    PROVE  /\ OfStage(Observed(r), s) \in SUBSET Observed(r)
           /\ IsFiniteSet(OfStage(Observed(r), s))
           /\ IsFiniteSet(StagesOf(Observed(r)))
<1> DEFINE stage == [c \in Observed(r) |-> Request[key[c]].stage]
<1>1. IsFiniteSet(Observed(r))
  BY TheAnswered
<1>2. OfStage(Observed(r), s) \in SUBSET Observed(r)
  BY DEF OfStage
<1>3. IsFiniteSet({stage[c] : c \in Observed(r)})
  <2> HIDE DEF stage
  <2> QED BY <1>1, Images
<1>4. StagesOf(Observed(r)) = {stage[c] : c \in Observed(r)}
  BY DEF StagesOf
<1> QED BY <1>1, <1>2, <1>3, <1>4, FS_Subset

\* A row of the table.
LEMMA RowIs ==
    ASSUME PInv, NEW r \in Over, NEW s \in StagesOf(Observed(r)),
           NEW row, row = Summarize(Observed(r))[s]
    PROVE  LET S == OfStage(Observed(r), s)
           IN  /\ row.all.run_spend = Total(Live(S), "cost")
               /\ row.all.evidence_cost = Total(S, "cost")
               /\ row.anthropic.run_spend = Total(Live(Anthropic(S)), "cost")
               /\ row.anthropic.evidence_cost = Total(Anthropic(S), "cost")
               /\ row.other.run_spend = Total(Live(S \ Anthropic(S)), "cost")
               /\ row.other.evidence_cost = Total(S \ Anthropic(S), "cost")
               /\ row.provider_calls = Cardinality(Live(S))
               /\ row.replayed_calls = Cardinality(S \ Live(S))
<1> DEFINE S == OfStage(Observed(r), s)
<1>1. row = StageUsage(S)
  BY DEF Summarize
<1>2. /\ row.all = Money(S) /\ row.anthropic = Money(Anthropic(S))
      /\ row.other = Money(S \ Anthropic(S))
      /\ row.provider_calls = Cardinality(Live(S)) /\ row.replayed_calls = Cardinality(S \ Live(S))
  BY <1>1 DEF StageUsage
<1>3. \A T : Money(T).run_spend = Total(Live(T), "cost") /\ Money(T).evidence_cost = Total(T, "cost")
  BY DEF Money
<1> QED BY <1>2, <1>3

\* It adds up.
LEMMA RowAddsUp ==
    ASSUME PInv, NEW r \in Over, NEW s \in StagesOf(Observed(r)),
           NEW row, row = Summarize(Observed(r))[s]
    PROVE  /\ row.all.run_spend \in Nat /\ row.all.evidence_cost \in Nat
           /\ row.anthropic.run_spend \in Nat /\ row.anthropic.evidence_cost \in Nat
           /\ row.other.run_spend \in Nat /\ row.other.evidence_cost \in Nat
           /\ row.provider_calls \in Nat /\ row.replayed_calls \in Nat
           /\ row.all.run_spend <= row.all.evidence_cost
           /\ mode[r] = "replay" => row.all.run_spend = 0
           /\ row.all.run_spend = row.anthropic.run_spend + row.other.run_spend
           /\ row.all.evidence_cost = row.anthropic.evidence_cost + row.other.evidence_cost
           /\ row.provider_calls + row.replayed_calls = Cardinality(OfStage(Observed(r), s))
<1> DEFINE S == OfStage(Observed(r), s)
           A == Anthropic(S)
<1>1. S \in SUBSET Observed(r) /\ IsFiniteSet(S)
  BY OfOneStage
<1>2. A \in SUBSET S /\ Live(S) \in SUBSET S
  BY DEF Anthropic, Live
<1>3. Live(A) = A \cap Live(S) /\ Live(S \ A) = Live(S) \ Live(A)
  BY DEF Anthropic, Live
<1>4. /\ row.all.run_spend = Total(Live(S), "cost")
      /\ row.all.evidence_cost = Total(S, "cost")
      /\ row.anthropic.run_spend = Total(Live(A), "cost")
      /\ row.anthropic.evidence_cost = Total(A, "cost")
      /\ row.other.run_spend = Total(Live(S \ A), "cost")
      /\ row.other.evidence_cost = Total(S \ A, "cost")
      /\ row.provider_calls = Cardinality(Live(S))
      /\ row.replayed_calls = Cardinality(S \ Live(S))
  BY RowIs
<1>5. mode[r] = "replay" => Live(S) = {}
  <2>1. \A c \in S : c \in Calls /\ RunOf[c] = r
    BY <1>1, TheAnswered
  <2>2. \A c \in S : observed[c] = "provider" => mode[r] = "record"
    BY <2>1 DEF PInv, Noted
  <2> QED BY <2>2 DEF Live
<1> HIDE DEF S, A
<1>6. /\ Total(S, "cost") = Total(A, "cost") + Total(S \ A, "cost")
      /\ Total(S, "cost") \in Nat /\ Total(A, "cost") \in Nat /\ Total(S \ A, "cost") \in Nat
  BY <1>1, <1>2, TotalsAdd
<1>7. /\ Total(Live(S), "cost") <= Total(S, "cost") /\ Total(Live(S), "cost") \in Nat
  BY <1>1, <1>2, TotalsAdd
<1>8. /\ Total(Live(S), "cost") = Total(Live(A), "cost") + Total(Live(S) \ Live(A), "cost")
      /\ Total(Live(A), "cost") \in Nat /\ Total(Live(S) \ Live(A), "cost") \in Nat
  <2>1. Live(S) \in SUBSET Observed(r) /\ Live(A) \in SUBSET Live(S)
    BY <1>1, <1>2, <1>3
  <2> QED BY <2>1, TotalsAdd
<1>9. Total({}, "cost") = 0
  <2>1. Total({}, "cost") = Sum(Of(Cost, {}))
    BY TotalIs
  <2> QED BY <2>1, SumOf, FS_EmptySet
<1>10. /\ Cardinality(Live(S)) \in Nat /\ Cardinality(S \ Live(S)) \in Nat
       /\ Cardinality(Live(S)) + Cardinality(S \ Live(S)) = Cardinality(S)
  <2>1. IsFiniteSet(Live(S)) /\ IsFiniteSet(S \ Live(S))
    BY <1>1, <1>2, FS_Subset
  <2>2. Cardinality(S \ Live(S)) = Cardinality(S) - Cardinality(S \cap Live(S))
    BY <1>1, FS_Difference
  <2>3. S \cap Live(S) = Live(S)
    BY <1>2
  <2>4. Cardinality(Live(S)) \in Nat /\ Cardinality(S \ Live(S)) \in Nat /\ Cardinality(S) \in Nat
    BY <1>1, <2>1, FS_CardinalityType
  <2>5. \A l, m, n \in Nat : m = n - l => l + m = n
    OBVIOUS
  <2> QED BY <2>2, <2>3, <2>4, <2>5, Zenon
<1>11. mode[r] = "replay" => Total(Live(S), "cost") = 0
  BY <1>5, <1>9
<1>12. row.other.run_spend = Total(Live(S) \ Live(A), "cost")
  BY <1>3, <1>4
<1> QED BY <1>4, <1>6, <1>7, <1>8, <1>10, <1>11, <1>12 DEF S

\* The sums under the table.
LEMMA FooterIs ==
    ASSUME NEW rows, NEW footer, footer = Render(rows)
    PROVE  /\ footer.spent = Sum([s \in DOMAIN rows |-> rows[s].all.run_spend])
           /\ footer.cost = Sum([s \in DOMAIN rows |-> rows[s].all.evidence_cost])
           /\ footer.live = Sum([s \in DOMAIN rows |-> rows[s].provider_calls])
           /\ footer.replayed = Sum([s \in DOMAIN rows |-> rows[s].replayed_calls])
           /\ footer.credits[1] = Sum([s \in DOMAIN rows |-> rows[s].anthropic.run_spend])
           /\ footer.credits[2] = Sum([s \in DOMAIN rows |-> rows[s].anthropic.evidence_cost])
           /\ footer.others[1] = Sum([s \in DOMAIN rows |-> rows[s].other.run_spend])
           /\ footer.others[2] = Sum([s \in DOMAIN rows |-> rows[s].other.evidence_cost])
           /\ footer.lines = [n \in DOMAIN InOrder(DOMAIN rows) |->
                                Columns(rows, rows[InOrder(DOMAIN rows)[n]])]
  BY DEF Render

\* A stage that issued a call has its line.
LEMMA EveryStageHasALine ==
    ASSUME PInv, NEW r \in Over
    PROVE  Len(ReportUsage(r).usage.lines) = Cardinality(StagesOf(Observed(r)))
<1> DEFINE D == StagesOf(Observed(r))
           P == {n \in DOMAIN Stages : Stages[n] \in D}
           f == [n \in P |-> Stages[n]]
<1>0. InOrder(D) = FlattenSeq(Those(Stages, D)) /\ Stages \in Seq(ToSet(Stages))
  BY ProvenanceAssumption DEF InOrder, Those
<1>1. Len(ReportUsage(r).usage.lines) = Len(InOrder(D))
  <2> DEFINE rows == Summarize(Observed(r))
             listed == InOrder(DOMAIN rows)
             lines == [n \in DOMAIN listed |-> Columns(rows, rows[listed[n]])]
  <2>1. DOMAIN rows = D /\ ReportUsage(r).usage = Render(rows)
    BY DEF Summarize, ReportUsage
  <2>2. InOrder(D) \in Seq(ToSet(Stages))
    <3> HIDE DEF D
    <3> QED BY <1>0, Listed
  <2>3. Render(rows).lines = lines
    BY FooterIs, Zenon
  <2> HIDE DEF rows, D
  <2>4. listed = InOrder(D)
    BY <2>1
  <2> HIDE DEF listed
  <2>5. DOMAIN listed = 1..Len(listed) /\ Len(listed) \in Nat
    BY <2>2, <2>4
  <2>6. Len(lines) = Len(listed)
    BY <2>5
  <2> QED BY <2>1, <2>3, <2>4, <2>6, Zenon
<1>2. Len(InOrder(D)) = Cardinality(P)
  <2> HIDE DEF D
  <2> QED BY <1>0, Listed, Zenon
<1>3. IsFiniteSet(D) /\ D \in SUBSET ToSet(Stages)
  BY OfOneStage, OfListedStages
<1>4. f \in Bijection(P, D)
  <2>1. \A m, n \in P : f[m] = f[n] => m = n
    BY ProvenanceAssumption DEF IsInjective
  <2>2. \A s \in D : \E n \in P : f[n] = s
    BY <1>3 DEF ToSet
  <2>3. f \in [P -> D]
    OBVIOUS
  <2> HIDE DEF f, P, D
  <2> QED BY <2>1, <2>2, <2>3, Fun_IsBij
<1>5. ExistsBijection(P, D)
  BY <1>4 DEF ExistsBijection
<1>6. IsFiniteSet(P)
  <2>1. IsFiniteSet(1..Len(Stages)) /\ DOMAIN Stages = 1..Len(Stages)
    BY ProvenanceAssumption, FS_Interval
  <2> QED BY <2>1, FS_Subset
<1> HIDE DEF P, D
<1>7. Cardinality(D) = Cardinality(P)
  BY <1>5, <1>6, FS_Bijection
<1> QED BY <1>1, <1>2, <1>7 DEF D

\* The figures under the table hold among themselves what each row's do.
LEMMA FooterAddsUp ==
    ASSUME PInv, NEW r \in Over, NEW footer, footer = ReportUsage(r).usage
    PROVE  /\ footer.spent <= footer.cost
           /\ mode[r] = "replay" => footer.spent = 0
           /\ footer.spent = footer.credits[1] + footer.others[1]
           /\ footer.cost = footer.credits[2] + footer.others[2]
<1> DEFINE rows == Summarize(Observed(r))
           D == DOMAIN rows
           spent == [s \in D |-> rows[s].all.run_spend]
           cost == [s \in D |-> rows[s].all.evidence_cost]
           spentThere == [s \in D |-> rows[s].anthropic.run_spend]
           costThere == [s \in D |-> rows[s].anthropic.evidence_cost]
           spentElsewhere == [s \in D |-> rows[s].other.run_spend]
           costElsewhere == [s \in D |-> rows[s].other.evidence_cost]
<1>1. D = StagesOf(Observed(r)) /\ footer = Render(rows)
  BY DEF Summarize, ReportUsage
<1>2. IsFiniteSet(D)
  BY <1>1, OfOneStage
<1>3. ASSUME NEW s \in D
      PROVE  /\ spent[s] \in Nat /\ cost[s] \in Nat /\ spentThere[s] \in Nat /\ costThere[s] \in Nat
             /\ spentElsewhere[s] \in Nat /\ costElsewhere[s] \in Nat
             /\ spent[s] <= cost[s] /\ (mode[r] = "replay" => spent[s] = 0)
             /\ spent[s] = spentThere[s] + spentElsewhere[s]
             /\ cost[s] = costThere[s] + costElsewhere[s]
  <2> DEFINE row == rows[s]
  <2> HIDE DEF row
  <2>1. /\ row.all.run_spend \in Nat /\ row.all.evidence_cost \in Nat
        /\ row.anthropic.run_spend \in Nat /\ row.anthropic.evidence_cost \in Nat
        /\ row.other.run_spend \in Nat /\ row.other.evidence_cost \in Nat
        /\ row.all.run_spend <= row.all.evidence_cost
        /\ mode[r] = "replay" => row.all.run_spend = 0
        /\ row.all.run_spend = row.anthropic.run_spend + row.other.run_spend
        /\ row.all.evidence_cost = row.anthropic.evidence_cost + row.other.evidence_cost
    BY <1>1, RowAddsUp DEF row
  <2> HIDE DEF rows, D
  <2> QED BY <2>1 DEF row
<1>4. /\ footer.spent = Sum(spent) /\ footer.cost = Sum(cost)
      /\ footer.credits[1] = Sum(spentThere) /\ footer.credits[2] = Sum(costThere)
      /\ footer.others[1] = Sum(spentElsewhere) /\ footer.others[2] = Sum(costElsewhere)
  <2> HIDE DEF rows
  <2> QED BY <1>1, FooterIs
<1>5. /\ Of(spent, D) = spent /\ Of(cost, D) = cost
      /\ Of(spentThere, D) = spentThere /\ Of(costThere, D) = costThere
      /\ Of(spentElsewhere, D) = spentElsewhere /\ Of(costElsewhere, D) = costElsewhere
  <2> HIDE DEF rows, D
  <2> QED BY DEF Of
<1> HIDE DEF rows, D, spent, cost, spentThere, costThere, spentElsewhere, costElsewhere
<1>6. Sum(Of(spent, D)) <= Sum(Of(cost, D))
  BY <1>2, <1>3, SumLess
<1>7. mode[r] = "replay" => Sum(Of(spent, D)) = 0
  BY <1>2, <1>3, SumLess
<1>8. Sum(Of(spent, D)) = Sum(Of(spentThere, D)) + Sum(Of(spentElsewhere, D))
  BY <1>2, <1>3, SumPlus
<1>9. Sum(Of(cost, D)) = Sum(Of(costThere, D)) + Sum(Of(costElsewhere, D))
  BY <1>2, <1>3, SumPlus
<1> QED BY <1>4, <1>5, <1>6, <1>7, <1>8, <1>9, Zenon

\* Each call is in one row, as live or as replayed, and its cost is in that row.
LEMMA EveryCallIsInOneRow ==
    ASSUME PInv, NEW r \in Over, NEW footer, footer = ReportUsage(r).usage
    PROVE  /\ footer.live + footer.replayed = Cardinality(Observed(r))
           /\ footer.cost = Total(Observed(r), "cost")
<1> DEFINE C == Observed(r)
           rows == Summarize(C)
           D == DOMAIN rows
           p == [c \in C |-> Request[key[c]].stage]
           ones == [c \in C |-> 1]
           live == [s \in D |-> rows[s].provider_calls]
           replayed == [s \in D |-> rows[s].replayed_calls]
           count == [s \in D |-> Cardinality(OfStage(C, s))]
           cost == [s \in D |-> rows[s].all.evidence_cost]
<1>1. D = StagesOf(Observed(r)) /\ footer = Render(rows)
  BY DEF Summarize, ReportUsage
<1>2. IsFiniteSet(D) /\ IsFiniteSet(C)
  BY <1>1, OfOneStage, TheAnswered
<1>3. \A c \in C : p[c] \in D /\ ones[c] = 1 /\ Cost[c] \in Nat
  BY <1>1, CostTyped DEF StagesOf
<1>4. \A s \in D : OfStage(C, s) = Where(p, C, s)
  BY DEF OfStage, Where
<1>5. ASSUME NEW s \in D
      PROVE  /\ live[s] \in Nat /\ replayed[s] \in Nat /\ count[s] = live[s] + replayed[s]
             /\ count[s] = Cardinality(OfStage(C, s))
             /\ cost[s] = Total(OfStage(C, s), "cost")
             /\ OfStage(C, s) \in SUBSET C /\ IsFiniteSet(OfStage(C, s))
  <2> DEFINE row == rows[s]
  <2> HIDE DEF row
  <2>1. /\ row.provider_calls \in Nat /\ row.replayed_calls \in Nat
        /\ row.provider_calls + row.replayed_calls = Cardinality(OfStage(C, s))
    BY <1>1, RowAddsUp DEF row
  <2>2. row.all.evidence_cost = Total(OfStage(C, s), "cost")
    BY <1>1, RowIs DEF row
  <2>3. OfStage(C, s) \in SUBSET C /\ IsFiniteSet(OfStage(C, s))
    BY OfOneStage
  <2> HIDE DEF rows, D, C
  <2> QED BY <2>1, <2>2, <2>3 DEF row
<1>6. footer.live = Sum(live) /\ footer.replayed = Sum(replayed) /\ footer.cost = Sum(cost)
  <2> HIDE DEF rows
  <2> QED BY <1>1, FooterIs
<1>7. /\ Of(live, D) = live /\ Of(replayed, D) = replayed /\ Of(cost, D) = cost
  <2> HIDE DEF rows, D
  <2> QED BY DEF Of
<1> HIDE DEF C, rows, D, p, ones, live, replayed, count, cost
<1>8. Sum(Of(count, D)) = Sum(Of(live, D)) + Sum(Of(replayed, D))
  BY <1>2, <1>5, SumPlus
<1>9. Sum(Of(count, D)) = Sum(Of(ones, C))
  <2>1. \A s \in D : count[s] = Sum(Of(ones, Where(p, C, s)))
    <3> TAKE s \in D
    <3>1. Sum(Of(ones, OfStage(C, s))) = Cardinality(OfStage(C, s))
      BY <1>3, <1>5, SumOfOnes
    <3> QED BY <1>4, <1>5, <3>1
  <2>2. \A c \in C : ones[c] \in Nat
    BY <1>3
  <2> QED BY <1>2, <1>3, <2>1, <2>2, SumOfParts
<1>10. Sum(Of(ones, C)) = Cardinality(C)
  BY <1>2, <1>3, SumOfOnes
<1>11. Sum(Of(cost, D)) = Sum(Of(Cost, C))
  <2>1. \A s \in D : cost[s] = Sum(Of(Cost, Where(p, C, s)))
    <3> TAKE s \in D
    <3>1. Total(OfStage(C, s), "cost") = Sum(Of(Cost, OfStage(C, s)))
      BY <1>5, TotalIs DEF C
    <3> QED BY <1>4, <1>5, <3>1
  <2> QED BY <1>2, <1>3, <2>1, SumOfParts
<1>12. Total(C, "cost") = Sum(Of(Cost, C))
  BY TotalIs DEF C
<1>13. footer.live + footer.replayed = Cardinality(C)
  BY <1>6, <1>7, <1>8, <1>9, <1>10, Zenon
<1>14. footer.cost = Total(C, "cost")
  BY <1>6, <1>7, <1>11, <1>12, Zenon
<1> QED BY <1>13, <1>14 DEF C

\* What is put down to the labels is part of what the calls cost.
LEMMA LabelsCostNoMore ==
    ASSUME PInv, NEW r \in Over, NEW stages, NEW byLabel, byLabel = PerLabel(Observed(r), stages)
    PROVE  Sum([row \in DOMAIN byLabel |-> byLabel[row].cost]) <= Total(Observed(r), "cost")
<1> DEFINE C == Observed(r)
           L == {c \in C : Request[key[c]].stage \in stages /\ Request[key[c]].label # None}
           p == [c \in L |-> <<Request[key[c]].label, Request[key[c]].stage>>]
           R == {p[c] : c \in L}
           of(row) == {c \in OfStage(L, row[2]) : Request[key[c]].label = row[1]}
           cost == [row \in R |-> byLabel[row].cost]
<1>1. DOMAIN byLabel = R
  BY DEF PerLabel
<1>2. \A row \in R : byLabel[row].cost = Total(of(row), "cost")
  BY DEF PerLabel
<1>3. \A row \in R : of(row) = Where(p, L, row)
  BY DEF OfStage, Where
<1>4. L \in SUBSET C /\ IsFiniteSet(L)
  <2>1. L \in SUBSET C
    OBVIOUS
  <2> QED BY <2>1, TheAnswered, FS_Subset
<1>5. IsFiniteSet(R)
  <2> HIDE DEF p, L
  <2> QED BY <1>4, Images
<1>6. \A c \in L : p[c] \in R /\ Cost[c] \in Nat
  BY CostTyped
<1>7. Of(cost, R) = [row \in DOMAIN byLabel |-> byLabel[row].cost]
  <2> HIDE DEF R
  <2> QED BY <1>1 DEF Of
<1>8. \A row \in R : cost[row] = Sum(Of(Cost, Where(p, L, row)))
  <2> TAKE row \in R
  <2>1. of(row) \in SUBSET Observed(r)
    BY DEF OfStage
  <2> HIDE DEF of, p, L, C, R
  <2>2. Total(of(row), "cost") = Sum(Of(Cost, of(row)))
    BY <2>1, TotalIs
  <2> QED BY <1>2, <1>3, <2>2
<1> HIDE DEF C, L, p, R, of, cost
<1>9. Sum(Of(cost, R)) = Sum(Of(Cost, L))
  BY <1>4, <1>5, <1>6, <1>8, SumOfParts
<1>10. Total(L, "cost") = Sum(Of(Cost, L)) /\ Total(L, "cost") <= Total(C, "cost")
  <2>1. C \in SUBSET Observed(r) /\ L \in SUBSET C /\ L \in SUBSET Observed(r)
    BY <1>4 DEF C
  <2>2. Total(L, "cost") = Sum(Of(Cost, L))
    BY <2>1, TotalIs
  <2>3. Total(L, "cost") <= Total(C, "cost")
    BY <2>1, TotalsAdd
  <2> QED BY <2>2, <2>3
<1>11. Sum([row \in DOMAIN byLabel |-> byLabel[row].cost]) = Total(L, "cost")
  BY <1>7, <1>9, <1>10, Zenon
<1> QED BY <1>10, <1>11 DEF C

\* The account a run gives of its own calls holds, whatever other runs do to the
\* store, for any number of calls, stages, models, labels and amounts: what it
\* says was in force was asked for and is what every call says, and what it cost
\* adds up over its rows, its labels and its bills.
THEOREM AccountsHold == ProvenanceSpec => []AccountsAreOfTheRun
<1>1. PInv => AccountsAreOfTheRun
  <2> SUFFICES ASSUME PInv, NEW r \in Over
               PROVE  LET calls == Observed(r)
                          provenance == ProvenanceFor(r)
                          stages == provenance.stage_controls
                          footer == ReportUsage(r).usage
                          byLabel == PerLabel(calls, ToSet(Stages))
                      IN  /\ calls = {c \in Calls : RunOf[c] = r /\ pc[c] = "answered"}
                          /\ provenance \in ReviewProvenance
                          /\ Determinism(provenance) = "pinned" =>
                                \A c \in Completions(r) :
                                   /\ Controls(c) # None /\ Controls(c).temperature = Temperature
                                   /\ Seed # None => Controls(c).seed = Seed
                          /\ provenance.controls_in_force # None =>
                                \A name \in {"temperature", "seed"} :
                                   provenance.controls_in_force[name] =
                                      Agreed({stages[s][name] : s \in DOMAIN stages})
                          /\ \A c \in Completions(r) :
                                Controls(c) # None =>
                                   Controls(c).reasoning_effort = Request[key[c]].effort
                          /\ \A c \in Completions(r), d \in Calls :
                                observed[d] # None /\ pc[d] # "dead" /\ key[d] = key[c] =>
                                   Controls(d) = Controls(c)
                          /\ \A c \in Calls :
                                RunOf[c] = r /\ pc[c] = "unkeyed" =>
                                   ModelOf(c) \in MissingKeysByModel(r)
                          /\ footer.spent <= footer.cost /\ (mode[r] = "replay" => footer.spent = 0)
                          /\ footer.spent = footer.credits[1] + footer.others[1]
                          /\ footer.cost = footer.credits[2] + footer.others[2]
                          /\ Len(footer.lines) = Cardinality(StagesOf(calls))
                          /\ footer.live + footer.replayed = Cardinality(calls)
                          /\ Sum([row \in DOMAIN byLabel |-> byLabel[row].cost]) <= footer.cost
    BY DEF AccountsAreOfTheRun
  <2> DEFINE provenance == ProvenanceFor(r)
             stages == provenance.stage_controls
             footer == ReportUsage(r).usage
             byLabel == PerLabel(Observed(r), ToSet(Stages))
  <2>1. Observed(r) = {c \in Calls : RunOf[c] = r /\ pc[c] = "answered"}
    BY TheAnswered
  <2>2. provenance \in ReviewProvenance
    BY NothingMadeUp
  <2>3. Determinism(provenance) = "pinned" =>
          \A c \in Completions(r) :
             /\ Controls(c) # None /\ Controls(c).temperature = Temperature
             /\ Seed # None => Controls(c).seed = Seed
    BY PinnedIsKnown
  <2>4. provenance.controls_in_force # None =>
          \A name \in {"temperature", "seed"} :
             provenance.controls_in_force[name] =
                Agreed({stages[s][name] : s \in DOMAIN stages})
    <3>1. /\ provenance.controls_in_force = ControlsInForce(r)
          /\ stages = StageControlsInForce(r)
      BY DEF ProvenanceFor
    <3>2. ControlsInForce(r) # None =>
            \A name \in {"temperature", "seed"} :
               ControlsInForce(r)[name] =
                  Agreed({StageControlsInForce(r)[s][name] : s \in DOMAIN StageControlsInForce(r)})
      BY AllStagesAgree
    <3> HIDE DEF provenance, stages
    <3> QED BY <3>1, <3>2
  <2>5. \A c \in Completions(r), d \in Calls :
          observed[d] # None /\ pc[d] # "dead" /\ key[d] = key[c] => Controls(d) = Controls(c)
    BY SameRequestSameControls
  <2>6. \A c \in Calls : RunOf[c] = r /\ pc[c] = "unkeyed" => ModelOf(c) \in MissingKeysByModel(r)
    BY UnkeyedIsWarned
  <2>11. \A c \in Completions(r) :
           Controls(c) # None => Controls(c).reasoning_effort = Request[key[c]].effort
    BY EffortIsNotDropped
  <2>7. /\ footer.spent <= footer.cost /\ (mode[r] = "replay" => footer.spent = 0)
        /\ footer.spent = footer.credits[1] + footer.others[1]
        /\ footer.cost = footer.credits[2] + footer.others[2]
    BY FooterAddsUp
  <2>8. Len(footer.lines) = Cardinality(StagesOf(Observed(r)))
    BY EveryStageHasALine
  <2>9. footer.live + footer.replayed = Cardinality(Observed(r))
    BY EveryCallIsInOneRow
  <2>10. Sum([row \in DOMAIN byLabel |-> byLabel[row].cost]) <= footer.cost
    <3>1. footer.cost = Total(Observed(r), "cost")
      BY EveryCallIsInOneRow
    <3>2. Sum([row \in DOMAIN byLabel |-> byLabel[row].cost]) <= Total(Observed(r), "cost")
      BY LabelsCostNoMore
    <3> QED BY <3>1, <3>2, Zenon
  <2> QED BY <2>1, <2>2, <2>3, <2>4, <2>5, <2>6, <2>7, <2>8, <2>9, <2>10, <2>11, Zenon
<1> QED BY <1>1, AlwaysNoted, PTL
==============================================================================
