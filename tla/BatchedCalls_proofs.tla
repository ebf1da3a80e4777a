------------------------- MODULE BatchedCalls_proofs -------------------------
(***************************************************************************)
(* Theorems about MessageBatcher and BatchedCalls, for any number of       *)
(* threads, requests, attempts and batches.                                *)
(***************************************************************************)
EXTENDS BatchedCalls, TLAPS

\* One thread gathers exactly when the flag says so, and it does whenever
\* something is queued.
GatherInv ==
    /\ gatherers = IF gathering THEN 1 ELSE 0
    /\ queued # {} => gathering

\* Calls not made yet have no future, and batches not started carry nothing.
FreshInv ==
    /\ \A c \in Callers, k \in 1..MaxAttempts :
         k > attempts[c] => outcome[<<c, k>>] = "unborn"
    /\ \A b \in Batch : b > spawned => phase[b] = "unborn"

\* The table holds the pending futures and no others, each under its request,
\* and somebody is bound to settle it.
TableInv ==
    /\ \A r \in Requests : waiting[r] # None =>
         /\ outcome[waiting[r]] = "pending"
         /\ asks[waiting[r]] = r
         /\ InGoodHands(r)
    /\ \A f \in Future : outcome[f] = "pending" =>
         asks[f] \in Requests /\ waiting[asks[f]] = f

IInv == /\ TypeOK
        /\ GatherInv
        /\ FreshInv
        /\ TableInv
        /\ AnswersMatchQuestions
-----------------------------------------------------------------------------
LEMMA InitIInv == Init => IInv
<1> SUFFICES ASSUME Init PROVE IInv
  OBVIOUS
<1>1. TypeOK
  <2>1. batchLimit \in BatchLimits /\ queued \in SUBSET Requests /\ gathering \in BOOLEAN
    BY DEF Init
  <2>2. gatherers \in Nat /\ spawned \in 0..MaxBatches
    BY BatcherAssumption DEF Init
  <2>3. carries \in [Batch -> SUBSET Requests] /\ unread \in [Batch -> SUBSET Requests]
    BY DEF Init
  <2>4. phase \in [Batch -> Phases] /\ outcome \in [Future -> Outcomes]
    BY DEF Init, Phases, Outcomes
  <2>5. attempts \in [Callers -> 0..MaxAttempts]
    BY BatcherAssumption DEF Init
  <2>6. /\ waiting \in [Requests -> Future \union {None}]
        /\ asks \in [Future -> Requests \union {None}]
        /\ replyTo \in [Future -> Requests \union {None}]
        /\ awaits \in [Callers -> Future \union {None}]
    BY DEF Init
  <2> QED BY <2>1, <2>2, <2>3, <2>4, <2>5, <2>6 DEF TypeOK
<1>2. GatherInv /\ AnswersMatchQuestions
  BY DEF Init, GatherInv, AnswersMatchQuestions
<1>3. FreshInv
  BY DEF Init, FreshInv, Future
<1>4. TableInv
  BY DEF Init, TableInv
<1> QED BY <1>1, <1>2, <1>3, <1>4 DEF IInv

\* Settling touches exactly the pending futures of the given requests.
LEMMA SettleEffect ==
    ASSUME TypeOK, TableInv, NEW ids \in SUBSET Requests, NEW kind, NEW reply,
           Settle(ids, kind, reply)
    PROVE  /\ waiting' = [r \in Requests |-> IF r \in ids THEN None ELSE waiting[r]]
           /\ \A f \in Future :
                IF outcome[f] = "pending" /\ asks[f] \in ids
                  THEN outcome'[f] = kind /\ replyTo'[f] = reply
                  ELSE outcome'[f] = outcome[f] /\ replyTo'[f] = replyTo[f]
           /\ asks' = asks
           /\ DOMAIN outcome' = Future /\ DOMAIN replyTo' = Future
           /\ outcome' = [f \in Future |-> outcome'[f]]
           /\ replyTo' = [f \in Future |-> replyTo'[f]]
<1> DEFINE popped == {waiting[r] : r \in ids} \ {None}
<1>1. \A f \in Future : f \in popped <=> outcome[f] = "pending" /\ asks[f] \in ids
  BY BatcherAssumption DEF TableInv, TypeOK
<1>2. /\ outcome' = [f \in Future |-> IF f \in popped THEN kind ELSE outcome[f]]
      /\ replyTo' = [f \in Future |-> IF f \in popped THEN reply ELSE replyTo[f]]
      /\ waiting' = [r \in Requests |-> IF r \in ids THEN None ELSE waiting[r]]
      /\ asks' = asks
  BY DEF Settle
<1> HIDE DEF popped
<1> QED BY <1>1, <1>2

\* A batch's thread gives the requests in `ids` an outcome and, when it ends,
\* has settled all it carried: what is still in the table stays in good hands.
LEMMA SettleStep ==
    ASSUME IInv,
           NEW b \in Batch, NEW ids \in SUBSET Requests,
           NEW kind \in {"answer", "transient", "permanent", "noresult"},
           NEW reply \in Requests \union {None},
           kind = "answer" => ids = {reply} /\ reply \in Requests,
           Settle(ids, kind, reply),
           UNCHANGED <<batchLimit, queued, gathering, gatherers, spawned, carries, attempts>>,
           unread' \in [Batch -> SUBSET Requests],
           phase' \in [Batch -> Phases],
           \A a \in Batch : a # b => phase'[a] = phase[a],
           Active(b),
           phase'[b] = "done" => carries[b] \subseteq ids,
           phase'[b] # "done" => phase'[b] = phase[b]
    PROVE  (GatherInv /\ FreshInv /\ TableInv /\ AnswersMatchQuestions)'
           /\ outcome' \in [Future -> Outcomes]
           /\ replyTo' \in [Future -> Requests \union {None}]
           /\ waiting' \in [Requests -> Future \union {None}]
           /\ asks' = asks
<1> USE DEF IInv
<1>1. /\ waiting' = [r \in Requests |-> IF r \in ids THEN None ELSE waiting[r]]
      /\ \A f \in Future :
           IF outcome[f] = "pending" /\ asks[f] \in ids
             THEN outcome'[f] = kind /\ replyTo'[f] = reply
             ELSE outcome'[f] = outcome[f] /\ replyTo'[f] = replyTo[f]
      /\ asks' = asks
      /\ outcome' = [f \in Future |-> outcome'[f]]
      /\ replyTo' = [f \in Future |-> replyTo'[f]]
  BY SettleEffect
<1>2. waiting' \in [Requests -> Future \union {None}]
  BY <1>1 DEF TypeOK
<1>3. outcome' \in [Future -> Outcomes]
  <2>1. \A f \in Future : outcome'[f] \in Outcomes BY <1>1 DEF TypeOK, Outcomes
  <2> QED BY <1>1, <2>1
<1>4. replyTo' \in [Future -> Requests \union {None}]
  <2>1. \A f \in Future : replyTo'[f] \in Requests \union {None} BY <1>1 DEF TypeOK
  <2> QED BY <1>1, <2>1
<1>5. GatherInv'
  BY DEF GatherInv
<1>6. FreshInv'
  <2>1. \A c \in Callers, k \in 1..MaxAttempts : k > attempts[c] => outcome'[<<c, k>>] = "unborn"
    BY <1>1 DEF FreshInv, Future
  <2>2. b <= spawned
    BY DEF FreshInv, Active, Batch, TypeOK
  <2>3. \A a \in Batch : a > spawned => phase'[a] = "unborn"
    BY <2>2 DEF FreshInv, Batch, TypeOK
  <2> QED BY <2>1, <2>3 DEF FreshInv
<1>7. TableInv'
  <2>1. ASSUME NEW r \in Requests, waiting'[r] # None
        PROVE  outcome'[waiting'[r]] = "pending" /\ asks'[waiting'[r]] = r /\ InGoodHands(r)'
    <3>1. r \notin ids /\ waiting'[r] = waiting[r] BY <1>1, <2>1
    <3>2. waiting[r] \in Future /\ outcome[waiting[r]] = "pending" /\ asks[waiting[r]] = r
      BY <2>1, <3>1 DEF TableInv, TypeOK
    <3>3. outcome'[waiting'[r]] = "pending" /\ asks'[waiting'[r]] = r
      BY <1>1, <3>1, <3>2
    <3>4. InGoodHands(r) BY <2>1, <3>1 DEF TableInv
    <3>5. ASSUME NEW a \in Batch, Active(a), r \in carries[a] PROVE Active(a)'
      <4>1. CASE a = b BY <4>1, <3>1, <3>5 DEF Active
      <4>2. CASE a # b BY <4>2, <3>5 DEF Active
      <4> QED BY <4>1, <4>2
    <3> QED BY <3>3, <3>4, <3>5 DEF InGoodHands
  <2>2. ASSUME NEW f \in Future, outcome'[f] = "pending"
        PROVE  asks'[f] \in Requests /\ waiting'[asks'[f]] = f
    BY <1>1, <2>2 DEF TableInv
  <2> QED BY <2>1, <2>2 DEF TableInv
<1>8. AnswersMatchQuestions'
  BY <1>1 DEF AnswersMatchQuestions
<1> QED BY <1>1, <1>2, <1>3, <1>4, <1>5, <1>6, <1>7, <1>8

LEMMA SendIInv ==
    ASSUME IInv, NEW c \in Callers, NEW r \in Requests, Send(c, r)
    PROVE  IInv'
<1> USE DEF IInv
<1> DEFINE f == <<c, attempts[c] + 1>>
<1>1. /\ f \in Future
      /\ outcome[f] = "unborn"
      /\ attempts[c] \in 0..MaxAttempts /\ attempts[c] + 1 \in 1..MaxAttempts
  BY BatcherAssumption DEF Send, TypeOK, FreshInv, Future
<1>2. /\ attempts' = [attempts EXCEPT ![c] = attempts[c] + 1]
      /\ gathering' = TRUE
      /\ gatherers' = 1
      /\ UNCHANGED <<batchLimit, spawned, carries, phase, unread, replyTo>>
  BY DEF Send, GatherInv, batchVars, futureVars
<1>3. CASE waiting[r] # None
  <2>1. /\ awaits' = [awaits EXCEPT ![c] = waiting[r]]
        /\ UNCHANGED <<waiting, queued, outcome, asks>>
    BY <1>3 DEF Send, futureVars
  <2>2. waiting[r] \in Future BY <1>3 DEF TypeOK
  <2>3. TypeOK'
    BY <1>1, <1>2, <2>1, <2>2 DEF TypeOK, Batch
  <2>4. GatherInv' BY <1>2 DEF GatherInv
  <2>5. FreshInv' BY <1>1, <1>2, <2>1 DEF FreshInv, TypeOK, Batch
  <2>6. TableInv' BY <1>2, <2>1, BatcherAssumption DEF TableInv, InGoodHands, Active, GatherInv
  <2>7. AnswersMatchQuestions' BY <1>2, <2>1 DEF AnswersMatchQuestions
  <2> QED BY <2>3, <2>4, <2>5, <2>6, <2>7
<1>4. CASE waiting[r] = None
  <2>1. /\ awaits' = [awaits EXCEPT ![c] = f]
        /\ waiting' = [waiting EXCEPT ![r] = f]
        /\ queued' = queued \union {r}
        /\ outcome' = [outcome EXCEPT ![f] = "pending"]
        /\ asks' = [asks EXCEPT ![f] = r]
    BY <1>4 DEF Send
  <2>2. TypeOK'
    <3>1. attempts' \in [Callers -> 0..MaxAttempts] BY <1>1, <1>2 DEF TypeOK
    <3>2. outcome' \in [Future -> Outcomes] BY <1>1, <2>1 DEF TypeOK, Outcomes
    <3>3. gatherers' \in Nat BY <1>2
    <3> QED BY <1>1, <1>2, <2>1, <3>1, <3>2, <3>3 DEF TypeOK
  <2>3. GatherInv' BY <1>2 DEF GatherInv
  <2>4. FreshInv'
    <3>1. ASSUME NEW d \in Callers, NEW k \in 1..MaxAttempts, k > attempts'[d]
          PROVE  outcome'[<<d, k>>] = "unborn"
      <4>1. CASE d = c
        <5>1. k > attempts[c] + 1 /\ k > attempts[c] BY <4>1, <3>1, <1>1, <1>2 DEF TypeOK
        <5>2. <<d, k>> # f /\ <<d, k>> \in Future BY <5>1, <1>1 DEF Future
        <5> QED BY <4>1, <5>1, <5>2, <2>1 DEF FreshInv, TypeOK
      <4>2. CASE d # c
        <5>1. <<d, k>> # f /\ <<d, k>> \in Future BY <4>2 DEF Future
        <5>2. attempts'[d] = attempts[d] BY <4>2, <1>2 DEF TypeOK
        <5> QED BY <5>1, <5>2, <3>1, <2>1 DEF FreshInv, TypeOK
      <4> QED BY <4>1, <4>2
    <3> QED BY <3>1, <1>2 DEF FreshInv
  <2>5. TableInv'
    <3>1. ASSUME NEW q \in Requests, waiting'[q] # None
          PROVE  outcome'[waiting'[q]] = "pending" /\ asks'[waiting'[q]] = q /\ InGoodHands(q)'
      <4>1. CASE q = r
        BY <4>1, <1>1, <1>2, <2>1 DEF TypeOK, InGoodHands
      <4>2. CASE q # r
        <5>1. waiting'[q] = waiting[q] /\ waiting[q] \in Future BY <4>2, <3>1, <2>1 DEF TypeOK
        <5>2. outcome[waiting[q]] = "pending" /\ asks[waiting[q]] = q /\ InGoodHands(q)
          BY <5>1, <3>1 DEF TableInv
        <5>3. waiting[q] # f BY <5>2, <1>1
        <5>4. InGoodHands(q)' BY <5>2, <1>2, <2>1 DEF InGoodHands, Active
        <5> QED BY <5>1, <5>2, <5>3, <5>4, <2>1 DEF TypeOK
      <4> QED BY <4>1, <4>2
    <3>2. ASSUME NEW g \in Future, outcome'[g] = "pending"
          PROVE  asks'[g] \in Requests /\ waiting'[asks'[g]] = g
      <4>1. CASE g = f BY <4>1, <1>1, <2>1 DEF TypeOK
      <4>2. CASE g # f
        <5>1. outcome[g] = "pending" /\ asks'[g] = asks[g] BY <4>2, <3>2, <2>1 DEF TypeOK
        <5>2. asks[g] \in Requests /\ waiting[asks[g]] = g BY <5>1 DEF TableInv
        <5>3. g # None BY BatcherAssumption
        <5> QED BY <1>4, <5>1, <5>2, <5>3, <2>1 DEF TypeOK
      <4> QED BY <4>1, <4>2
    <3> QED BY <3>1, <3>2 DEF TableInv
  <2>6. AnswersMatchQuestions'
    BY <1>1, <1>2, <2>1 DEF AnswersMatchQuestions, TypeOK
  <2> QED BY <2>2, <2>3, <2>4, <2>5, <2>6
<1> QED BY <1>3, <1>4

LEMMA GatherIInv == IInv /\ Gather => IInv'
<1> SUFFICES ASSUME IInv, Gather PROVE IInv'
  OBVIOUS
<1> USE DEF IInv
<1>1. PICK n \in 0..(MaxBatches - spawned) :
        \E split \in Splits(n) : StartBatches(n, split)
  BY DEF Gather
<1>2. PICK split \in Splits(n) : StartBatches(n, split)
  BY <1>1
<1> DEFINE new == (spawned + 1)..(spawned + n)
<1>3. /\ split \in [queued -> new]
      /\ new \subseteq Batch
      /\ spawned' = spawned + n /\ spawned' \in 0..MaxBatches
  BY <1>2, BatcherAssumption DEF Splits, StartBatches, TypeOK, Batch
<1>4. /\ carries' = [b \in Batch |-> IF b \in new THEN {r \in queued : split[r] = b}
                                     ELSE carries[b]]
      /\ phase' = [b \in Batch |-> IF b \in new THEN "live" ELSE phase[b]]
  BY <1>2 DEF StartBatches
<1>5. /\ gathering' = FALSE /\ gatherers' = 0 /\ queued' = {}
      /\ UNCHANGED <<batchLimit, waiting, unread, outcome, asks, replyTo, attempts, awaits>>
  BY DEF Gather, GatherInv, futureVars, callVars
<1>6. \A b \in new : phase[b] = "unborn"
  BY <1>3 DEF FreshInv, TypeOK, Batch
<1> HIDE DEF new
<1>7. TypeOK'
  <2>1. carries' \in [Batch -> SUBSET Requests] BY <1>4 DEF TypeOK
  <2>2. phase' \in [Batch -> Phases] BY <1>4 DEF TypeOK, Phases
  <2> QED BY <1>3, <1>5, <2>1, <2>2 DEF TypeOK
<1>8. GatherInv' BY <1>5 DEF GatherInv
<1>9. TableInv'
  <2>1. ASSUME NEW r \in Requests, waiting[r] # None PROVE InGoodHands(r)'
    <3>1. InGoodHands(r) BY <2>1 DEF TableInv
    <3>2. CASE r \in queued
      <4>1. split[r] \in new /\ split[r] \in Batch BY <3>2, <1>3
      <4>2. r \in carries'[split[r]] /\ phase'[split[r]] = "live" BY <4>1, <3>2, <1>4
      <4> QED BY <4>1, <4>2 DEF InGoodHands, Active
    <3>3. ASSUME NEW b \in Batch, Active(b), r \in carries[b] PROVE InGoodHands(r)'
      <4>1. b \notin new BY <3>3, <1>6 DEF Active
      <4> QED BY <4>1, <3>3, <1>4 DEF InGoodHands, Active
    <3> QED BY <3>1, <3>2, <3>3 DEF InGoodHands
  <2> QED BY <2>1, <1>5 DEF TableInv
<1>10. FreshInv'
  <2>1. \A b \in Batch : b > spawned' => phase'[b] = "unborn"
    BY <1>3, <1>4 DEF FreshInv, TypeOK, Batch, new
  <2> QED BY <2>1, <1>5 DEF FreshInv
<1>11. AnswersMatchQuestions' BY <1>5 DEF AnswersMatchQuestions
<1> QED BY <1>7, <1>8, <1>9, <1>10, <1>11

LEMMA EndIInv == ASSUME IInv, NEW b \in Batch, End(b) PROVE IInv'
<1> USE DEF IInv, End, queueVars, futureVars, callVars
<1>1. TypeOK'
  <2>1. phase' \in [Batch -> Phases] BY DEF TypeOK, Phases
  <2>2. unread' \in [Batch -> SUBSET Requests] BY DEF TypeOK
  <2> QED BY <2>1, <2>2 DEF TypeOK
<1>2. GatherInv' /\ AnswersMatchQuestions'
  BY DEF GatherInv, AnswersMatchQuestions
<1>3. FreshInv' BY DEF FreshInv, TypeOK
<1>4. \A a \in Batch : Active(a) => Active(a)' BY DEF Active, TypeOK
<1>5. TableInv' BY <1>4 DEF TableInv, InGoodHands
<1> QED BY <1>1, <1>2, <1>3, <1>5

LEMMA ReadIInv ==
    ASSUME IInv, NEW b \in Batch, NEW r \in Requests, Read(b, r)
    PROVE  IInv'
<1>1. PICK kind \in {"answer", "transient", "permanent"}, reply \in Requests \union {None} :
        Settle({r}, kind, reply) /\ (kind = "answer" => reply = r)
  BY DEF Read
<1>2. /\ UNCHANGED <<batchLimit, queued, gathering, gatherers, spawned, carries, attempts>>
      /\ UNCHANGED <<phase, awaits>>
      /\ unread' \in [Batch -> SUBSET Requests]
      /\ Active(b)
  BY DEF Read, callVars, TypeOK, Active, IInv
<1>3. phase[b] # "done" /\ phase' \in [Batch -> Phases]
  BY <1>2 DEF Active, TypeOK, IInv
<1>4. /\ kind \in {"answer", "transient", "permanent", "noresult"}
      /\ kind = "answer" => {r} = {reply} /\ reply \in Requests
      /\ {r} \in SUBSET Requests
  BY <1>1
<1>5. /\ \A a \in Batch : a # b => phase'[a] = phase[a]
      /\ phase'[b] = "done" => carries[b] \subseteq {r}
      /\ phase'[b] # "done" => phase'[b] = phase[b]
  BY <1>2, <1>3
<1>6. /\ (GatherInv /\ FreshInv /\ TableInv /\ AnswersMatchQuestions)'
      /\ outcome' \in [Future -> Outcomes]
      /\ replyTo' \in [Future -> Requests \union {None}]
      /\ waiting' \in [Requests -> Future \union {None}]
      /\ asks' = asks
  BY <1>1, <1>2, <1>3, <1>4, <1>5, SettleStep
<1>7. TypeOK' BY <1>2, <1>3, <1>6 DEF TypeOK, IInv
<1> QED BY <1>6, <1>7 DEF IInv

LEMMA LastIInv ==
    ASSUME IInv, NEW b \in Batch, Sweep(b) \/ Fail(b)
    PROVE  IInv'
<1>1. PICK kind \in {"transient", "permanent", "noresult"} : Settle(carries[b], kind, None)
  BY DEF Sweep, Fail
<1>2. /\ UNCHANGED <<batchLimit, queued, gathering, gatherers, spawned, carries, attempts>>
      /\ awaits' = awaits
      /\ phase' = [phase EXCEPT ![b] = "done"]
      /\ unread' \in [Batch -> SUBSET Requests]
      /\ Active(b)
  BY DEF Sweep, Fail, callVars, TypeOK, Active, IInv
<1>3. phase' \in [Batch -> Phases]
  BY <1>2 DEF TypeOK, Phases, IInv
<1>4. /\ kind \in {"answer", "transient", "permanent", "noresult"}
      /\ kind = "answer" => carries[b] = {None} /\ None \in Requests
      /\ carries[b] \in SUBSET Requests
      /\ None \in Requests \union {None}
  BY <1>1 DEF TypeOK, IInv
<1>5. /\ \A a \in Batch : a # b => phase'[a] = phase[a]
      /\ phase'[b] = "done" => carries[b] \subseteq carries[b]
      /\ phase'[b] # "done" => phase'[b] = phase[b]
  BY <1>2 DEF TypeOK, IInv
<1>6. /\ (GatherInv /\ FreshInv /\ TableInv /\ AnswersMatchQuestions)'
      /\ outcome' \in [Future -> Outcomes]
      /\ replyTo' \in [Future -> Requests \union {None}]
      /\ waiting' \in [Requests -> Future \union {None}]
      /\ asks' = asks
  BY <1>1, <1>2, <1>3, <1>4, <1>5, SettleStep
<1>7. TypeOK' BY <1>2, <1>3, <1>6 DEF TypeOK, IInv
<1> QED BY <1>6, <1>7 DEF IInv

LEMMA ReturnIInv == ASSUME IInv, NEW c \in Callers, Return(c) PROVE IInv'
<1> USE DEF IInv, Return, queueVars, batchVars, futureVars
<1>1. TypeOK' BY DEF TypeOK
<1>2. (GatherInv /\ FreshInv /\ AnswersMatchQuestions)'
  BY DEF GatherInv, FreshInv, AnswersMatchQuestions
<1>3. TableInv' BY DEF TableInv, InGoodHands, Active
<1> QED BY <1>1, <1>2, <1>3

LEMMA FailUnsentIInv == ASSUME IInv, NEW c \in Callers, FailUnsent(c) PROVE IInv'
<1> USE DEF IInv, queueVars, batchVars, futureVars
<1>1. /\ attempts' = [attempts EXCEPT ![c] = attempts[c] + 1]
      /\ attempts[c] + 1 \in 0..MaxAttempts
  BY BatcherAssumption DEF FailUnsent, TypeOK
<1>2. TypeOK' BY <1>1 DEF FailUnsent, TypeOK
<1>3. (GatherInv /\ AnswersMatchQuestions)'
  BY DEF FailUnsent, GatherInv, AnswersMatchQuestions
<1>4. FreshInv'
  <2>1. \A d \in Callers : attempts'[d] >= attempts[d] BY <1>1, BatcherAssumption DEF TypeOK
  <2>2. \A d \in Callers, k \in 1..MaxAttempts : k > attempts'[d] => k > attempts[d]
    BY <1>2, <2>1, BatcherAssumption DEF TypeOK
  <2> QED BY <2>2 DEF FailUnsent, FreshInv
<1>5. TableInv' BY DEF FailUnsent, TableInv, InGoodHands, Active
<1> QED BY <1>2, <1>3, <1>4, <1>5

LEMMA StepIInv == IInv /\ [Next]_vars => IInv'
<1> SUFFICES ASSUME IInv, [Next]_vars PROVE IInv'
  OBVIOUS
<1>1. ASSUME NEW c \in Callers, NEW r \in Requests, Send(c, r) PROVE IInv'
  BY <1>1, SendIInv
<1>2. ASSUME NEW c \in Callers, Return(c) \/ FailUnsent(c) PROVE IInv'
  BY <1>2, ReturnIInv, FailUnsentIInv
<1>3. CASE Gather
  BY <1>3, GatherIInv
<1>4. ASSUME NEW b \in Batch, BatchThread(b) PROVE IInv'
  BY <1>4, EndIInv, ReadIInv, LastIInv DEF BatchThread
<1>5. CASE UNCHANGED vars
  <2> USE <1>5 DEF vars, IInv, queueVars, batchVars, futureVars, callVars
  <2>1. TypeOK' BY DEF TypeOK
  <2>2. (GatherInv /\ FreshInv /\ AnswersMatchQuestions)'
    BY DEF GatherInv, FreshInv, AnswersMatchQuestions
  <2>3. TableInv' BY DEF TableInv, InGoodHands, Active
  <2> QED BY <2>1, <2>2, <2>3
<1> QED BY <1>1, <1>2, <1>3, <1>4, <1>5 DEF Next, Batcher

LEMMA Invariance == Spec => []IInv
  BY InitIInv, StepIInv, PTL DEF Spec

\* Every field of the batcher keeps its type.
THEOREM TypeCorrect == Spec => []TypeOK
  BY Invariance, PTL DEF IInv

\* Whatever its callers ask, and however often, no call of a MessageBatcher is
\* ever left waiting for an answer nobody is bound to give.
THEOREM NoneStranded == Spec => []NoCallIsStranded
<1>1. IInv => NoCallIsStranded
  BY BatcherAssumption DEF IInv, TableInv, NoCallIsStranded
<1> QED BY <1>1, Invariance, PTL

\* No future is settled twice, so no batch's thread dies settling one.
THEOREM SettlesOnce == Spec => SettledOnce
<1>1. ASSUME IInv, [Next]_vars, NEW f \in Future, outcome[f] \notin {"unborn", "pending"}
      PROVE  outcome'[f] = outcome[f] /\ replyTo'[f] = replyTo[f]
  <2> USE DEF IInv
  <2>1. ASSUME NEW c \in Callers, NEW r \in Requests, Send(c, r)
        PROVE  outcome'[f] = outcome[f] /\ replyTo'[f] = replyTo[f]
    <3> DEFINE new == <<c, attempts[c] + 1>>
    <3>1. new \in Future /\ outcome[new] = "unborn"
      BY <1>1, <2>1, BatcherAssumption DEF Send, TypeOK, FreshInv, Future
    <3>2. f # new BY <3>1, <1>1
    <3> QED BY <1>1, <2>1, <3>2 DEF Send, futureVars, TypeOK
  <2>2. ASSUME NEW c \in Callers, Return(c) \/ FailUnsent(c)
        PROVE  outcome'[f] = outcome[f] /\ replyTo'[f] = replyTo[f]
    BY <2>2 DEF Return, FailUnsent, futureVars
  <2>3. CASE Gather BY <2>3 DEF Gather, futureVars
  <2>4. ASSUME NEW b \in Batch, End(b)
        PROVE  outcome'[f] = outcome[f] /\ replyTo'[f] = replyTo[f]
    BY <2>4 DEF End, futureVars
  <2>5. ASSUME NEW ids \in SUBSET Requests, NEW kind, NEW reply, Settle(ids, kind, reply)
        PROVE  outcome'[f] = outcome[f] /\ replyTo'[f] = replyTo[f]
    BY <2>5, <1>1, SettleEffect
  <2>6. ASSUME NEW b \in Batch, NEW r \in Requests, Read(b, r)
        PROVE  outcome'[f] = outcome[f] /\ replyTo'[f] = replyTo[f]
    BY <2>6, <2>5 DEF Read
  <2>7. ASSUME NEW b \in Batch, Sweep(b) \/ Fail(b)
        PROVE  outcome'[f] = outcome[f] /\ replyTo'[f] = replyTo[f]
    <3>1. PICK kind \in {"transient", "permanent", "noresult"} : Settle(carries[b], kind, None)
      BY <2>7 DEF Sweep, Fail
    <3>2. carries[b] \in SUBSET Requests BY <1>1 DEF TypeOK
    <3> QED BY <3>1, <3>2, <2>5
  <2>8. ASSUME NEW b \in Batch, BatchThread(b)
        PROVE  outcome'[f] = outcome[f] /\ replyTo'[f] = replyTo[f]
    BY <2>8, <2>4, <2>6, <2>7 DEF BatchThread
  <2>9. CASE UNCHANGED vars BY <2>9 DEF vars, futureVars
  <2> QED
    BY <1>1, <2>1, <2>2, <2>3, <2>8, <2>9 DEF Next, Batcher
<1>2. IInv /\ [Next]_vars =>
        [\A f \in Future : outcome[f] \notin {"unborn", "pending"} =>
           outcome'[f] = outcome[f] /\ replyTo'[f] = replyTo[f]]_vars
  BY <1>1
<1> QED BY <1>2, Invariance, PTL DEF Spec, SettledOnce
-----------------------------------------------------------------------------
(* The stage's threads are callers like any other.                         *)

CallsInv == IInv /\ want \in [Callers -> Requests] /\ CallerInv

LEMMA InitCallsInv == InitCalls => CallsInv
  BY InitIInv DEF InitCalls, Init, CallsInv, CallerInv

\* A step of the stage is a step of the batcher.
LEMMA CallsStepIsStep == CallsInv /\ [NextCalls]_allVars => [Next]_vars
<1> SUFFICES ASSUME CallsInv, [NextCalls]_allVars PROVE [Next]_vars
  OBVIOUS
<1>1. ASSUME NEW c \in Callers, Ask(c) PROVE Next
  BY <1>1 DEF Ask, Next, CallsInv
<1>2. ASSUME NEW c \in Callers, Hear(c) \/ Falter(c) PROVE Next
  BY <1>2 DEF Hear, Falter, Next
<1>3. CASE Batcher
  BY <1>3 DEF Next
<1>4. CASE UNCHANGED allVars
  BY <1>4 DEF allVars
<1> QED BY <1>1, <1>2, <1>3, <1>4 DEF NextCalls

\* Once settled, a future stays settled and never goes back to "unborn".
LEMMA FutureStep ==
    ASSUME IInv, [Next]_vars, NEW f \in Future, outcome[f] # "unborn"
    PROVE  outcome'[f] # "unborn" /\ asks'[f] = asks[f]
<1> USE DEF IInv
<1>1. ASSUME NEW c \in Callers, NEW r \in Requests, Send(c, r)
      PROVE  outcome'[f] # "unborn" /\ asks'[f] = asks[f]
  <2> DEFINE new == <<c, attempts[c] + 1>>
  <2>1. new \in Future /\ outcome[new] = "unborn"
    BY <1>1, BatcherAssumption DEF Send, TypeOK, FreshInv, Future
  <2>2. f # new BY <2>1
  <2> QED BY <1>1, <2>2 DEF Send, futureVars, TypeOK
<1>2. ASSUME NEW ids \in SUBSET Requests, NEW kind, kind # "unborn", NEW reply,
             Settle(ids, kind, reply)
      PROVE  outcome'[f] # "unborn" /\ asks'[f] = asks[f]
  BY <1>2, SettleEffect
<1>3. ASSUME NEW b \in Batch, BatchThread(b)
      PROVE  outcome'[f] # "unborn" /\ asks'[f] = asks[f]
  <2>1. CASE End(b) BY <2>1 DEF End, futureVars
  <2>2. ASSUME NEW r \in Requests, Read(b, r)
        PROVE  outcome'[f] # "unborn" /\ asks'[f] = asks[f]
    BY <2>2, <1>2 DEF Read
  <2>3. CASE Sweep(b) \/ Fail(b)
    <3>1. PICK kind \in {"transient", "permanent", "noresult"} : Settle(carries[b], kind, None)
      BY <2>3 DEF Sweep, Fail
    <3>2. carries[b] \in SUBSET Requests BY DEF TypeOK
    <3> QED BY <3>1, <3>2, <1>2
  <2> QED BY <1>3, <2>1, <2>2, <2>3 DEF BatchThread
<1>4. CASE (\E c \in Callers : Return(c) \/ FailUnsent(c)) \/ Gather \/ UNCHANGED vars
  BY <1>4 DEF Return, FailUnsent, Gather, vars, futureVars
<1> QED BY <1>1, <1>3, <1>4 DEF Next, Batcher

LEMMA StepCallsInv == CallsInv /\ [NextCalls]_allVars => CallsInv'
<1> SUFFICES ASSUME CallsInv, [NextCalls]_allVars PROVE CallsInv'
  OBVIOUS
<1> USE DEF CallsInv
<1>1. [Next]_vars BY CallsStepIsStep
<1>2. IInv' BY <1>1, StepIInv
<1>3. want' = want BY DEF NextCalls, Ask, Hear, Falter, allVars
<1>4. CallerInv'
  <2> SUFFICES ASSUME NEW d \in Callers, awaits'[d] # None
               PROVE  asks'[awaits'[d]] = want[d] /\ outcome'[awaits'[d]] # "unborn"
    BY <1>3 DEF CallerInv
  <2>1. CASE awaits'[d] = awaits[d]
    <3>1. awaits[d] \in Future BY <2>1 DEF IInv, TypeOK
    <3>2. asks[awaits[d]] = want[d] /\ outcome[awaits[d]] # "unborn"
      BY <2>1 DEF CallerInv
    <3> QED BY <1>1, <2>1, <3>1, <3>2, FutureStep
  <2>2. CASE awaits'[d] # awaits[d]
    <3>1. PICK c \in Callers : Ask(c)
      <4>1. ~ UNCHANGED allVars BY <2>2 DEF allVars, vars, callVars
      <4>2. ~ Batcher
        BY <2>2
        DEF Batcher, BatchThread, Gather, End, Read, Sweep, Fail, callVars
      <4>3. ASSUME NEW c \in Callers, Hear(c) \/ Falter(c) PROVE FALSE
        BY <4>3, <2>2 DEF Hear, Return, Falter, FailUnsent, IInv, TypeOK
      <4> QED BY <4>1, <4>2, <4>3 DEF NextCalls
    <3>2. Send(c, want[c]) /\ want[c] \in Requests BY <3>1 DEF Ask
    <3>3. c = d BY <2>2, <3>2 DEF Send, IInv, TypeOK
    <3>4. CASE waiting[want[c]] # None
      <4>1. awaits'[c] = waiting[want[c]] /\ UNCHANGED <<outcome, asks>>
        BY <3>4, <3>2 DEF Send, futureVars, IInv, TypeOK
      <4> QED BY <4>1, <3>2, <3>3, <3>4 DEF IInv, TableInv
    <3>5. CASE waiting[want[c]] = None
      <4> DEFINE new == <<c, attempts[c] + 1>>
      <4>1. new \in Future
        BY <3>2, BatcherAssumption DEF Send, IInv, TypeOK, Future
      <4>2. /\ awaits'[c] = new
            /\ outcome'[new] = "pending" /\ asks'[new] = want[c]
        BY <3>5, <3>2, <4>1 DEF Send, IInv, TypeOK
      <4> QED BY <4>2, <3>3
    <3> QED BY <3>4, <3>5
  <2> QED BY <2>1, <2>2
<1> QED BY <1>2, <1>3, <1>4

LEMMA CallsInvariance == SpecCalls => []CallsInv
  BY InitCallsInv, StepCallsInv, PTL DEF SpecCalls

\* A stage's calls through the batcher are calls of the batcher, so what is
\* proved of every caller holds for them.
THEOREM CallsAreCalls == SpecCalls => Spec
<1>1. InitCalls => Init BY DEF InitCalls
<1> QED BY <1>1, CallsStepIsStep, CallsInvariance, PTL DEF SpecCalls, Spec

\* However many threads share a request, and however often each asks it again,
\* the answer a call comes back with is the answer to its own question.
THEOREM AnswersReachTheirAsker == SpecCalls => []AnswerIsForTheAsker
<1>1. CallsInv => AnswerIsForTheAsker
  BY DEF CallsInv, CallerInv, IInv, TypeOK, AnswersMatchQuestions, AnswerIsForTheAsker
<1> QED BY <1>1, CallsInvariance, PTL
=============================================================================
