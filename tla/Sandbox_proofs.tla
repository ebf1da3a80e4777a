---------------------------- MODULE Sandbox_proofs ----------------------------
(***************************************************************************)
(* Sandbox for any runs, slots and cases: the slots add up, and what a run *)
(* says is what its pytest wrote.                                          *)
(***************************************************************************)
EXTENDS Sandbox, WellFoundedInduction, TLAPS

\* Of any cases one is first.
LEMMA FirstIsOne ==
    ASSUME NEW cases \in SUBSET Cases, cases # {}
    PROVE  First(cases) \in cases
<1>1. cases \subseteq Nat
  BY SandboxAssumption DEF Cases
<1>2. IsWellFoundedOn(OpToRel(<, Nat), Nat)
  BY NatLessThanWellFounded
<1>3. PICK c \in cases : \A d \in cases : ~ (<<d, c>> \in OpToRel(<, Nat))
  BY <1>1, <1>2, WFMin
<1>4. \A d \in cases : ~ (d < c)
  BY <1>1, <1>3 DEF OpToRel
<1>5. \A d \in cases : c <= d
  BY <1>1, <1>4
<1> QED BY <1>5 DEF First

\* A case is written down as having passed only if every phase of it passed, and as
\* having failed if a phase failed and the ones before it passed; whatever ends its
\* phases have, something is written.
THEOREM LinesSayWhatWasSeen ==
    \A blocked \in BOOLEAN : \A setup, call, teardown \in Ends(blocked) :
        LET line == Line(setup, call, teardown) IN
        /\ line \in Kinds
        /\ line = "passed" <=> setup = "passed" /\ call = "passed" /\ teardown = "passed"
        /\ line = "failed" <=>
             \/ setup = "failed"
             \/ setup = "passed" /\ call = "failed"
             \/ setup = "passed" /\ call = "passed" /\ teardown = "failed"
        /\ ~blocked => line # "network_blocked"
<1> SUFFICES ASSUME NEW blocked \in BOOLEAN,
                    NEW setup \in Ends(blocked), NEW call \in Ends(blocked),
                    NEW teardown \in Ends(blocked)
             PROVE  LET line == Line(setup, call, teardown) IN
                    /\ line \in Kinds
                    /\ line = "passed" <=>
                         setup = "passed" /\ call = "passed" /\ teardown = "passed"
                    /\ line = "failed" <=>
                         \/ setup = "failed"
                         \/ setup = "passed" /\ call = "failed"
                         \/ setup = "passed" /\ call = "passed" /\ teardown = "failed"
                    /\ ~blocked => line # "network_blocked"
  OBVIOUS
<1>1. /\ \A end \in Ends(blocked) :
           end \in {"passed", "skipped", "failed", "timed_out", "network_blocked"}
      /\ ~blocked => setup # "network_blocked" /\ call # "network_blocked"
                     /\ teardown # "network_blocked"
  BY DEF Ends, Failures
<1> QED BY <1>1 DEF Line, Noted, KindOf, Kinds

LEMMA LinesAreKinds == Lines[Blocked] \subseteq Kinds
<1>1. Blocked \in BOOLEAN
  BY DEF Blocked
<1>2. Lines[Blocked] = {Line(setup, call, teardown) :
                           setup, call, teardown \in Ends(Blocked)}
  BY <1>1 DEF Lines
<1> QED BY <1>1, <1>2, LinesSayWhatWasSeen

\* The validators of an outcome refuse neither what is read of a line nor what is
\* said of a test that was not reached.
LEMMA OutcomesAreAccepted ==
    /\ \A kind \in Kinds : OutcomeOf(kind) \in Outcomes
    /\ \A reason \in Unreached : NotStarted(reason) \in Outcomes
  BY DEF OutcomeOf, NotStarted, Outcomes, Kinds, Completed, Unreached

LEMMA FoldIsOfACase ==
    ASSUME NEW rep \in [Cases -> Kinds \union {"none"}], NEW t \in Tests,
           \E c \in CasesOf(t) : rep[c] # "none"
    PROVE  \E c \in CasesOf(t) :
             /\ rep[c] # "none"
             /\ Fold(rep, t) = OutcomeOf(rep[c])
             /\ (\E d \in CasesOf(t) : rep[d] = "failed") => rep[c] = "failed"
             /\ rep[c] = "passed" => \A d \in CasesOf(t) : rep[d] \in {"passed", "none"}
<1> DEFINE written == {c \in CasesOf(t) : rep[c] # "none"}
           failed == {c \in written : rep[c] = "failed"}
           incomplete == {c \in written : rep[c] \notin Completed}
           chosen == IF failed # {} THEN failed
                     ELSE IF incomplete # {} THEN incomplete ELSE written
<1>1. chosen \in SUBSET Cases /\ chosen # {} /\ chosen \subseteq written
  BY DEF CasesOf
<1>2. First(chosen) \in chosen
  <2> HIDE DEF chosen
  <2> QED BY <1>1, FirstIsOne
<1>3. Fold(rep, t) = OutcomeOf(rep[First(chosen)])
  BY DEF Fold
<1>4. (\E d \in CasesOf(t) : rep[d] = "failed") => rep[First(chosen)] = "failed"
  BY <1>2
<1>5. rep[First(chosen)] = "passed" => failed = {} /\ incomplete = {}
  BY <1>2 DEF Completed
<1>6. rep[First(chosen)] = "passed" => \A d \in CasesOf(t) : rep[d] \in {"passed", "none"}
  <2>1. \A d \in CasesOf(t) : rep[d] \in Kinds \union {"none"}
    BY DEF CasesOf
  <2> QED BY <1>5, <2>1 DEF Completed
<1> HIDE DEF chosen
<1> QED BY <1>1, <1>2, <1>3, <1>4, <1>6

\* What a run that was read returns are outcomes.
LEMMA ReadOutcomes ==
    ASSUME TypeOK, NEW r \in Runs, Read(r)
    PROVE  \A t \in Tests : result'[r][t] \in Outcomes
<1> SUFFICES ASSUME NEW t \in Tests PROVE result'[r][t] \in Outcomes
  OBVIOUS
<1>1. result'[r][t] = IF \E c \in CasesOf(t) : report[r][c] # "none" THEN Fold(report[r], t)
                      ELSE NotStarted(WhyUnreached(r))
  BY DEF TypeOK, Read
<1>2. report[r] \in [Cases -> Kinds \union {"none"}]
  BY DEF TypeOK
<1>3. CASE \E c \in CasesOf(t) : report[r][c] # "none"
  <2>1. PICK c \in CasesOf(t) :
          report[r][c] # "none" /\ Fold(report[r], t) = OutcomeOf(report[r][c])
    BY <1>2, <1>3, FoldIsOfACase
  <2>2. report[r][c] \in Kinds
    BY <1>2, <2>1 DEF CasesOf
  <2> QED BY <1>1, <1>3, <2>1, <2>2, OutcomesAreAccepted
<1>4. CASE ~ \E c \in CasesOf(t) : report[r][c] # "none"
  <2>1. WhyUnreached(r) \in Unreached
    BY DEF WhyUnreached, Unreached
  <2> QED BY <1>1, <1>4, <2>1, OutcomesAreAccepted
<1> QED BY <1>3, <1>4

\* What goes back to the pool is a slot, because a run in flight holds one.
IInv == TypeOK /\ SlotsAddUp

LEMMA InitIInv == Init => IInv
  BY SandboxAssumption
  DEF Init, IInv, TypeOK, SlotsAddUp, InFlight, Phases, Kinds, NoOutcomes, Slots

\* A run gets a slot nobody has.
LEMMA SpawnStep ==
    ASSUME IInv, NEW r \in Runs, SpawnLockedDown(r) \/ SpawnInSlot(r)
    PROVE  IInv'
<1>1. TypeOK'
  <2>1. PICK n \in Slots \union {0} : Spawn(r, n) /\ free' \in SUBSET Slots
    BY DEF IInv, TypeOK, SpawnLockedDown, SpawnInSlot
  <2> QED BY <2>1 DEF IInv, TypeOK, Spawn, Group, Phases, outcomes
<1>2. SlotsAddUp'
  <2>1. CASE SpawnLockedDown(r)
    BY <2>1 DEF SpawnLockedDown, Spawn, SlotsAddUp
  <2>2. CASE SpawnInSlot(r)
    <3>1. PICK n \in free : Spawn(r, n) /\ free' = free \ {n}
      BY <2>2 DEF SpawnInSlot
    <3>2. InFlight' = InFlight \union {r} /\ r \notin InFlight
      BY <3>1 DEF IInv, TypeOK, InFlight, Spawn
    <3>3. slot'[r] = n /\ \A q \in InFlight : slot'[q] = slot[q]
      BY <3>1, <3>2 DEF IInv, TypeOK, InFlight, Spawn
    <3>4. command /\ command' /\ n \in Slots
      BY <2>2, <3>1 DEF SpawnInSlot, Spawn, IInv, TypeOK
    <3> QED BY <3>1, <3>2, <3>3, <3>4 DEF IInv, SlotsAddUp
  <2> QED BY <2>1, <2>2
<1> QED BY <1>1, <1>2 DEF IInv

\* A run that ends puts back what it alone held.
LEMMA EndedStep ==
    ASSUME IInv, NEW r \in Runs, Ended(r)
    PROVE  IInv'
<1>1. r \in InFlight /\ r \notin InFlight' /\ InFlight' = InFlight \ {r}
  BY DEF IInv, TypeOK, InFlight, Ended, Release
<1>2. \A q \in InFlight' : slot'[q] = slot[q]
  BY <1>1 DEF IInv, TypeOK, InFlight, Ended, Release
<1>3. CASE command
  <2>1. slot[r] \in Slots /\ free' = free \union {slot[r]} /\ command'
    BY <1>1, <1>3 DEF IInv, SlotsAddUp, Ended, Release
  <2>2. TypeOK'
    BY <2>1 DEF IInv, TypeOK, Ended, Release, Phases, group, outcomes
  <2>3. SlotsAddUp'
    BY <1>1, <1>2, <1>3, <2>1 DEF IInv, SlotsAddUp
  <2> QED BY <2>2, <2>3 DEF IInv
<1>4. CASE ~command
  BY <1>4 DEF IInv, TypeOK, SlotsAddUp, Ended, Release, Phases, group, outcomes
<1> QED BY <1>3, <1>4

\* The other steps keep the runs in flight and what they hold.
LEMMA SlotsKept ==
    ASSUME SlotsAddUp, InFlight' = InFlight, UNCHANGED <<command, free, slot>>
    PROVE  SlotsAddUp'
  BY DEF SlotsAddUp

LEMMA OtherSteps ==
    ASSUME IInv, NEW r \in Runs,
           \/ SpawnFails(r) \/ Terminate(r) \/ Kill(r) \/ Read(r) \/ RunCase(r)
           \/ \E p \in {"shell", "pytest"} : Dies(r, p)
    PROVE  IInv'
<1> USE DEF IInv, TypeOK, InFlight, Phases, Kinds, group, outcomes
<1>1. CASE SpawnFails(r)
  <2>1. NotStarted("could_not_run") \in Outcomes
    BY OutcomesAreAccepted DEF Unreached
  <2> QED BY <1>1, <2>1, SlotsKept DEF SpawnFails, AllNotStarted
<1>2. CASE Terminate(r)
  BY <1>2, SlotsKept DEF Terminate, Signal
<1>3. CASE Kill(r)
  BY <1>3, SlotsKept DEF Kill, Signal
<1>4. CASE Read(r)
  <2>1. \A t \in Tests : result'[r][t] \in Outcomes
    BY <1>4, ReadOutcomes
  <2>2. result' = [result EXCEPT ![r] = [t \in Tests |-> result'[r][t]]]
    BY <1>4 DEF Read
  <2> QED BY <1>4, <2>1, <2>2, SlotsKept DEF Read
<1>5. CASE RunCase(r)
  <2>1. next[r] \in Cases
    BY <1>5, SandboxAssumption DEF RunCase, Cases
  <2>2. TypeOK'
    BY <1>5, <2>1, SandboxAssumption, LinesAreKinds DEF RunCase, Cases
  <2> QED BY <1>5, <2>2, SlotsKept DEF RunCase
<1>6. CASE \E p \in {"shell", "pytest"} : Dies(r, p)
  BY <1>6, SlotsKept DEF Dies
<1> QED BY <1>1, <1>2, <1>3, <1>4, <1>5, <1>6

LEMMA StepIInv == IInv /\ [Next]_vars => IInv'
<1>1. ASSUME IInv, UNCHANGED vars PROVE IInv'
  BY <1>1 DEF IInv, TypeOK, SlotsAddUp, InFlight, vars
<1> QED BY <1>1, SpawnStep, EndedStep, OtherSteps DEF Next, Caller

\* The variables keep their types: what is put back into the pool is a slot,
\* and no case is run twice.
THEOREM TypeCorrect == Spec => []TypeOK
  BY InitIInv, StepIInv, PTL DEF Spec, IInv

\* Whichever way the runs of the test command end, those in flight together
\* hold different slots and none is lost.
THEOREM SlotsAreKept == Spec => []SlotsAddUp
  BY InitIInv, StepIInv, PTL DEF Spec, IInv

\* A run that ends, is stopped or cannot be killed says of every test what was
\* written of its cases, and of itself what became of it.
THEOREM ReportedAsWritten == Spec => OutcomesAreReported
<1> DEFINE Reported == \A r \in Runs : phase[r] = "reading" /\ phase'[r] = "done" =>
                 \A t \in Tests :
                    LET written == {c \in CasesOf(t) : report[r][c] # "none"}
                        outcome == result'[r][t]
                    IN  /\ outcome.kind = "failed" <=> \E c \in written : report[r][c] = "failed"
                        /\ outcome.kind = "passed" =>
                             written # {} /\ \A c \in written : report[r][c] = "passed"
                        /\ outcome.reason \in Unreached <=> written = {}
                        /\ outcome.reason = "no_report" => \A c \in Cases : report[r][c] = "none"
                        /\ outcome.reason = "budget" => aborted[r]
<1>1. ASSUME IInv, [Next]_vars PROVE [Reported]_vars
  <2> SUFFICES ASSUME NEW r \in Runs, phase[r] = "reading", phase'[r] = "done", NEW t \in Tests
               PROVE  LET written == {c \in CasesOf(t) : report[r][c] # "none"}
                          outcome == result'[r][t]
                      IN  /\ outcome.kind = "failed" <=> \E c \in written : report[r][c] = "failed"
                          /\ outcome.kind = "passed" =>
                               written # {} /\ \A c \in written : report[r][c] = "passed"
                          /\ outcome.reason \in Unreached <=> written = {}
                          /\ outcome.reason = "no_report" => \A c \in Cases : report[r][c] = "none"
                          /\ outcome.reason = "budget" => aborted[r]
    OBVIOUS
  <2>1. Read(r)
    <3>1. PICK q \in Runs : Caller(q) \/ RunCase(q) \/ \E p \in {"shell", "pytest"} : Dies(q, p)
      BY <1>1 DEF Next, vars
    <3>2. phase' # phase
      OBVIOUS
    <3>3. Caller(q)
      BY <3>1, <3>2 DEF RunCase, Dies
    <3> QED BY <1>1, <3>3 DEF IInv, TypeOK, Caller, SpawnLockedDown, SpawnInSlot, Spawn,
                              SpawnFails, AllNotStarted, Ended, Release, Terminate, Kill, Read
  <2>2. result'[r][t] = IF \E c \in CasesOf(t) : report[r][c] # "none" THEN Fold(report[r], t)
                        ELSE NotStarted(WhyUnreached(r))
    BY <1>1, <2>1 DEF IInv, TypeOK, Read
  <2>3. report[r] \in [Cases -> Kinds \union {"none"}] /\ CasesOf(t) \subseteq Cases
    BY <1>1 DEF IInv, TypeOK, CasesOf
  <2>4. CASE \E c \in CasesOf(t) : report[r][c] # "none"
    <3>1. PICK c \in CasesOf(t) :
            /\ report[r][c] # "none"
            /\ Fold(report[r], t) = OutcomeOf(report[r][c])
            /\ (\E d \in CasesOf(t) : report[r][d] = "failed") => report[r][c] = "failed"
            /\ report[r][c] = "passed" =>
                 \A d \in CasesOf(t) : report[r][d] \in {"passed", "none"}
      BY <2>3, <2>4, FoldIsOfACase
    <3>2. /\ result'[r][t].kind = report[r][c]
          /\ result'[r][t].reason \in {"none", "of_the_case"}
      BY <2>2, <2>4, <3>1 DEF OutcomeOf
    <3> QED BY <3>1, <3>2 DEF Unreached
  <2>5. CASE ~ \E c \in CasesOf(t) : report[r][c] # "none"
    <3>1. result'[r][t].kind = "not_started" /\ result'[r][t].reason = WhyUnreached(r)
      BY <2>2, <2>5 DEF NotStarted
    <3> QED BY <2>5, <3>1 DEF WhyUnreached, Unreached
  <2> QED BY <2>4, <2>5
<1>2. Spec => []IInv
  BY InitIInv, StepIInv, PTL DEF Spec
<1>3. IInv /\ [Next]_vars => [Reported]_vars
  BY <1>1
<1> QED BY <1>2, <1>3, PTL DEF Spec, OutcomesAreReported
=============================================================================
