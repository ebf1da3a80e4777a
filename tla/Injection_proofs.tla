--------------------------- MODULE Injection_proofs ---------------------------
(***************************************************************************)
(* Injection for any tests, files, candidates and breadth check: nothing   *)
(* the control run sets aside is lost, and what is said of a defect rests  *)
(* on what the tests were seen to do.                                      *)
(***************************************************************************)
EXTENDS Injection, FiniteSetTheorems, TLAPS

Early == {"collecting", "admitting", "controlling", "mirroring"}

\* The file that collects by itself and comes before all others that do.
Widest(f) ==
    /\ {f} \in together
    /\ \A g \in Files \ {f} : {g} \in together => Before(f, g)

\* What a search in progress has kept, and has dropped.
SearchInv ==
    /\ stage \in {"collecting", "admitting"} => usable = {} /\ setAside = {}
    /\ stage = "collecting" => left = {} /\ admitted = {}
    /\ stage = "admitting" =>
         /\ admitted # {} => admitted \in together
         /\ \A f \in Files \ (left \union admitted) : admitted \union {f} \notin together
         /\ \A f \in Files : Widest(f) => f \in left \union admitted
         /\ \A g \in admitted, f \in left : Before(g, f)

\* The tests are divided in two, ever less of them usable.
ControlInv ==
    /\ stage = "controlling" => usable = {} /\ setAside = Tests \ TestsOf(admitted)
    /\ stage = "mirroring" => usable = inPlace /\ setAside = Tests \ usable
    /\ stage \notin Early => setAside = Tests \ usable /\ usable \subseteq inPlace
    /\ stage \notin Early => usable \subseteq inCopy

\* As long as candidates are asked for, each so far was set aside.
AskInv ==
    /\ stage \in Early => asked = 0
    /\ stage \in Early \union {"asking"} => aside = asked
    /\ stage # "done" => attempt = NoAttempt

IInv ==
    /\ TypeOK
    /\ together \in Hereditary
    /\ SearchInv
    /\ LittleIsLost
    /\ ControlInv
    /\ AskInv
    /\ RedIsTheEditsDoing
    /\ GreenIsFullyObserved
    /\ NoRecordIsRefused

LEMMA Sizes == \A s \in SUBSET Tests : Cardinality(s) \in Nat
  BY FS_Subset, FS_CardinalityType, InjectionAssumption

\* Of two files at most one comes before the other.
LEMMA BeforeIsAsymmetric ==
    ASSUME NEW f \in Files, NEW g \in Files, Before(f, g), Before(g, f)
    PROVE  FALSE
<1>1. PICK m \in Nat : m = Cardinality(TestsOf({f}))
  BY Sizes DEF TestsOf
<1>2. PICK n \in Nat : n = Cardinality(TestsOf({g}))
  BY Sizes DEF TestsOf
<1>3. Path[f] \in Nat /\ Path[g] \in Nat
  BY InjectionAssumption
<1>4. /\ m > n \/ (m = n /\ Path[f] < Path[g])
      /\ n > m \/ (n = m /\ Path[g] < Path[f])
  BY <1>1, <1>2 DEF Before
<1> QED BY <1>3, <1>4

LEMMA BuildersType == TypeOK => Builders \in Nat \ {0} /\ Max1(config.candidates) <= Builders
<1> SUFFICES ASSUME TypeOK PROVE Builders \in Nat \ {0} /\ Max1(config.candidates) <= Builders
  OBVIOUS
<1>1. PICK n \in Nat : n = config.candidates
  <2>1. config.candidates \in Candidates /\ Candidates \subseteq Nat
    BY InjectionAssumption DEF TypeOK
  <2> QED BY <2>1
<1>2. PICK m \in Nat \ {0} : m = Max1(config.candidates)
  BY <1>1 DEF Max1
<1> QED BY <1>2 DEF Builders
-----------------------------------------------------------------------------
LEMMA InitIInv == Init => IInv
<1> SUFFICES ASSUME Init PROVE IInv
  OBVIOUS
<1> USE DEF Init
<1>1. together \in SUBSET (SUBSET Files) BY DEF Hereditary
<1>2. Builders \in Nat
  <2>1. config.candidates \in Nat BY InjectionAssumption
  <2>2. PICK n \in Nat : n = config.candidates BY <2>1
  <2>3. PICK m \in Nat : m = Max1(config.candidates) BY <2>2 DEF Max1
  <2> QED BY <2>3 DEF Builders
<1>3. NoAttempt \in MutationAttempt
  BY DEF NoAttempt, MutationAttempt, Outcomes, Corroborations
<1>4. TypeOK BY <1>1, <1>2, <1>3 DEF TypeOK, Stages, Unrun
<1>5. SearchInv /\ LittleIsLost /\ ControlInv /\ AskInv
  BY DEF SearchInv, LittleIsLost, ControlInv, AskInv, Early
<1>6. RedIsTheEditsDoing /\ GreenIsFullyObserved /\ NoRecordIsRefused
  BY DEF RedIsTheEditsDoing, GreenIsFullyObserved, NoRecordIsRefused, NoAttempt
<1> QED BY <1>4, <1>5, <1>6 DEF IInv

\* A step of the control run leaves the attempt as it was.
LEMMA AttemptUntouched ==
    ASSUME IInv, stage \in Early, stage' \in Early \union {"asking"},
           UNCHANGED <<config, trial>>
    PROVE  (AskInv /\ RedIsTheEditsDoing /\ GreenIsFullyObserved /\ NoRecordIsRefused)'
           /\ asked' \in 0..Builders' /\ aside' \in 0..Builders'
           /\ under' \in [Tests -> Kinds \union {"unrun"}] /\ attempt' \in MutationAttempt
<1>1. asked = 0 /\ aside = 0 /\ attempt = NoAttempt
  BY DEF IInv, AskInv, Early
<1>2. asked' = 0 /\ aside' = 0 /\ attempt' = NoAttempt /\ under' = under /\ config' = config
  BY <1>1 DEF trial
<1>3. (AskInv /\ NoRecordIsRefused)'
  BY <1>2 DEF AskInv, NoRecordIsRefused, Early
<1>4. (RedIsTheEditsDoing /\ GreenIsFullyObserved)'
  BY <1>2 DEF RedIsTheEditsDoing, GreenIsFullyObserved, NoAttempt
<1>5. asked' \in 0..Builders' /\ aside' \in 0..Builders'
  BY <1>1, <1>2 DEF IInv, TypeOK, Builders
<1>6. under' \in [Tests -> Kinds \union {"unrun"}] /\ attempt' \in MutationAttempt
  BY <1>1, <1>2 DEF IInv, TypeOK
<1> QED BY <1>3, <1>4, <1>5, <1>6

LEMMA CollectingIInv == ASSUME IInv, Collecting PROVE IInv'
<1> DEFINE fits(f) == admitted \union {f} \in together
<1>1. CASE CollectJointly \/ CollectFails \/ AllTried
  <2>1. stage \in {"collecting", "admitting"} /\ UNCHANGED <<given, inPlace, inCopy, usable, trial>>
    BY <1>1 DEF CollectJointly, CollectFails, AllTried
  <2>2. /\ left' \in SUBSET Files /\ admitted' \in SUBSET Files
        /\ setAside' \in SUBSET Tests /\ stage' \in {"admitting", "controlling"}
    BY <1>1 DEF CollectJointly, CollectFails, AllTried, Collected, IInv, TypeOK
  <2>3. SearchInv'
    <3>1. stage' = "admitting" =>
            stage = "collecting" /\ admitted' = {} /\ left' = Files /\ setAside' = {}
      BY <1>1 DEF CollectJointly, CollectFails, AllTried, Collected, IInv, SearchInv
    <3>2. usable' = {} BY <2>1 DEF IInv, SearchInv
    <3> QED BY <3>1, <3>2, <2>2 DEF SearchInv
  <2>4. LittleIsLost'
    <3>1. CASE CollectJointly /\ stage' # "admitting"
      <4>1. admitted' = Files /\ Files \in together /\ together' = together
        BY <3>1 DEF CollectJointly, CollectsOnce, Collected, given
      <4> QED BY <4>1 DEF LittleIsLost
    <3>2. CASE CollectFails
      BY <3>2 DEF CollectFails, Collected, LittleIsLost
    <3>3. CASE AllTried
      <4>1. admitted' = admitted /\ left = {} /\ stage = "admitting" /\ together' = together
        BY <3>3 DEF AllTried, Collected, given
      <4>2. ASSUME admitted # {}
            PROVE  /\ admitted \in together
                   /\ \A f \in Files \ admitted : admitted \union {f} \notin together
                   /\ \A f \in Files : Widest(f) => f \in admitted
        BY <4>1, <4>2 DEF IInv, SearchInv
      <4> QED BY <4>1, <4>2 DEF LittleIsLost, Widest, Before
    <3>4. CASE stage' = "admitting"
      BY <3>4 DEF LittleIsLost
    <3> QED BY <1>1, <3>1, <3>2, <3>3, <3>4
  <2>5. ControlInv'
    <3>1. stage' = "controlling" => setAside' = Tests \ TestsOf(admitted')
      BY <1>1 DEF CollectJointly, CollectFails, AllTried, Collected
    <3>2. usable' = {} BY <2>1 DEF IInv, SearchInv
    <3> QED BY <3>1, <3>2, <2>2 DEF ControlInv, Early, TestsOf
  <2>6. TypeOK' /\ (AskInv /\ RedIsTheEditsDoing /\ GreenIsFullyObserved /\ NoRecordIsRefused)'
    <3>1. /\ (AskInv /\ RedIsTheEditsDoing /\ GreenIsFullyObserved /\ NoRecordIsRefused)'
          /\ asked' \in 0..Builders' /\ aside' \in 0..Builders'
          /\ under' \in [Tests -> Kinds \union {"unrun"}] /\ attempt' \in MutationAttempt
      BY <2>1, <2>2, AttemptUntouched DEF Early, given
    <3>2. TypeOK' BY <3>1, <2>1, <2>2 DEF IInv, TypeOK, Stages, given
    <3> QED BY <3>1, <3>2
  <2>7. together' \in Hereditary BY <2>1 DEF IInv, given
  <2> QED BY <2>3, <2>4, <2>5, <2>6, <2>7 DEF IInv
<1>2. CASE Admit
  <2>1. PICK f \in left :
          /\ \A g \in left \ {f} : Before(f, g)
          /\ left' = left \ {f}
          /\ admitted' = IF fits(f) THEN admitted \union {f} ELSE admitted
    BY <1>2 DEF Admit, CollectsOnce
  <2>2. /\ stage = "admitting" /\ stage' = "admitting"
        /\ UNCHANGED <<given, inPlace, inCopy, usable, setAside, trial>>
        /\ together' = together
    BY <1>2 DEF Admit, given
  <2>3. /\ left \in SUBSET Files /\ admitted \in SUBSET Files /\ f \in Files
        /\ together \in Hereditary
    BY <2>1 DEF IInv, TypeOK
  <2>4. SearchInv'
    <3>1. admitted' # {} => admitted' \in together'
      BY <2>1, <2>2 DEF IInv, SearchInv
    <3>2. ASSUME NEW g \in Files \ (left' \union admitted')
          PROVE  admitted' \union {g} \notin together'
      <4>1. CASE g = f
        BY <4>1, <3>2, <2>1, <2>2
      <4>2. CASE g # f
        <5>1. admitted \union {g} \notin together
          BY <4>2, <3>2, <2>1, <2>2, <2>3 DEF IInv, SearchInv
        <5>2. admitted \union {g} \in SUBSET (admitted' \union {g})
          BY <2>1
        <5> QED BY <5>1, <5>2, <2>2, <2>3 DEF Hereditary
      <4> QED BY <4>1, <4>2
    <3>3. ASSUME NEW g \in Files, Widest(g) PROVE g \in left' \union admitted'
      <4>1. g \in left \union admitted
        BY <3>3, <2>2 DEF IInv, SearchInv
      <4>2. CASE g = f /\ ~fits(f)
        <5>1. {f} \in together BY <4>2, <3>3 DEF Widest
        <5>2. admitted # {} /\ admitted \in together
          BY <5>1, <4>2, <2>2 DEF IInv, SearchInv
        <5>3. PICK h \in admitted : TRUE BY <5>2
        <5>4. {h} \in together /\ h \in Files
          BY <5>2, <5>3, <2>3 DEF Hereditary
        <5>5. Before(h, f)
          BY <5>3, <2>1, <2>2 DEF IInv, SearchInv
        <5>6. h # f
          BY <5>5, <2>3, BeforeIsAsymmetric
        <5>7. Before(f, h)
          BY <5>4, <5>6, <4>2, <3>3 DEF Widest
        <5> QED BY <5>4, <5>5, <5>7, <2>3, BeforeIsAsymmetric
      <4> QED BY <4>1, <4>2, <2>1
    <3>4. ASSUME NEW g \in admitted', NEW h \in left' PROVE Before(g, h)
      BY <3>4, <2>1, <2>2 DEF IInv, SearchInv
    <3>5. usable' = {} /\ setAside' = {} /\ \A g \in Files : Widest(g)' => Widest(g)
      BY <2>2 DEF IInv, SearchInv, Widest, Before
    <3> QED BY <3>1, <3>2, <3>3, <3>4, <3>5, <2>2 DEF SearchInv, Before
  <2>5. TypeOK' /\ (AskInv /\ RedIsTheEditsDoing /\ GreenIsFullyObserved /\ NoRecordIsRefused)'
    <3>1. /\ (AskInv /\ RedIsTheEditsDoing /\ GreenIsFullyObserved /\ NoRecordIsRefused)'
          /\ asked' \in 0..Builders' /\ aside' \in 0..Builders'
          /\ under' \in [Tests -> Kinds \union {"unrun"}] /\ attempt' \in MutationAttempt
      BY <2>2, AttemptUntouched DEF Early, given
    <3>2. TypeOK' BY <3>1, <2>1, <2>2, <2>3 DEF IInv, TypeOK, Stages, given
    <3> QED BY <3>1, <3>2
  <2>6. LittleIsLost' /\ ControlInv'
    BY <2>2 DEF LittleIsLost, ControlInv, Early
  <2> QED BY <2>2, <2>3, <2>4, <2>5, <2>6 DEF IInv
<1> QED BY <1>1, <1>2 DEF Collecting

LEMMA ControlIInv == ASSUME IInv, Control \/ Mirror PROVE IInv'
<1>1. /\ stage \in {"controlling", "mirroring"} /\ stage' \in {"mirroring", "asking"}
      /\ UNCHANGED <<given, left, admitted, trial>>
      /\ inPlace' \in SUBSET Tests /\ inCopy' \in SUBSET Tests
      /\ usable' \in SUBSET Tests /\ setAside' \in SUBSET Tests
  BY DEF Control, Mirror, TestsOf, IInv, TypeOK
<1>2. ControlInv'
  <2>1. CASE Control
    <3>1. setAside' = Tests \ inPlace' /\ usable' = inPlace'
      BY <2>1 DEF Control, IInv, ControlInv, TestsOf
    <3>2. stage' = IF inPlace' = {} THEN "asking" ELSE "mirroring"
      BY <2>1 DEF Control
    <3> QED BY <3>1, <3>2 DEF ControlInv, Early
  <2>2. CASE Mirror
    <3>1. /\ usable' = inCopy' /\ inCopy' \subseteq inPlace' /\ stage' = "asking"
          /\ setAside' = Tests \ usable'
      BY <2>2 DEF Mirror, IInv, ControlInv, TypeOK
    <3> QED BY <3>1 DEF ControlInv, Early
  <2> QED BY <2>1, <2>2
<1>3. /\ (AskInv /\ RedIsTheEditsDoing /\ GreenIsFullyObserved /\ NoRecordIsRefused)'
      /\ asked' \in 0..Builders' /\ aside' \in 0..Builders'
      /\ under' \in [Tests -> Kinds \union {"unrun"}] /\ attempt' \in MutationAttempt
  BY <1>1, AttemptUntouched DEF Early, given
<1>4. TypeOK' BY <1>1, <1>3 DEF IInv, TypeOK, Stages, given
<1>5. SearchInv' /\ together' \in Hereditary BY <1>1 DEF IInv, SearchInv, given
<1>6. LittleIsLost' BY <1>1 DEF IInv, LittleIsLost, given, Before
<1> QED BY <1>2, <1>3, <1>4, <1>5, <1>6 DEF IInv
-----------------------------------------------------------------------------
\* What an attempt says of the tests is what the run showed.
Supported(a, u) ==
    /\ a.killing \union a.failing # {} =>
         /\ a.killing \union a.failing = Failed(u)
         /\ Failed(u) \subseteq usable
         /\ ~Refuses(u)
    /\ \/ a.outcome = "survived"
       \/ a.corroboration = "no_test_pins_expected"
       => usable # {} /\ \A t \in usable : u[t] = "passed"

\* An attempt that its validators accept, and that says no more than the last
\* run showed, keeps the invariant.
LEMMA RecordIInv ==
    ASSUME IInv, NEW a \in MutationAttempt, Record(a), Accepts(a),
           stage = "asking", UNCHANGED <<given, baseline>>,
           asked' \in 0..Builders, aside' \in 0..Builders,
           under' \in [Tests -> Kinds \union {"unrun"}],
           Supported(a, under')
    PROVE  IInv'
<1>1. stage' = "done" /\ attempt' = a BY DEF Record
<1>2. /\ UNCHANGED <<together, config, left, admitted, inPlace, inCopy, usable, setAside>>
      /\ Builders' = Builders
  BY DEF given, baseline, Builders
<1>3. TypeOK' BY <1>1, <1>2 DEF IInv, TypeOK, Stages
<1>4. SearchInv' /\ LittleIsLost' /\ together' \in Hereditary
  BY <1>1, <1>2 DEF IInv, SearchInv, LittleIsLost, Before
<1>5. ControlInv' /\ AskInv' /\ NoRecordIsRefused'
  BY <1>1, <1>2 DEF IInv, ControlInv, AskInv, Early, NoRecordIsRefused
<1>6. RedIsTheEditsDoing'
  <2> DEFINE red == a.killing \union a.failing
             n == Cardinality(red)
             few == n <= Floor \/ n * Den <= Num * Cardinality(usable)
  <2> SUFFICES ASSUME red # {}
               PROVE  /\ red \subseteq inPlace \intersect inCopy
                      /\ red = Failed(under')
                      /\ \E t \in red : under'[t] = "asserts"
                      /\ few
    BY <1>1, <1>2 DEF RedIsTheEditsDoing, Failed
  <2>1. red = Failed(under') /\ red \subseteq usable /\ ~Refuses(under')
    BY DEF Supported
  <2>2. red \subseteq inPlace \intersect inCopy
    BY <2>1 DEF IInv, ControlInv, Early
  <2>3. \E t \in red : under'[t] = "asserts"
    BY <2>1 DEF Refuses, Failed
  <2>4. few
    <3>1. n \in Nat /\ Cardinality(usable) \in Nat
      BY <2>1, Sizes DEF IInv, TypeOK
    <3>2. ~(n > Floor /\ n * Den > Num * Cardinality(usable))
      BY <2>1 DEF Refuses, TooBroad
    <3>3. n * Den \in Int /\ Num * Cardinality(usable) \in Int /\ Floor \in Int
      BY <3>1, InjectionAssumption
    <3> QED BY <3>1, <3>2, <3>3
  <2> QED BY <2>1, <2>2, <2>3, <2>4
<1>7. GreenIsFullyObserved' BY <1>1, <1>2 DEF GreenIsFullyObserved, Supported
<1> QED BY <1>3, <1>4, <1>5, <1>6, <1>7 DEF IInv

\* A candidate set aside keeps the invariant.
LEMMA AsideIInv ==
    ASSUME IInv, Ask, aside' = aside + 1, UNCHANGED <<stage, attempt>>,
           under' \in [Tests -> Kinds \union {"unrun"}]
    PROVE  IInv'
<1>1. /\ stage = "asking" /\ asked < Builders /\ asked' = asked + 1
      /\ UNCHANGED <<together, config, left, admitted, inPlace, inCopy, usable, setAside>>
      /\ Builders' = Builders
  BY DEF Ask, given, baseline, Builders
<1>2. aside = asked /\ attempt = NoAttempt BY <1>1 DEF IInv, AskInv
<1>3. asked' \in 0..Builders' /\ aside' \in 0..Builders'
  BY <1>1, <1>2, BuildersType DEF IInv, TypeOK
<1>4. TypeOK' BY <1>1, <1>3 DEF IInv, TypeOK
<1>5. SearchInv' /\ LittleIsLost' /\ ControlInv' /\ NoRecordIsRefused' /\ together' \in Hereditary
  BY <1>1 DEF IInv, SearchInv, LittleIsLost, Before, ControlInv, NoRecordIsRefused
<1>6. AskInv' BY <1>1, <1>2 DEF AskInv, Early
<1>7. RedIsTheEditsDoing' /\ GreenIsFullyObserved'
  BY <1>2 DEF RedIsTheEditsDoing, GreenIsFullyObserved, NoAttempt
<1> QED BY <1>4, <1>5, <1>6, <1>7 DEF IInv

LEMMA RunsShow ==
    ASSUME TypeOK, NEW u \in Runs
    PROVE  /\ u \in [Tests -> Kinds \union {"unrun"}]
           /\ Failed(u) \subseteq usable
           /\ Failed(u) = {} /\ Unseen(u) = {} => \A t \in usable : u[t] = "passed"
  BY DEF TypeOK, Runs, Failed, Unseen, Kinds

\* The attempts that no run of the tests stands behind.
LEMMA UntestedIInv ==
    ASSUME IInv, NotAttempted \/ NoRegion \/ Declined \/ CopyFails \/ ClaimUntested \/ GiveUp
    PROVE  IInv'
<1>1. stage = "asking" /\ UNCHANGED <<given, baseline>> /\ UNCHANGED <<aside, under>>
  BY DEF NotAttempted, NoRegion, Declined, CopyFails, ClaimUntested, GiveUp, AskModel, Ask
<1>2. /\ asked \in Nat /\ aside = asked /\ Builders \in Nat \ {0}
      /\ asked \in 0..Builders
      /\ under' \in [Tests -> Kinds \union {"unrun"}]
  BY <1>1, BuildersType DEF IInv, TypeOK, AskInv
<1>3. /\ asked' \in 0..Builders /\ aside' \in 0..Builders
      /\ NotAttempted \/ NoRegion \/ GiveUp => asked' = asked
      /\ Declined \/ CopyFails \/ ClaimUntested => asked' = asked + 1
  BY <1>1, <1>2
  DEF NotAttempted, NoRegion, GiveUp, Declined, CopyFails, ClaimUntested, AskModel, Ask
<1>4. PICK a \in MutationAttempt : Record(a) /\ Accepts(a) /\ Supported(a, under')
  <2> USE DEF MutationAttempt, Outcomes, Corroborations, Accepts, Supported
  <2>1. CASE NotAttempted \/ NoRegion \/ Declined
    <3>1. PICK o \in {"not_attempted", "not_mutable", "not_a_code_property", "already_present"} :
            Record(Unused(o))
      BY <2>1 DEF NotAttempted, NoRegion, Declined
    <3>2. Unused(o) \in MutationAttempt /\ Accepts(Unused(o)) /\ Supported(Unused(o), under')
      BY <1>2, <1>3, <2>1 DEF Unused
    <3> QED BY <3>1, <3>2
  <2>2. CASE CopyFails
    <3> DEFINE c == Used("not_attempted", {}, {})
    <3>1. Record(c) BY <2>2 DEF CopyFails
    <3>2. c \in MutationAttempt /\ Accepts(c) /\ Supported(c, under')
      BY <1>2, <1>3, <2>2 DEF Used
    <3> QED BY <3>1, <3>2
  <2>3. CASE ClaimUntested
    <3> DEFINE c == Finding("not_run", {})
    <3>1. Record(c) BY <2>3 DEF ClaimUntested
    <3>2. c \in MutationAttempt /\ Accepts(c) /\ Supported(c, under')
      BY <1>2, <1>3, <2>3 DEF Finding
    <3> QED BY <3>1, <3>2
  <2>4. CASE GiveUp
    <3> DEFINE c == Unused("no_usable_edit")
    <3>1. Record(c) /\ asked = Builders BY <2>4 DEF GiveUp
    <3>2. c \in MutationAttempt /\ Accepts(c) /\ Supported(c, under')
      BY <1>2, <1>3, <2>4, <3>1 DEF Unused
    <3> QED BY <3>1, <3>2
  <2> QED BY <2>1, <2>2, <2>3, <2>4
<1> QED BY <1>1, <1>2, <1>3, <1>4, RecordIInv

\* The attempts that a run of the tests stands behind.
LEMMA TestedIInv ==
    ASSUME IInv, Inject \/ ClaimTested
    PROVE  IInv'
<1>1. /\ Ask /\ under' \in Runs
      /\ stage = "asking" /\ usable # {} /\ asked < Builders /\ asked' = asked + 1
      /\ UNCHANGED <<given, baseline>>
  BY DEF Inject, ClaimTested, AskModel, Ask
<1>2. /\ asked \in Nat /\ aside = asked /\ Builders \in Nat
      /\ usable \in SUBSET Tests
  BY <1>1, BuildersType DEF IInv, TypeOK, AskInv
<1>3. /\ under' \in [Tests -> Kinds \union {"unrun"}]
      /\ Failed(under') \subseteq usable
      /\ Failed(under') = {} /\ Unseen(under') = {} => \A t \in usable : under'[t] = "passed"
  BY <1>1, RunsShow DEF IInv
<1>4. CASE Inject /\ Refuses(under')
  BY <1>1, <1>3, <1>4, AsideIInv DEF Inject
<1>5. CASE (Inject /\ ~Refuses(under')) \/ ClaimTested
  <2>1. PICK a \in MutationAttempt : Record(a) /\ Accepts(a) /\ Supported(a, under')
    <3>1. CASE Inject /\ ~Refuses(under')
      <4> DEFINE c == Used(Classify(under'), usable, Failed(under'))
      <4>1. Record(c) BY <3>1 DEF Inject
      <4>2. c \in MutationAttempt /\ Accepts(c)
        BY <1>1, <1>2, <1>3
        DEF MutationAttempt, Outcomes, Corroborations, Accepts, Classify, Used
      <4>3. Supported(c, under')
        BY <1>1, <1>3, <3>1 DEF Classify, Supported, Used
      <4> QED BY <4>1, <4>2, <4>3
    <3>2. CASE ClaimTested
      <4>1. PICK k \in Corroborations \ {"none"}, f \in {{}, Failed(under')} :
              /\ Record(Finding(k, f))
              /\ f # {} => k = "a_test_asserts_defective" /\ ~Refuses(under')
              /\ k = "no_test_pins_expected" => Failed(under') = {} /\ Unseen(under') = {}
        BY <3>2 DEF ClaimTested, Corroborations
      <4>2. Finding(k, f) \in MutationAttempt /\ Accepts(Finding(k, f))
        BY <1>1, <1>2, <1>3, <4>1
        DEF MutationAttempt, Outcomes, Corroborations, Accepts, Finding
      <4>3. Supported(Finding(k, f), under')
        BY <1>1, <1>3, <4>1 DEF Supported, Finding
      <4> QED BY <4>1, <4>2, <4>3
    <3> QED BY <1>5, <3>1, <3>2
  <2>2. asked' \in 0..Builders /\ aside' \in 0..Builders
    BY <1>1, <1>2, <1>5 DEF Inject, ClaimTested
  <2> QED BY <1>1, <1>3, <2>1, <2>2, RecordIInv
<1> QED BY <1>4, <1>5

LEMMA CallFailsIInv == ASSUME IInv, CallFails PROVE IInv'
<1>1. /\ stage = "asking" /\ stage' = "aborted" /\ asked < Builders /\ asked' = asked + 1
      /\ UNCHANGED <<together, config, left, admitted, inPlace, inCopy, usable, setAside,
                     aside, under, attempt>>
      /\ Builders' = Builders
  BY DEF CallFails, Ask, given, baseline, Builders
<1>2. TypeOK' BY <1>1, BuildersType DEF IInv, TypeOK, Stages
<1>3. SearchInv' /\ LittleIsLost' /\ together' \in Hereditary
  BY <1>1 DEF IInv, SearchInv, LittleIsLost, Before
<1>4. ControlInv' /\ AskInv' /\ NoRecordIsRefused'
  BY <1>1 DEF IInv, ControlInv, AskInv, Early, NoRecordIsRefused
<1>5. RedIsTheEditsDoing' /\ GreenIsFullyObserved'
  BY <1>1 DEF IInv, AskInv, RedIsTheEditsDoing, GreenIsFullyObserved, NoAttempt
<1> QED BY <1>2, <1>3, <1>4, <1>5 DEF IInv

LEMMA StepIInv == IInv /\ [Next]_vars => IInv'
<1> SUFFICES ASSUME IInv, [Next]_vars PROVE IInv'
  OBVIOUS
<1>1. CASE Collecting BY <1>1, CollectingIInv
<1>2. CASE Control \/ Mirror BY <1>2, ControlIInv
<1>3. CASE Refused
  BY <1>3, AsideIInv DEF Refused, IInv, TypeOK
<1>4. CASE NotAttempted \/ NoRegion \/ Declined \/ CopyFails \/ ClaimUntested \/ GiveUp
  BY <1>4, UntestedIInv
<1>5. CASE Inject \/ ClaimTested BY <1>5, TestedIInv
<1>6. CASE CallFails BY <1>6, CallFailsIInv
<1>7. CASE UNCHANGED vars
  <2> USE <1>7 DEF vars, IInv
  <2>1. TypeOK' /\ together' \in Hereditary BY DEF TypeOK, Builders
  <2>2. SearchInv' /\ LittleIsLost' BY DEF SearchInv, LittleIsLost, Widest, Before
  <2>3. ControlInv' /\ AskInv' /\ NoRecordIsRefused' BY DEF ControlInv, AskInv, NoRecordIsRefused
  <2>4. RedIsTheEditsDoing' /\ GreenIsFullyObserved'
    BY DEF RedIsTheEditsDoing, GreenIsFullyObserved, Failed
  <2> QED BY <2>1, <2>2, <2>3, <2>4
<1> QED BY <1>1, <1>2, <1>3, <1>4, <1>5, <1>6, <1>7 DEF Next, Attempting

LEMMA Invariance == Spec => []IInv
  BY InitIInv, StepIInv, PTL DEF Spec

\* The baseline, the candidates and the attempt keep their types.
THEOREM TypeCorrect == Spec => []TypeOK
  BY Invariance, PTL DEF IInv

\* Whatever pytest collects together, the files kept collect together, none of
\* those dropped would have collected with them, and the largest that collects
\* at all is kept.
THEOREM LittleLost == Spec => []LittleIsLost
  BY Invariance, PTL DEF IInv

\* Through both control runs, every test is usable or set aside.
THEOREM AllAccountedFor == Spec => []EveryTestIsAccountedFor
<1>1. IInv => EveryTestIsAccountedFor
  BY DEF IInv, TypeOK, ControlInv, EveryTestIsAccountedFor, Early
<1> QED BY <1>1, Invariance, PTL

\* A red test is red by the edit.
THEOREM RedByTheEdit == Spec => []RedIsTheEditsDoing
  BY Invariance, PTL DEF IInv

\* A survival, and a repair that no test notices, rest on every usable test.
THEOREM GreenObserved == Spec => []GreenIsFullyObserved
  BY Invariance, PTL DEF IInv

\* No record the stage builds is refused by its own validators.
THEOREM NeverRefused == Spec => []NoRecordIsRefused
  BY Invariance, PTL DEF IInv
=============================================================================
